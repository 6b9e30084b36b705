--------------------------- MODULE BindingPromises --------------------------
(***************************************************************************)
(* What the reconciler promises: that it implements BindingContract, and   *)
(* what the finalizer and the Ready condition say, under the conditions    *)
(* the code needs to keep the promise.                                     *)
(***************************************************************************)
EXTENDS BindingSafety

(***************************************************************************)
(* Refinement: every step of the workers, the informer, the users and the  *)
(* failures is a step of BindingContract, or leaves the phases and the     *)
(* carried bindings as they are.                                           *)
(***************************************************************************)

\* What projecting, and unprojecting, b does to the bindings carried.
LEMMA CarriedEffect ==
  ASSUME NEW b \in Bindings, NEW x \in Bindings, NEW old \in Contents, NEW s \in OwnSecrets(b)
  PROVE  /\ x \in {b} \cup Twins[b] => Carries(Project(b, s, old), x)
         /\ Carries(Project(b, s, old), x) => x \in {b} \cup Twins[b] \/ Carries(old, x)
         /\ Carries(Unproject(b, s, old), x) => Carries(old, x)
         /\ Carries(old, x) => Carries(Project(b, s, old), x) \/ x \in Rivals[b] \ Twins[b]
         /\ Carries(old, x) => Carries(Unproject(b, s, old), x) \/ x \in Rivals[b] \cup {b}
<1>a. /\ VolumeName[b] \in Volumes /\ VolumeName[x] \in Volumes
      /\ old.volumes \in [Volumes -> SecretNames \cup {NoSecret}]
      /\ old = [volumes |-> old.volumes, envFrom |-> old.envFrom]
  BY ConstantsAssumption, Zenon DEF Contents
<1>b. /\ b \in AsFiles => /\ Project(b, s, old).volumes = [old.volumes EXCEPT ![VolumeName[b]] = s]
                          /\ Project(b, s, old).envFrom = old.envFrom
      /\ b \notin AsFiles => /\ Project(b, s, old).volumes = old.volumes
                             /\ Project(b, s, old).envFrom = old.envFrom \cup {s}
  BY <1>a, Zenon DEF Project
<1>c. /\ Unproject(b, s, old).volumes = [old.volumes EXCEPT ![VolumeName[b]] = NoSecret]
      /\ Unproject(b, s, old).envFrom = old.envFrom \ {s}
  BY Zenon DEF Unproject
<1>1. ASSUME x \in {b} \cup Twins[b]
      PROVE  Carries(Project(b, s, old), x)
  <2>1. /\ s \in OwnSecrets(x) /\ (b \in AsFiles <=> x \in AsFiles)
        /\ x \in AsFiles => VolumeName[x] = VolumeName[b]
    BY <1>1, Zenon DEF Twins, Shares, OwnSecrets
  <2> QED BY <1>a, <1>b, <2>1, Zenon DEF Carries
<1>2. ASSUME Carries(old, x), ~Carries(Project(b, s, old), x)
      PROVE  x \in Rivals[b] \ Twins[b]
  <2>1. x \notin {b} \cup Twins[b]
    BY <1>1, <1>2, Zenon
  <2>2. x \in AsFiles /\ VolumeName[x] = VolumeName[b]
    BY <1>2, <1>a, <1>b, Zenon DEF Carries
  <2> QED BY <2>1, <2>2, Zenon DEF Rivals
<1>3. ASSUME Carries(old, x), ~Carries(Unproject(b, s, old), x), x # b
      PROVE  x \in Rivals[b]
  <2>1. CASE x \in AsFiles
    <3>1. VolumeName[x] = VolumeName[b]
      BY <1>3, <1>a, <1>c, <2>1, Zenon DEF Carries
    <3> QED BY <1>3, <2>1, <3>1, Zenon DEF Rivals
  <2>2. CASE x \notin AsFiles
    <3>1. s \in OwnSecrets(x)
      BY <1>3, <1>a, <1>c, <2>2, Zenon DEF Carries
    <3>2. Shares(b, x)
      BY <1>3, <3>1, SecretShared, Zenon
    <3> QED BY <1>3, <2>2, <3>2, Zenon DEF Rivals
  <2> QED BY <2>1, <2>2, Zenon
<1> QED
  BY <1>1, <1>2, <1>3, CarriesLemma, Zenon

\* Who writes bindings.
LEMMA BindingWriters ==
  ASSUME [Next]_vars, sb' # sb
  PROVE  \E b \in Bindings :
           \/ \E ref \in Refs : CreateBinding(b, ref) \/ EditBinding(b, ref)
           \/ DeleteBinding(b) \/ AnnotateBinding(b)
           \/ AddFinalizer(b) \/ UpdateStatus(b) \/ SaveBinding(b) \/ RemoveFinalizer(b)
BY ZenonT(30)
   DEF Next, vars, cluster, informer, worker, Outside, ChangeService, ChangeWorkload, Restart,
       SyncCache, Reconcile, Begin, Unbind, Collect, PersistSecret, PreFlightCheck,
       ProjectRegardless, UpdateWorkload

\* What becomes of the phase of the binding written.
LEMMA PhaseStep ==
  ASSUME TypeOK, Coherent, [Next]_vars, sb' # sb
  PROVE  /\ UNCHANGED wl
         /\ \E b \in Bindings : \E o :
              /\ sb' = [sb EXCEPT ![b] = o]
              /\ \/ Phase(o) = Phase(sb[b])
                 \/ <<Phase(sb[b]), Phase(o)>> \in
                      {<<"absent", "new">>, <<"new", "guarded">>, <<"new", "absent">>,
                       <<"guarded", "leaving">>, <<"leaving", "absent">>}
<1> USE DEF cluster, informer, worker
<1> DEFINE Moves(p, o) ==
      \/ Phase(o) = Phase(p)
      \/ <<Phase(p), Phase(o)>> \in
           {<<"absent", "new">>, <<"new", "guarded">>, <<"new", "absent">>,
            <<"guarded", "leaving">>, <<"leaving", "absent">>}
<1>a. \A b \in Bindings : sb[b] \in Objects /\ local[b] \in Objects /\ LocalCoherent(b) /\ JobCoherent(b)
  BY Zenon DEF TypeOK, Coherent, CoherentAt
<1> SUFFICES UNCHANGED wl /\ \E b \in Bindings : \E o : sb' = [sb EXCEPT ![b] = o] /\ Moves(sb[b], o)
  BY Zenon
<1>1. ASSUME NEW b \in Bindings, NEW ref \in Refs, CreateBinding(b, ref)
      PROVE  UNCHANGED wl /\ \E o : sb' = [sb EXCEPT ![b] = o] /\ Moves(sb[b], o)
  <2>1. Moves(sb[b], NewBinding(ref))
    BY <1>1, Zenon DEF CreateBinding, Phase, NewBinding
  <2> HIDE DEF Moves
  <2> QED BY <1>1, <2>1, Zenon DEF CreateBinding, UserPut, Put
<1>2. ASSUME NEW b \in Bindings, NEW ref \in Refs, EditBinding(b, ref)
      PROVE  UNCHANGED wl /\ \E o : sb' = [sb EXCEPT ![b] = o] /\ Moves(sb[b], o)
  <2>1. Phase([sb[b] EXCEPT !.ref = ref]) = Phase(sb[b])
    BY <1>a, Zenon DEF Phase, Objects
  <2> QED BY <1>2, <2>1, Zenon DEF EditBinding, UserPut, Put
<1>3. ASSUME NEW b \in Bindings, DeleteBinding(b)
      PROVE  UNCHANGED wl /\ \E o : sb' = [sb EXCEPT ![b] = o] /\ Moves(sb[b], o)
  <2>1. Moves(sb[b], IF sb[b].finalizer THEN [sb[b] EXCEPT !.deleting = TRUE] ELSE NoBinding)
    BY <1>3, <1>a, Zenon DEF DeleteBinding, Phase, Objects, NoBinding, NewBinding
  <2> HIDE DEF Moves
  <2> QED BY <1>3, <2>1, Zenon DEF DeleteBinding, UserPut, Put
<1>4. ASSUME NEW b \in Bindings, AnnotateBinding(b)
      PROVE  UNCHANGED wl /\ \E o : sb' = [sb EXCEPT ![b] = o] /\ Moves(sb[b], o)
  <2>1. Phase([sb[b] EXCEPT !.rebind = TRUE]) = Phase(sb[b])
    BY <1>a, Zenon DEF Phase, Objects
  <2> QED BY <1>4, <2>1, Zenon DEF AnnotateBinding, UserPut, Put
<1>5. ASSUME NEW b \in Bindings, AddFinalizer(b)
      PROVE  UNCHANGED wl /\ \E o : sb' = [sb EXCEPT ![b] = o] /\ Moves(sb[b], o)
  <2>1. pc[b] = "finalizer" /\ b \in current /\ UNCHANGED wl
        /\ sb' = [sb EXCEPT ![b] = [local[b] EXCEPT !.finalizer = TRUE]]
    BY <1>5, Zenon DEF AddFinalizer, Put, Stale
  <2>2. local[b] = sb[b] /\ sb[b].exists /\ ~sb[b].deleting
    BY <1>a, <2>1, Zenon DEF LocalCoherent
  <2>3. Moves(sb[b], [sb[b] EXCEPT !.finalizer = TRUE])
    BY <1>a, <2>2, Zenon DEF Phase, Objects
  <2> HIDE DEF Moves
  <2> QED BY <2>1, <2>2, <2>3, Zenon
<1>6. ASSUME NEW b \in Bindings, UpdateStatus(b)
      PROVE  UNCHANGED wl /\ \E o : sb' = [sb EXCEPT ![b] = o] /\ Moves(sb[b], o)
  <2>1. UNCHANGED wl /\ sb' = [sb EXCEPT ![b] = [sb[b] EXCEPT !.secret = local[b].secret,
                                                   !.conditions = local[b].conditions]]
    BY <1>6, Zenon DEF UpdateStatus, Put
  <2>2. Phase([sb[b] EXCEPT !.secret = local[b].secret, !.conditions = local[b].conditions])
          = Phase(sb[b])
    BY <1>a, Zenon DEF Phase, Objects
  <2> QED BY <2>1, <2>2, Zenon
<1>7. ASSUME NEW b \in Bindings, SaveBinding(b)
      PROVE  UNCHANGED wl /\ \E o : sb' = [sb EXCEPT ![b] = o] /\ Moves(sb[b], o)
  <2> DEFINE o == [local[b] EXCEPT !.secret = sb[b].secret, !.conditions = sb[b].conditions]
  <2>1. pc[b] = "save" /\ b \in current /\ UNCHANGED wl /\ sb' = [sb EXCEPT ![b] = o]
    BY <1>7, Zenon DEF SaveBinding, Put, Stale
  <2>2. Agree(o, local[b]) /\ Agree(local[b], sb[b])
    BY <1>a, <2>1, Zenon DEF Agree, LocalCoherent, Objects
  <2>3. Phase(o) = Phase(sb[b])
    BY <2>2, Zenon DEF Phase, Agree
  <2> HIDE DEF o
  <2> QED BY <2>1, <2>3, Zenon
<1>8. ASSUME NEW b \in Bindings, RemoveFinalizer(b)
      PROVE  UNCHANGED wl /\ \E o : sb' = [sb EXCEPT ![b] = o] /\ Moves(sb[b], o)
  <2>1. pc[b] = "remove" /\ b \in current /\ UNCHANGED wl /\ sb' = [sb EXCEPT ![b] = NoBinding]
    BY <1>8, Zenon DEF RemoveFinalizer, Put, Stale
  <2>2. sb[b].exists /\ sb[b].deleting
    BY <1>a, <2>1, Zenon DEF LocalCoherent, JobCoherent
  <2>3. Moves(sb[b], NoBinding)
    BY <2>2, Zenon DEF Phase, NoBinding, NewBinding
  <2> HIDE DEF Moves
  <2> QED BY <2>1, <2>3, Zenon
<1> HIDE DEF Moves
<1> QED
  BY <1>1, <1>2, <1>3, <1>4, <1>5, <1>6, <1>7, <1>8, BindingWriters, Zenon

\* A write of a workload is a Bind, an Unbind or a Recreate of the contract.
LEMMA CarriedStep ==
  ASSUME TypeOK, Coherent, Isolated, [Next]_vars, wl' # wl
  PROVE  /\ UNCHANGED sb
         /\ \E w \in Workloads :
              /\ \A v \in Workloads \ {w} : wl'[v].content = wl[v].content
              /\ \/ wl'[w].content = wl[w].content
                 \/ wl'[w].content = Bare /\ w \in Volatile
                 \/ \E b \in Bindings : \E s \in OwnSecrets(b) :
                      /\ Phase(sb[b]) \in {"guarded", "leaving"}
                      /\ wl'[w].content = Project(b, s, wl[w].content)
                 \/ \E b \in Bindings : \E s \in OwnSecrets(b) :
                      /\ Phase(sb[b]) # "guarded" \/ "annotate" \in Environment
                      /\ wl'[w].content = Unproject(b, s, wl[w].content)
<1>a. wl \in [Workloads -> [exists: BOOLEAN, content: Contents]]
  BY Zenon DEF TypeOK
<1>1. ASSUME NEW w \in Workloads, NEW e \in BOOLEAN, ChangeWorkload(w, e)
      PROVE  /\ UNCHANGED sb
             /\ \A v \in Workloads \ {w} : wl'[v].content = wl[v].content
             /\ wl'[w].content = wl[w].content \/ (wl'[w].content = Bare /\ w \in Volatile)
  BY <1>a, <1>1, Zenon DEF ChangeWorkload
<1>2. ASSUME NEW b \in Bindings, NEW w \in Workloads, Writes(b, w)
      PROVE  /\ UNCHANGED sb
             /\ \A v \in Workloads \ {w} : wl'[v].content = wl[v].content
             /\ OwnChange(b, local[b].deleting, secrets, wl[w].content, wl'[w].content)
             /\ local[b].deleting => Phase(sb[b]) # "guarded"
             /\ ~local[b].deleting => Phase(sb[b]) \in {"guarded", "leaving"}
  <2>1. /\ UNCHANGED sb /\ wl'[w].content = job[b].desired[w]
        /\ \A v \in Workloads \ {w} : wl'[v].content = wl[v].content
        /\ pc[b] = "workloads" /\ w \in job[b].todo /\ <<b, w>> \in fresh
    BY <1>a, <1>2, Zenon DEF Writes, UpdateWorkload
  <2>2. LocalCoherent(b) /\ sb[b] \in Objects
    BY Zenon DEF Coherent, CoherentAt, TypeOK
  <2>3. OwnChange(b, local[b].deleting, secrets, wl[w].content, job[b].desired[w])
    BY <2>1, Zenon DEF Isolated, WorkerIsolated, PendingOwn
  <2>4. local[b].deleting => Phase(sb[b]) # "guarded"
    BY <2>1, <2>2, Zenon DEF LocalCoherent, Live, Phase
  <2>5. ~local[b].deleting => Phase(sb[b]) \in {"guarded", "leaving"}
    BY <2>1, <2>2, Zenon DEF LocalCoherent, Phase
  <2> QED BY <2>1, <2>3, <2>4, <2>5, Zenon
<1>3. CASE \E w \in Workloads, e \in BOOLEAN : ChangeWorkload(w, e)
  BY <1>1, <1>3, Zenon
<1>4. CASE \E b \in Bindings, w \in Workloads : Writes(b, w)
  <2>1. PICK b \in Bindings, w \in Workloads : Writes(b, w)
    BY <1>4, Zenon
  <2>2. \/ wl'[w].content = wl[w].content
        \/ \E s \in OwnSecrets(b) :
             /\ Phase(sb[b]) \in {"guarded", "leaving"}
             /\ wl'[w].content = Project(b, s, wl[w].content)
        \/ \E s \in OwnSecrets(b) :
             /\ Phase(sb[b]) # "guarded" \/ "annotate" \in Environment
             /\ wl'[w].content = Unproject(b, s, wl[w].content)
    BY <1>2, <2>1, Zenon DEF OwnChange
  <2> QED BY <1>2, <2>1, <2>2, Zenon
<1> QED
  BY <1>3, <1>4, WorkloadWriters, Zenon

\* The reconciler, with its queue, its stale copies and its failures, implements
\* BindingContract: bindings enter workloads only under their finalizer, leave
\* them only when they are deleted or bound anew, and leave each other alone
\* but for their rivals.
THEOREM Refinement == Spec => ImplementsContract
<1> DEFINE ph == [b \in Bindings |-> Phase(sb[b])]
           ca == [w \in Workloads |-> {b \in Bindings : Carries(wl[w].content, b)}]
<1>1. Init => Contract!Init
  <2> SUFFICES ASSUME Init PROVE Contract!Init
    BY Zenon
  <2>1. \A b \in Bindings : Phase(sb[b]) = "absent"
    BY Zenon DEF Init, NoBinding, NewBinding, Phase
  <2>2. \A w \in Workloads, b \in Bindings : ~Carries(wl[w].content, b)
    <3>1. \A w \in Workloads : wl[w].content = Bare
      BY Zenon DEF Init
    <3> QED BY <3>1, BareCarries, Zenon
  <2> QED BY <2>1, <2>2, Zenon DEF Contract!Init
<1>2. ASSUME TypeOK, Coherent, [Next]_vars, sb' # sb
      PROVE  [Contract!Next]_<<ph, ca>>
  <2>1. PICK b \in Bindings : \E o :
               /\ sb' = [sb EXCEPT ![b] = o] /\ UNCHANGED wl
               /\ \/ Phase(o) = Phase(sb[b])
                  \/ <<Phase(sb[b]), Phase(o)>> \in
                       {<<"absent", "new">>, <<"new", "guarded">>, <<"new", "absent">>,
                        <<"guarded", "leaving">>, <<"leaving", "absent">>}
    BY <1>2, PhaseStep, Zenon
  <2>2. PICK o : /\ sb' = [sb EXCEPT ![b] = o] /\ UNCHANGED wl
                 /\ \/ Phase(o) = Phase(sb[b])
                    \/ <<Phase(sb[b]), Phase(o)>> \in
                         {<<"absent", "new">>, <<"new", "guarded">>, <<"new", "absent">>,
                          <<"guarded", "leaving">>, <<"leaving", "absent">>}
    BY <2>1, Zenon
  <2>3. /\ ca' = ca /\ ph[b] = Phase(sb[b])
        /\ ph' = [ph EXCEPT ![b] = Phase(o)]
    BY <1>2, <2>2, Zenon DEF TypeOK
  <2>4. CASE Phase(o) = Phase(sb[b])
    BY <2>3, <2>4, Zenon
  <2>5. ASSUME NEW from, NEW to, Phase(sb[b]) = from, Phase(o) = to
        PROVE  Contract!Move(b, from, to)
    BY <2>3, <2>5, Zenon DEF Contract!Move
  <2> QED
    BY <2>2, <2>4, <2>5, Zenon
       DEF Contract!Next, Contract!Create, Contract!Guard, Contract!Delete, Contract!Remove
<1>3. ASSUME TypeOK, Coherent, Isolated, [Next]_vars, wl' # wl
      PROVE  [Contract!Next]_<<ph, ca>>
  <2>1. UNCHANGED ph
    BY <1>3, CarriedStep, Zenon
  <2>2. PICK w \in Workloads :
               /\ \A v \in Workloads \ {w} : wl'[v].content = wl[v].content
               /\ \/ wl'[w].content = wl[w].content
                  \/ wl'[w].content = Bare /\ w \in Volatile
                  \/ \E b \in Bindings : \E s \in OwnSecrets(b) :
                       /\ Phase(sb[b]) \in {"guarded", "leaving"}
                       /\ wl'[w].content = Project(b, s, wl[w].content)
                  \/ \E b \in Bindings : \E s \in OwnSecrets(b) :
                       /\ Phase(sb[b]) # "guarded" \/ "annotate" \in Environment
                       /\ wl'[w].content = Unproject(b, s, wl[w].content)
    BY <1>3, CarriedStep, Zenon
  <2> DEFINE old == wl[w].content
             new == wl'[w].content
             bs == {b \in Bindings : Carries(new, b)}
  <2>3. old \in Contents
    BY <1>3, Zenon DEF TypeOK
  <2>4. ca' = [ca EXCEPT ![w] = bs] /\ ca[w] = {b \in Bindings : Carries(old, b)}
    BY <2>2, Zenon
  <2>5. Contract!Write(w, bs)
    BY <2>1, <2>4, Zenon DEF Contract!Write
  <2>6. CASE new = old
    BY <2>1, <2>4, <2>6, Zenon
  <2>7. CASE new = Bare /\ w \in Volatile
    <3>1. bs = {}
      BY <2>7, BareCarries, Zenon
    <3> HIDE DEF bs
    <3> QED BY <2>5, <2>7, <3>1, Zenon DEF Contract!Recreate, Contract!Next
  <2>8. ASSUME NEW b \in Bindings, NEW s \in OwnSecrets(b), new = Project(b, s, old),
               Phase(sb[b]) \in {"guarded", "leaving"}
        PROVE  Contract!Bind(b, w)
    <3> DEFINE lost == ca[w] \ bs
    <3>a. \A x \in Bindings :
            /\ x \in {b} \cup Twins[b] => Carries(new, x)
            /\ Carries(new, x) => x \in {b} \cup Twins[b] \/ Carries(old, x)
            /\ Carries(old, x) => Carries(new, x) \/ x \in Rivals[b] \ Twins[b]
      <4> HIDE DEF old, new, bs, ca
      <4> QED BY <2>3, <2>8, CarriedEffect, Zenon
    <3>0. Twins[b] \subseteq Bindings
      BY Zenon DEF Twins
    <3>1. {b} \cup Twins[b] \subseteq bs /\ \A x \in bs : x \in {b} \cup Twins[b] \/ x \in ca[w]
      BY <2>4, <3>a, <3>0, Zenon
    <3>2. \A x \in lost : x \in Rivals[b] \ Twins[b]
      BY <2>4, <3>a, Zenon
    <3>3. bs = (ca[w] \cup {b} \cup Twins[b]) \ lost
      BY <3>1, Zenon
    <3> HIDE DEF bs, ca, ph, lost
    <3>4. /\ lost \in SUBSET (Rivals[b] \ Twins[b])
          /\ Contract!Write(w, (ca[w] \cup {b} \cup Twins[b]) \ lost)
      BY <2>5, <3>2, <3>3, Zenon
    <3>5. ph[b] \in {"guarded", "leaving"}
      BY <2>8, Zenon DEF ph
    <3> QED BY <3>4, <3>5, Zenon DEF Contract!Bind, ca, ph
  <2>9. ASSUME NEW b \in Bindings, NEW s \in OwnSecrets(b), new = Unproject(b, s, old),
               Phase(sb[b]) # "guarded" \/ "annotate" \in Environment
        PROVE  Contract!Unbind(b, w)
    <3> DEFINE lost == ca[w] \ bs
    <3>a. \A x \in Bindings : /\ Carries(new, x) => Carries(old, x)
                              /\ Carries(old, x) => Carries(new, x) \/ x \in Rivals[b] \cup {b}
      <4> HIDE DEF old, new, bs, ca
      <4> QED BY <2>3, <2>9, CarriedEffect, Zenon
    <3>1. \A x \in bs : x \in ca[w]
      BY <2>4, <3>a, Zenon
    <3>2. \A x \in lost : x \in Rivals[b] \cup {b}
      BY <2>4, <3>a, Zenon
    <3>3. bs = ca[w] \ lost
      BY <3>1, Zenon
    <3> HIDE DEF bs, ca, ph, lost
    <3>4. lost \in SUBSET (Rivals[b] \cup {b}) /\ Contract!Write(w, ca[w] \ lost)
      BY <2>5, <3>2, <3>3, Zenon
    <3>5. ph[b] # "guarded" \/ "annotate" \in Environment
      BY <2>9, Zenon DEF ph
    <3> QED BY <3>4, <3>5, Zenon DEF Contract!Unbind, ca, ph
  <2> QED
    BY <2>2, <2>6, <2>7, <2>8, <2>9, Zenon DEF Contract!Next
<1>4. ASSUME TypeOK, Coherent, Isolated, [Next]_vars
      PROVE  [Contract!Next]_<<ph, ca>>
  <2>1. CASE sb' = sb /\ wl' = wl
    BY <2>1, Zenon
  <2> QED BY <1>2, <1>3, <1>4, <2>1, Zenon
<1> QED
  BY <1>1, <1>4, Invariance, Isolation, PTL DEF Spec, ImplementsContract, Contract!Spec


(***************************************************************************)
(* The finalizer is removed only once the binding's volume is gone, for as *)
(* long as the workloads can be listed and no two bindings share the name  *)
(* of a volume: the two conditions under which the Unbind handler and      *)
(* Close do what the finalizer is there for.                               *)
(***************************************************************************)

DistinctVolumes == \A c, d \in Bindings : VolumeName[c] = VolumeName[d] => c = d

\* Only b's own worker puts a volume of b into a workload.
LEMMA VolumeStep ==
  ASSUME TypeOK, Isolated, DistinctVolumes, [Next]_vars, NEW b \in Bindings, NEW w \in Workloads
  PROVE  \/ wl'[w].content.volumes[VolumeName[b]] = NoSecret
         \/ /\ wl'[w].exists = wl[w].exists
            /\ wl'[w].content.volumes[VolumeName[b]] = wl[w].content.volumes[VolumeName[b]]
         \/ /\ w \in job[b].todo /\ wl'[w].exists = wl[w].exists
            /\ wl'[w].content = job[b].desired[w]
<1>a. wl \in [Workloads -> [exists: BOOLEAN, content: Contents]] /\ VolumeName[b] \in Volumes
  BY ConstantsAssumption, Zenon DEF TypeOK
<1>1. CASE wl' = wl
  BY <1>1, Zenon
<1>2. ASSUME NEW v \in Workloads, NEW e \in BOOLEAN, ChangeWorkload(v, e)
      PROVE  wl'[w] = wl[w] \/ wl'[w].content = Bare
  <2>1. wl' = [wl EXCEPT ![v] = IF wl[v].exists = e THEN @
                                ELSE [exists |-> e, content |-> Bare]]
    BY <1>2, Zenon DEF ChangeWorkload
  <2> QED BY <1>a, <2>1, Zenon
<1>3. ASSUME NEW c \in Bindings, NEW v \in Workloads, Writes(c, v)
      PROVE  \/ wl'[w] = wl[w]
             \/ /\ v = w /\ wl'[w].exists = wl[w].exists
                /\ w \in job[c].todo /\ wl'[w].content = job[c].desired[w]
                /\ OwnChange(c, local[c].deleting, secrets, wl[w].content, wl'[w].content)
  <2>1. CASE v # w
    BY <1>a, <1>3, <2>1, Zenon DEF Writes
  <2>2. CASE v = w
    <3>1. wl'[w].exists = wl[w].exists /\ wl'[w].content = job[c].desired[w]
      BY <1>a, <1>3, <2>2, Zenon DEF Writes
    <3> QED
      BY <1>3, <2>2, <3>1, Zenon DEF Writes, Isolated, WorkerIsolated, PendingOwn
  <2> QED BY <2>1, <2>2, Zenon
<1>4. Bare.volumes[VolumeName[b]] = NoSecret
  BY <1>a, Zenon DEF Bare
<1>5. ASSUME NEW c \in Bindings, c # b,
             OwnChange(c, local[c].deleting, secrets, wl[w].content, wl'[w].content)
      PROVE  wl'[w].content.volumes[VolumeName[b]] = wl[w].content.volumes[VolumeName[b]]
  <2>1. VolumeName[b] \in Volumes \ {VolumeName[c]}
    BY <1>a, <1>5, Zenon DEF DistinctVolumes
  <2>2. \A n \in Volumes \ {VolumeName[c]} : wl'[w].content.volumes[n] = wl[w].content.volumes[n]
    BY <1>5, StoredChange, Zenon
  <2> QED BY <2>1, <2>2, Zenon
<1>6. CASE \E v \in Workloads, e \in BOOLEAN : ChangeWorkload(v, e)
  BY <1>2, <1>4, <1>6, Zenon
<1>7. CASE \E c \in Bindings, v \in Workloads : Writes(c, v)
  BY <1>3, <1>5, <1>7, Zenon
<1> QED
  BY <1>1, <1>6, <1>7, WorkloadWriters, Zenon

LEMMA VolumeGoneStep ==
  ASSUME TypeOK, Isolated, DistinctVolumes, [Next]_vars, NEW b \in Bindings, VolumeGone(b),
         local'[b].ref = local[b].ref, job'[b].todo \subseteq job[b].todo,
         \A w \in job'[b].todo : job'[b].desired[w] = job[b].desired[w],
         \A w \in job[b].todo \ job'[b].todo : wl'[w].content = job[b].desired[w]
  PROVE  VolumeGone(b)'
<1>1. ASSUME NEW w \in Applications(local[b].ref)', w \notin job'[b].todo
      PROVE  wl'[w].content.volumes[VolumeName[b]] = NoSecret
  <2>1. w \in Workloads /\ (wl'[w].exists = wl[w].exists => w \in Applications(local[b].ref))
    BY <1>1, Zenon DEF Applications
  <2>2. CASE w \in job[b].todo
    BY <1>1, <2>2 DEF VolumeGone
  <2> QED
    BY <1>1, <2>1, <2>2, VolumeStep, Zenon DEF VolumeGone
<1> QED
  BY <1>1 DEF VolumeGone

LEMMA FinalizedStep ==
  ASSUME TypeOK, Coherent, \A b \in Bindings : Finalized(b), [Next]_vars
  PROVE  \A b \in Bindings : Finalized(b)'
<1> USE DEF cluster, informer, worker
<1> DEFINE Fin(o) == o.exists /\ (o.deleting \/ o.secret # NoSecret) => o.finalizer
<1>a. \A b \in Bindings : /\ sb[b] \in Objects /\ local[b] \in Objects /\ Fin(sb[b])
                           /\ LocalCoherent(b) /\ JobCoherent(b)
  BY Zenon DEF TypeOK, Coherent, CoherentAt, Finalized
<1>b. ASSUME NEW b \in Bindings, NEW o, sb' = [sb EXCEPT ![b] = o], Fin(o)
      PROVE  \A c \in Bindings : Finalized(c)'
  BY <1>a, <1>b, Zenon DEF TypeOK, Finalized
<1>1. CASE sb' = sb
  BY <1>1, Zenon DEF Finalized
<1>2. ASSUME NEW b \in Bindings, NEW ref \in Refs, CreateBinding(b, ref)
      PROVE  \A c \in Bindings : Finalized(c)'
  <2>1. Fin(NewBinding(ref))
    BY Zenon DEF NewBinding
  <2> HIDE DEF Fin
  <2> QED BY <1>2, <1>b, <2>1, Zenon DEF CreateBinding, UserPut, Put
<1>3. ASSUME NEW b \in Bindings, NEW ref \in Refs, EditBinding(b, ref)
      PROVE  \A c \in Bindings : Finalized(c)'
  <2>1. Fin([sb[b] EXCEPT !.ref = ref])
    BY <1>a, Zenon DEF Objects
  <2> HIDE DEF Fin
  <2> QED BY <1>3, <1>b, <2>1, Zenon DEF EditBinding, UserPut, Put
<1>4. ASSUME NEW b \in Bindings, DeleteBinding(b)
      PROVE  \A c \in Bindings : Finalized(c)'
  <2>1. Fin(IF sb[b].finalizer THEN [sb[b] EXCEPT !.deleting = TRUE] ELSE NoBinding)
    BY <1>a, Zenon DEF Objects, NoBinding, NewBinding
  <2> HIDE DEF Fin
  <2> QED BY <1>4, <1>b, <2>1, Zenon DEF DeleteBinding, UserPut, Put
<1>5. ASSUME NEW b \in Bindings, AnnotateBinding(b)
      PROVE  \A c \in Bindings : Finalized(c)'
  <2>1. Fin([sb[b] EXCEPT !.rebind = TRUE])
    BY <1>a, Zenon DEF Objects
  <2> HIDE DEF Fin
  <2> QED BY <1>5, <1>b, <2>1, Zenon DEF AnnotateBinding, UserPut, Put
<1>6. ASSUME NEW b \in Bindings, AddFinalizer(b), sb' # sb
      PROVE  \A c \in Bindings : Finalized(c)'
  <2>1. sb' = [sb EXCEPT ![b] = [local[b] EXCEPT !.finalizer = TRUE]]
    BY <1>6, Zenon DEF AddFinalizer, Put
  <2>2. Fin([local[b] EXCEPT !.finalizer = TRUE])
    BY <1>a, Zenon DEF Objects
  <2> HIDE DEF Fin
  <2> QED BY <1>b, <2>1, <2>2, Zenon
<1>7. ASSUME NEW b \in Bindings, UpdateStatus(b), sb' # sb
      PROVE  \A c \in Bindings : Finalized(c)'
  <2> DEFINE o == [sb[b] EXCEPT !.secret = local[b].secret, !.conditions = local[b].conditions]
  <2>1. pc[b] = "status" /\ b \in current /\ sb' = [sb EXCEPT ![b] = o]
    BY <1>7, Zenon DEF UpdateStatus, Put, Stale
  <2>2. sb[b].exists /\ sb[b].finalizer
    BY <1>a, <2>1, Zenon DEF LocalCoherent
  <2>3. Fin(o)
    BY <1>a, <2>2, Zenon DEF Objects
  <2> HIDE DEF Fin, o
  <2> QED BY <1>b, <2>1, <2>3, Zenon
<1>8. ASSUME NEW b \in Bindings, SaveBinding(b), sb' # sb
      PROVE  \A c \in Bindings : Finalized(c)'
  <2> DEFINE o == [local[b] EXCEPT !.secret = sb[b].secret, !.conditions = sb[b].conditions]
  <2>1. pc[b] = "save" /\ b \in current /\ sb' = [sb EXCEPT ![b] = o]
    BY <1>8, Zenon DEF SaveBinding, Put, Stale
  <2>2. /\ o.finalizer = local[b].finalizer
        /\ local[b].finalizer = sb[b].finalizer /\ sb[b].exists /\ local[b].deleting = sb[b].deleting
    BY <1>a, <2>1, Zenon DEF LocalCoherent, Objects
  <2>3. sb[b].finalizer
    BY <1>a, <2>1, <2>2, Zenon DEF LocalCoherent
  <2>4. Fin(o)
    BY <2>2, <2>3, Zenon
  <2> HIDE DEF Fin, o
  <2> QED BY <1>b, <2>1, <2>4, Zenon
<1>9. ASSUME NEW b \in Bindings, RemoveFinalizer(b), sb' # sb
      PROVE  \A c \in Bindings : Finalized(c)'
  <2>1. sb' = [sb EXCEPT ![b] = NoBinding]
    BY <1>9, Zenon DEF RemoveFinalizer, Put
  <2>2. Fin(NoBinding)
    BY Zenon DEF NoBinding, NewBinding
  <2> HIDE DEF Fin
  <2> QED BY <1>b, <2>1, <2>2, Zenon
<1> QED
  BY <1>1, <1>2, <1>3, <1>4, <1>5, <1>6, <1>7, <1>8, <1>9, BindingWriters, Zenon

\* A step that leaves the worker on b where it is.
LEMMA UnbindFrame ==
  ASSUME TypeOK, Isolated, DistinctVolumes, [Next]_vars, NEW b \in Bindings, UnbindCoherent(b),
         pc'[b] = pc[b], local'[b] = local[b], job'[b] = job[b],
         b \in current' => b \in current /\ sb'[b].secret = sb[b].secret
  PROVE  UnbindCoherent(b)'
<1>1. VolumeGone(b) => VolumeGone(b)'
  BY VolumeGoneStep, Zenon
<1>2. Unbinding(b)' => Unbinding(b)
  BY Zenon DEF Unbinding
<1> QED
  BY <1>1, <1>2, Zenon DEF UnbindCoherent

LEMMA CloseUnbinds ==
  ASSUME WorkerType, NEW b \in Bindings, NEW o \in Objects, NEW j \in Jobs,
         Close(b, o, j), UNCHANGED <<sb, wl, current>>,
         b \in current /\ o.deleting => o.secret = sb[b].secret,
         o.deleting /\ o.secret # NoSecret /\ j.flow = "done" =>
           /\ \A w \in j.todo : j.desired[w].volumes[VolumeName[b]] = NoSecret
           /\ \A w \in Applications(o.ref) \ j.todo : wl[w].content.volumes[VolumeName[b]] = NoSecret
  PROVE  UnbindCoherent(b)'
<1>1. PICK step, p : /\ Continue(b, step, p, j)
                     /\ p.deleting = o.deleting /\ p.secret = o.secret /\ p.ref = o.ref
                     /\ step \in {"workloads", "status"}
                     /\ step = "status" /\ j.flow = "done" => j.todo = {}
  <2>1. \A r : /\ SetReady(o, r).deleting = o.deleting
              /\ SetReady(o, r).secret = o.secret /\ SetReady(o, r).ref = o.ref
    BY Zenon DEF SetReady, Objects
  <2>2. \/ \E r : Continue(b, "status", SetReady(o, r), j) /\ (j.flow = "done" => j.todo = {})
        \/ Continue(b, "workloads", o, j)
    BY Zenon DEF Close
  <2> QED BY <2>1, <2>2
<1>2. pc'[b] = step /\ local'[b] = p /\ job'[b] = j
  BY <1>1, Zenon DEF Continue, WorkerType
<1>3. Applications(local[b].ref)' = Applications(o.ref)
  BY <1>1, <1>2, Zenon DEF Applications
<1>4. Unbinding(b)' => VolumeGone(b)'
  BY <1>1, <1>2, <1>3, Zenon DEF Unbinding, VolumeGone
<1> QED
  BY <1>1, <1>2, <1>4, Zenon DEF UnbindCoherent, Unbinding

LEMMA DoneUnbinds ==
  ASSUME WorkerType, NEW b \in Bindings, NEW requeue, Done(b, requeue)
  PROVE  UnbindCoherent(b)'
BY Zenon DEF WorkerType, Done, UnbindCoherent, Unbinding

\* A binding that is being bound is not being unbound.
LEMMA LiveUnbinds ==
  ASSUME NEW b \in Bindings, ~local'[b].deleting, pc'[b] # "remove"
  PROVE  UnbindCoherent(b)'
BY Zenon DEF UnbindCoherent, Unbinding

\* The Unbind handler leaves nothing of b, or does not answer "done".
LEMMA HandlerUnbinds ==
  ASSUME TypeOK, NEW b \in Bindings, CoherentAt(b), UnbindCoherent(b), Unbind(b),
         "applications" \notin Faults
  PROVE  UnbindCoherent(b)'
<1> DEFINE o == local[b]
           ws == Applications(o.ref)
           V == VolumeName[b]
           cs == {w \in ws : Unproject(b, o.secret, wl[w].content) # wl[w].content}
           u == [w \in cs |-> Unproject(b, o.secret, wl[w].content)]
           k == [w \in ws |-> wl[w].content]
           q == [o EXCEPT !.rebind = FALSE]
<1>a. /\ WorkerType /\ o \in Objects /\ job[b] \in Jobs /\ ws \subseteq Workloads
      /\ pc[b] = "unbind" /\ job[b].todo = {} /\ UNCHANGED <<sb, wl, current>>
  BY Zenon
     DEF TypeOK, WorkerType, CoherentAt, JobCoherent, BeforeClose, Unbind, Applications, cluster
<1>b. b \in current /\ o.deleting => o.secret = sb[b].secret
  BY <1>a, Zenon DEF UnbindCoherent
<1>c. \A w \in Workloads : wl[w].content \in Contents
  BY Zenon DEF TypeOK
<1>d. \A st \in FlowStatus : /\ Flow(b, st) \in Jobs
                             /\ Flow(b, st).todo = {} /\ Flow(b, st).flow = st
  BY <1>a, FlowType, Zenon DEF Flow, Jobs
<1>e. \A st \in FlowStatus, s \in SUBSET Workloads : \A f :
        /\ WithApplications(Flow(b, st), s, f).todo = s
        /\ WithApplications(Flow(b, st), s, f).flow = st
        /\ \A w \in s : WithApplications(Flow(b, st), s, f).desired[w] = f[w]
  BY <1>d DEF WithApplications, Jobs
<1>1. CASE ws = {} /\ Close(b, o, Flow(b, "done"))
  BY <1>1, <1>a, <1>b, <1>d, CloseUnbinds, Zenon DEF FlowStatus
<1>2. CASE o.secret = NoSecret /\ Close(b, o, WithApplications(Flow(b, "done"), ws, k))
  <2>1. WithApplications(Flow(b, "done"), ws, k) \in Jobs
    <3>1. \A w \in ws : k[w] \in Contents
      BY <1>a, <1>c, Zenon
    <3> HIDE DEF k, ws
    <3> QED BY <1>a, <1>d, <3>1, WithApplicationsType, Zenon DEF FlowStatus
  <2> QED BY <1>2, <1>a, <1>b, <2>1, CloseUnbinds, Zenon
<1>3. CASE Close(b, o, Flow(b, "retry"))
  BY <1>3, <1>a, <1>b, <1>d, CloseUnbinds, Zenon DEF FlowStatus
<1>4. CASE o.secret # NoSecret
           /\ Close(b, q, WithApplications(Flow(b, IF o.rebind THEN "again" ELSE "done"), cs, u))
  <2>1. PICK st \in FlowStatus : Close(b, q, WithApplications(Flow(b, st), cs, u))
    BY <1>4, Zenon DEF FlowStatus
  <2> DEFINE j == WithApplications(Flow(b, st), cs, u)
  <2>2. cs \in SUBSET Workloads
    BY <1>a, Zenon
  <2>3. \A w \in Workloads : /\ Unproject(b, o.secret, wl[w].content) \in Contents
                             /\ Unproject(b, o.secret, wl[w].content).volumes[V] = NoSecret
    <3>1. o.secret \in SecretNames \cup {NoSecret} /\ V \in Volumes
      BY <1>a, ConstantsAssumption, Zenon DEF Objects
    <3>2. \A c \in Contents : Unproject(b, o.secret, c).volumes[V] = NoSecret
      BY <3>1, Zenon DEF Unproject, Contents
    <3> QED BY <1>c, <3>1, <3>2, ProjectType, Zenon
  <2>4. \A w \in cs : u[w] \in Contents /\ u[w].volumes[V] = NoSecret
    BY <2>2, <2>3, Zenon
  <2>5. \A w \in ws \ cs : wl[w].content.volumes[V] = NoSecret
    BY <1>a, <2>3, Zenon
  <2>6. q \in Objects /\ q.deleting = o.deleting /\ q.secret = o.secret /\ q.ref = o.ref
    BY <1>a, Zenon DEF Objects
  <2>7. Applications(q.ref) = ws
    BY <2>6, Zenon
  <2> HIDE DEF cs, u, q, ws
  <2>8. j \in Jobs /\ j.todo = cs /\ \A w \in cs : j.desired[w] = u[w]
    BY <1>d, <1>e, <2>2, <2>4, WithApplicationsType
  <2>9. Close(b, q, j)
    BY <2>1, Zenon
  <2> HIDE DEF j, o, V
  <2>10. /\ \A w \in j.todo : j.desired[w].volumes[V] = NoSecret
         /\ \A w \in Applications(q.ref) \ j.todo : wl[w].content.volumes[V] = NoSecret
    BY <2>4, <2>5, <2>7, <2>8, Zenon
  <2>11. b \in current /\ q.deleting => q.secret = sb[b].secret
    BY <1>b, <2>6, Zenon
  <2> QED
    BY <1>a, <2>6, <2>8, <2>9, <2>10, <2>11, CloseUnbinds, Zenon DEF V
<1>5. ~Fails("applications")
  BY Zenon DEF Fails
<1> QED
  BY <1>1, <1>2, <1>3, <1>4, <1>5, Zenon DEF Unbind

\* Each step of the worker on b keeps b's own unbinding coherent ...
LEMMA OwnUnbinds ==
  ASSUME TypeOK, Isolated, DistinctVolumes, "applications" \notin Faults, [Next]_vars,
         NEW b \in Bindings, CoherentAt(b), UnbindCoherent(b), Reconcile(b)
  PROVE  UnbindCoherent(b)'
<1> USE DEF cluster, informer, worker
<1> DEFINE N(p) == /\ DOMAIN p = {"exists", "ref", "deleting", "finalizer", "rebind", "secret", "conditions"}
                   /\ p.deleting = FALSE
<1>a. /\ WorkerType /\ local[b] \in Objects /\ job[b] \in Jobs /\ cache[b] \in Objects
      /\ LocalCoherent(b) /\ JobCoherent(b) /\ CacheCoherent(b) /\ sb[b] \in Objects
  BY Zenon DEF TypeOK, WorkerType, CoherentAt
<1>b. \A p, r : N(p) => N(SetReady(p, r)) /\ N(SetCollection(p, r)) /\ N(SetInjection(p, r))
                       /\ N([p EXCEPT !.secret = r])
  BY Zenon DEF SetReady, SetCollection, SetInjection
<1>c. ~local[b].deleting => N(local[b])
  BY <1>a, Zenon DEF Objects
<1> HIDE DEF N
<1>d. \A step \in Steps \ {"remove"} : \A p, j : N(p) /\ Continue(b, step, p, j) => UnbindCoherent(b)'
  <2>1. \A step, p, j : Continue(b, step, p, j) => pc'[b] = step /\ local'[b] = p
    BY <1>a, Zenon DEF Continue, WorkerType
  <2> QED BY <2>1, LiveUnbinds, Zenon DEF N
<1>e. \A p, j : N(p) /\ Close(b, p, j) => UnbindCoherent(b)'
  BY <1>b, <1>d, Zenon DEF Close, Steps
<1>1. CASE Begin(b)
  <2>1. CASE cache[b].exists
    <3>1. PICK step \in {"finalizer", "unbind", "collect"} : Continue(b, step, cache[b], NoJob)
      BY <1>1, <2>1, Zenon DEF Begin, FirstHandler
    <3>2. pc'[b] = step /\ local'[b] = cache[b]
      BY <1>a, <3>1, Zenon DEF Continue, WorkerType
    <3>3. sb' = sb /\ (b \in current' => b \in cached)
      BY <1>1, <2>1, Zenon DEF Begin
    <3> QED
      BY <1>a, <3>2, <3>3, Zenon DEF UnbindCoherent, Unbinding, CacheCoherent
  <2>2. CASE ~cache[b].exists
    BY <1>1, <2>2, UnbindFrame, Zenon DEF Begin
  <2> QED BY <2>1, <2>2, Zenon
<1>2. CASE AddFinalizer(b)
  <2> DEFINE o == [local[b] EXCEPT !.finalizer = TRUE]
  <2>1. pc[b] = "finalizer"
    BY <1>2, Zenon DEF AddFinalizer
  <2>2. N(o)
    BY <1>a, <2>1, Zenon DEF LocalCoherent, Objects, N
  <2>3. Done(b, TRUE) \/ \E step \in {"unbind", "collect"} : Continue(b, step, o, job[b])
    BY <1>2, Zenon DEF AddFinalizer, FirstHandler
  <2> HIDE DEF o
  <2> QED
    BY <1>a, <1>d, <2>2, <2>3, DoneUnbinds, Zenon DEF Steps
<1>3. CASE Unbind(b)
  BY <1>3, HandlerUnbinds, Zenon
<1>4. CASE Collect(b) \/ PersistSecret(b) \/ PreFlightCheck(b) \/ ProjectRegardless(b)
  <2>1. N(local[b])
    BY <1>4, <1>a, <1>c, Zenon DEF Collect, PersistSecret, PreFlightCheck, ProjectRegardless,
                            JobCoherent, Binding
  <2>2. ASSUME Collect(b) PROVE UnbindCoherent(b)'
    BY <1>b, <1>d, <1>e, <2>1, <2>2, Zenon DEF Collect, Steps
  <2>3. ASSUME PersistSecret(b) PROVE UnbindCoherent(b)'
    BY <1>b, <1>d, <1>e, <2>1, <2>3, Zenon DEF PersistSecret, Steps
  <2>4. ASSUME NEW ws, ProjectAndClose(b, local[b], ws) PROVE UnbindCoherent(b)'
    BY <1>b, <1>e, <2>1, <2>4, Zenon DEF ProjectAndClose
  <2>5. ASSUME PreFlightCheck(b) PROVE UnbindCoherent(b)'
    BY <1>b, <1>e, <2>1, <2>4, <2>5, Zenon DEF PreFlightCheck
  <2>6. ASSUME ProjectRegardless(b) PROVE UnbindCoherent(b)'
    BY <2>4, <2>6, Zenon DEF ProjectRegardless
  <2> QED BY <1>4, <2>2, <2>3, <2>5, <2>6, Zenon
<1>5. ASSUME NEW v \in Workloads, UpdateWorkload(b, v)
      PROVE  UnbindCoherent(b)'
  <2> DEFINE j == [job[b] EXCEPT !.todo = @ \ {v}, !.desired = [@ EXCEPT ![v] = Bare]]
             e == [job[b] EXCEPT !.saving = "appFailed"]
             p == SetReady(local[b], "ApplicationsBound")
  <2>1. pc[b] = "workloads" /\ sb' = sb /\ current' = current
    BY <1>5, Zenon DEF UpdateWorkload
  <2>2. /\ j.saving = job[b].saving /\ j.flow = job[b].flow /\ j.todo = job[b].todo \ {v}
        /\ \A w \in j.todo : j.desired[w] = job[b].desired[w]
        /\ e.saving = "appFailed"
    BY <1>a, Zenon DEF Jobs
  <2>3. \A r : /\ SetReady(local[b], r).deleting = local[b].deleting
              /\ SetReady(local[b], r).secret = local[b].secret
              /\ SetReady(local[b], r).ref = local[b].ref
    BY <1>a, Zenon DEF SetReady, Objects
  <2> HIDE DEF j, e, p
  <2>4. CASE UpdateFailed(b, v)
    <3>1. /\ pc'[b] = "status" /\ job'[b] = e
          /\ local'[b].deleting = local[b].deleting /\ local'[b].secret = local[b].secret
      BY <1>a, <2>3, <2>4, Zenon DEF UpdateFailed, Continue, WorkerType, e
    <3> QED
      BY <2>1, <2>2, <3>1, Zenon DEF UnbindCoherent, Unbinding
  <2>5. CASE /\ PutWorkload(v, job[b].desired[v])
             /\ IF j.todo = {} THEN Continue(b, "status", p, j) ELSE Continue(b, "workloads", local[b], j)
    <3>1. /\ pc'[b] \in {"status", "workloads"} /\ (pc'[b] # "workloads" => j.todo = {})
          /\ job'[b] = j /\ local'[b].ref = local[b].ref
          /\ local'[b].deleting = local[b].deleting /\ local'[b].secret = local[b].secret
      BY <1>a, <2>3, <2>5 DEF Continue, WorkerType, p
    <3>2. wl'[v].content = job[b].desired[v]
      BY <2>5, Zenon DEF PutWorkload, TypeOK
    <3>3. VolumeGone(b) => VolumeGone(b)'
      BY <2>2, <3>1, <3>2, VolumeGoneStep, Zenon
    <3>4. Unbinding(b)' => Unbinding(b)
      BY <2>1, <2>2, <3>1, Zenon DEF Unbinding
    <3> QED
      BY <2>1, <3>1, <3>3, <3>4, Zenon DEF UnbindCoherent
  <2> QED
    BY <1>5, <2>4, <2>5, Zenon DEF UpdateWorkload, j, p
<1>6. ASSUME pc[b] \in {"status", "save"}, NEW ok, NEW cur, b \in cur => b \in current,
             Persisted(b, ok, cur), sb'[b].secret = sb[b].secret, wl' = wl
      PROVE  UnbindCoherent(b)'
  <2>1. CASE \E requeue : Done(b, requeue)
    BY <1>a, <2>1, DoneUnbinds, Zenon
  <2>2. CASE /\ job[b].saving = "secretFailed"
             /\ Continue(b, "project", SetCollection(local[b], ""), [job[b] EXCEPT !.saving = "close"])
    <3>1. N(local[b])
      BY <1>6, <1>a, <1>c, <2>2, Zenon DEF JobCoherent, Binding
    <3> QED BY <1>b, <1>d, <2>2, <3>1, Zenon DEF Steps
  <2>3. CASE /\ job[b].saving = "close" /\ job[b].flow = "done" /\ current' = cur
             /\ Continue(b, "remove", local[b], job[b])
    <3>1. pc'[b] = "remove" /\ local'[b] = local[b] /\ job'[b] = job[b]
      BY <1>a, <2>3, Zenon DEF Continue, WorkerType
    <3>2. VolumeGone(b) => VolumeGone(b)'
      BY <3>1, VolumeGoneStep, Zenon
    <3>3. Unbinding(b)' => Unbinding(b)
      BY <1>6, <3>1, Zenon DEF Unbinding
    <3> QED
      BY <1>6, <2>3, <3>1, <3>2, <3>3, Zenon DEF UnbindCoherent
  <2> QED
    BY <1>6, <2>1, <2>2, <2>3, Zenon DEF Persisted
<1>7. CASE UpdateStatus(b)
  <2> DEFINE o == [sb[b] EXCEPT !.secret = local[b].secret, !.conditions = local[b].conditions]
  <2>1. pc[b] = "status" /\ wl' = wl
    BY <1>7, Zenon DEF UpdateStatus
  <2>2. CASE Persisted(b, FALSE, current) /\ sb' = sb
    BY <1>6, <2>1, <2>2, Zenon
  <2>3. CASE Continue(b, "save", local[b], job[b]) /\ Put(b, o) /\ current' = AfterWrite(b, o)
    <3>1. pc'[b] = "save" /\ local'[b] = local[b] /\ job'[b] = job[b]
      BY <1>a, <2>3, Zenon DEF Continue, WorkerType
    <3>2. sb'[b].secret = local[b].secret
      BY <1>a, <2>3, Zenon DEF Put, TypeOK, Objects
    <3>3. VolumeGone(b) => VolumeGone(b)'
      BY <3>1, VolumeGoneStep, Zenon
    <3>4. Unbinding(b)' => Unbinding(b)
      BY <2>1, <3>1, Zenon DEF Unbinding
    <3> QED
      BY <2>1, <3>1, <3>2, <3>3, <3>4, Zenon DEF UnbindCoherent
  <2> QED
    BY <1>7, <2>2, <2>3, Zenon DEF UpdateStatus
<1>8. CASE SaveBinding(b)
  <2> DEFINE o == [local[b] EXCEPT !.secret = sb[b].secret, !.conditions = sb[b].conditions]
  <2>1. pc[b] = "save" /\ wl' = wl
    BY <1>8, Zenon DEF SaveBinding
  <2>2. CASE Persisted(b, FALSE, current) /\ sb' = sb
    BY <1>6, <2>1, <2>2, Zenon
  <2>3. CASE Persisted(b, TRUE, AfterWrite(b, o)) /\ Put(b, o)
    <3>1. sb'[b].secret = sb[b].secret
      BY <1>a, <2>3, Zenon DEF Put, TypeOK, Objects
    <3>2. b \in AfterWrite(b, o) => b \in current
      BY Zenon DEF AfterWrite
    <3> HIDE DEF o
    <3> QED BY <1>6, <2>1, <2>3, <3>1, <3>2, Zenon
  <2> QED
    BY <1>8, <2>2, <2>3, Zenon DEF SaveBinding
<1>9. CASE RemoveFinalizer(b)
  BY <1>9, <1>a, DoneUnbinds, Zenon DEF RemoveFinalizer
<1> QED
  BY <1>1, <1>2, <1>3, <1>4, <1>5, <1>7, <1>8, <1>9, Zenon DEF Reconcile

\* ... and so does every other step.
LEMMA NextUnbinds ==
  ASSUME TypeOK, Coherent, Isolated, DistinctVolumes, "applications" \notin Faults, [Next]_vars,
         \A b \in Bindings : UnbindCoherent(b)
  PROVE  \A b \in Bindings : UnbindCoherent(b)'
<1> USE DEF cluster, informer, worker
<1> SUFFICES ASSUME NEW c \in Bindings PROVE UnbindCoherent(c)'
  BY Zenon
<1>1. ASSUME NEW b \in Bindings, Reconcile(b)
      PROVE  UnbindCoherent(c)'
  <2>1. CASE b = c
    BY <1>1, <2>1, OwnUnbinds, Zenon DEF Coherent
  <2>2. CASE b # c
    <3>1. SameFor(c)
      BY <1>1, <2>2, OthersUntouched, Zenon
    <3> QED BY <3>1, UnbindFrame, Zenon DEF SameFor
  <2> QED BY <2>1, <2>2, Zenon
<1>2. ASSUME NEW b \in Bindings, SyncCache(b)
      PROVE  UnbindCoherent(c)'
  BY <1>2, UnbindFrame, Zenon DEF SyncCache
<1>3. ASSUME NEW b \in Bindings, NEW o, UserPut(b, o)
      PROVE  UnbindCoherent(c)'
  <2>1. /\ UNCHANGED <<pc, local, job>> /\ (c \in current' => c \in current)
        /\ sb' = [sb EXCEPT ![b] = o] /\ (b \in current' => o = sb[b])
    BY <1>3, Zenon DEF UserPut, Put, AfterWrite
  <2>2. c \in current' => sb'[c] = sb[c]
    BY <2>1, Zenon DEF TypeOK
  <2> QED BY <2>1, <2>2, UnbindFrame, Zenon
<1>4. ASSUME NEW b \in Bindings, NEW v, ChangeService(b, v)
      PROVE  UnbindCoherent(c)'
  BY <1>4, UnbindFrame, Zenon DEF ChangeService
<1>5. ASSUME NEW v \in Workloads, NEW e \in BOOLEAN, ChangeWorkload(v, e)
      PROVE  UnbindCoherent(c)'
  BY <1>5, UnbindFrame, Zenon DEF ChangeWorkload
<1>6. CASE Restart
  <2>1. pc'[c] = "idle"
    BY <1>6, Zenon DEF Restart
  <2> QED BY <2>1, Zenon DEF UnbindCoherent, Unbinding
<1>7. CASE UNCHANGED vars
  BY <1>7, UnbindFrame, Zenon DEF vars
<1>8. CASE Outside
  <2>1. \/ \E b \in Bindings : \E o : UserPut(b, o)
        \/ \E b \in Bindings : \E v : ChangeService(b, v)
        \/ \E v \in Workloads, e \in BOOLEAN : ChangeWorkload(v, e)
        \/ Restart
    BY <1>8, Zenon DEF Outside, CreateBinding, EditBinding, DeleteBinding, AnnotateBinding
  <2> QED BY <1>3, <1>4, <1>5, <1>6, <2>1, Zenon
<1> QED
  BY <1>1, <1>2, <1>7, <1>8, Zenon DEF Next

\* No volume comes back between the Unbind handler and the removal of the
\* finalizer, whoever writes the workloads and the bindings meanwhile.
THEOREM NothingComesBack ==
  ASSUME DistinctVolumes, "applications" \notin Faults
  PROVE  Spec => []Unbound
<1>1. Init => Unbound
  BY DEF Init, Unbound, Finalized, UnbindCoherent, Unbinding, NoBinding, NewBinding
<1>2. TypeOK /\ Coherent /\ Isolated /\ Unbound /\ [Next]_vars => Unbound'
  BY FinalizedStep, NextUnbinds, Zenon DEF Unbound
<1> QED
  BY <1>1, <1>2, Invariance, Isolation, PTL DEF Spec

\* The finalizer does what it is for: when it is removed, the binding's volume
\* is gone from every workload that the binding refers to, for any number of
\* bindings, workloads, conflicts, restarts and failures, provided that the
\* workloads can be listed and no two bindings share a volume name.
THEOREM UnboundOnRemoval ==
  ASSUME DistinctVolumes, "applications" \notin Faults
  PROVE  Spec => UnbindBeforeRemoval
<1> DEFINE Clean == \A b \in Bindings :
                      sb[b].exists /\ sb[b].secret # NoSecret /\ ~sb'[b].exists
                        => \A w \in Applications(sb[b].ref) :
                             wl[w].content.volumes[VolumeName[b]] = NoSecret
<1>1. ASSUME TypeOK, Coherent, Unbound, [Next]_vars
      PROVE  Clean
  <2> USE DEF cluster, informer, worker
  <2> SUFFICES ASSUME NEW c \in Bindings, sb[c].exists, sb[c].secret # NoSecret, ~sb'[c].exists
               PROVE  \A w \in Applications(sb[c].ref) :
                        wl[w].content.volumes[VolumeName[c]] = NoSecret
    BY Zenon
  <2>a. /\ Finalized(c) /\ UnbindCoherent(c) /\ sb[c] \in Objects /\ local[c] \in Objects
        /\ LocalCoherent(c) /\ JobCoherent(c)
    BY <1>1, Zenon DEF Unbound, TypeOK, Coherent, CoherentAt
  <2>b. sb \in [Bindings -> Objects] /\ sb' # sb
    BY <1>1, Zenon DEF TypeOK
  <2>1. ASSUME NEW b \in Bindings, NEW o, sb' = [sb EXCEPT ![b] = o]
        PROVE  b = c /\ ~o.exists
    BY <2>b, <2>1, Zenon
  <2>2. CASE RemoveFinalizer(c) /\ c \in current
    <3>1. pc[c] = "remove" /\ local[c].deleting /\ local[c].ref = sb[c].ref
          /\ local[c].secret # NoSecret
      BY <2>2, <2>a, Zenon DEF RemoveFinalizer, LocalCoherent, JobCoherent, UnbindCoherent
    <3>2. VolumeGone(c) /\ job[c].todo = {}
      BY <3>1, <2>a, Zenon DEF UnbindCoherent, Unbinding
    <3> QED
      BY <3>1, <3>2, Zenon DEF VolumeGone
  <2>3. ASSUME NEW b \in Bindings, NEW ref \in Refs, CreateBinding(b, ref) \/ EditBinding(b, ref)
        PROVE  FALSE
    <3>1. NewBinding(ref).exists /\ [sb[c] EXCEPT !.ref = ref].exists
      BY <2>a, Zenon DEF NewBinding, Objects
    <3> QED BY <2>1, <2>3, <3>1, Zenon DEF CreateBinding, EditBinding, UserPut, Put
  <2>4. ASSUME NEW b \in Bindings, DeleteBinding(b) \/ AnnotateBinding(b)
        PROVE  FALSE
    <3>1. /\ [sb[c] EXCEPT !.deleting = TRUE].exists /\ [sb[c] EXCEPT !.rebind = TRUE].exists
          /\ sb[c].finalizer
      BY <2>a, Zenon DEF Objects, Finalized
    <3> QED BY <2>1, <2>4, <3>1, Zenon DEF DeleteBinding, AnnotateBinding, UserPut, Put
  <2>5. ASSUME NEW b \in Bindings, AddFinalizer(b) \/ UpdateStatus(b) \/ SaveBinding(b)
        PROVE  FALSE
    <3>1. \/ pc[b] = "finalizer" /\ sb' = [sb EXCEPT ![b] = [local[b] EXCEPT !.finalizer = TRUE]]
          \/ sb' = [sb EXCEPT ![b] = [sb[b] EXCEPT !.secret = local[b].secret,
                                                   !.conditions = local[b].conditions]]
          \/ pc[b] = "save" /\ sb' = [sb EXCEPT ![b] = [local[b] EXCEPT !.secret = sb[b].secret,
                                                   !.conditions = sb[b].conditions]]
      BY <2>b, <2>5, Zenon DEF AddFinalizer, UpdateStatus, SaveBinding, Put
    <3>2. b = c
      BY <2>1, <3>1, Zenon
    <3>3. /\ [local[c] EXCEPT !.finalizer = TRUE].exists = local[c].exists
          /\ [sb[c] EXCEPT !.secret = local[c].secret, !.conditions = local[c].conditions].exists
          /\ [local[c] EXCEPT !.secret = sb[c].secret, !.conditions = sb[c].conditions].exists
               = local[c].exists
          /\ pc[c] # "idle" => local[c].exists
      BY <2>a, Zenon DEF Objects, LocalCoherent
    <3> QED BY <2>1, <3>1, <3>2, <3>3, Zenon
  <2>6. ASSUME NEW b \in Bindings, RemoveFinalizer(b)
        PROVE  b = c /\ c \in current
    <3>1. b \in current /\ sb' = [sb EXCEPT ![b] = NoBinding]
      BY <2>b, <2>6, Zenon DEF RemoveFinalizer, Put, Stale
    <3> QED BY <2>1, <3>1, Zenon
  <2> QED BY <1>1, <2>b, <2>2, <2>3, <2>4, <2>5, <2>6, BindingWriters, Zenon
<1>2. ASSUME TypeOK, Coherent, Unbound, [Next]_vars
      PROVE  [Clean]_vars
  BY <1>1, <1>2, Zenon
<1> QED
  BY <1>2, Invariance, NothingComesBack, PTL DEF Spec, UnbindBeforeRemoval

(***************************************************************************)
(* Ready is stored only with the binding in the workloads, for as long as  *)
(* no two bindings share the name of a volume, or a provided secret as     *)
(* variables, and no user asks for a binding to be made anew: then nobody  *)
(* but the binding's own worker takes the binding out of a workload that   *)
(* is not recreated.                                                       *)
(***************************************************************************)

NoRebinds == "annotate" \notin Environment

NoRivals == \A c \in Bindings : Rivals[c] = {}

\* A workload that is not recreated keeps b, but for an unbinding by b's own
\* worker.
LEMMA CarriedKept ==
  ASSUME TypeOK, Isolated, NoRivals, NoRebinds, [Next]_vars,
         NEW b \in Bindings, NEW w \in Workloads \ Volatile, Carries(wl[w].content, b),
         pc[b] = "workloads" => ~local[b].deleting
  PROVE  Carries(wl'[w].content, b)
<1>a. wl \in [Workloads -> [exists: BOOLEAN, content: Contents]]
  BY Zenon DEF TypeOK
<1>1. CASE wl' = wl
  BY <1>1, Zenon
<1>2. ASSUME NEW v \in Workloads, NEW e \in BOOLEAN, ChangeWorkload(v, e)
      PROVE  wl'[w] = wl[w]
  <2>1. /\ wl[v].exists # e => v \in Volatile
        /\ wl' = [wl EXCEPT ![v] = IF wl[v].exists = e THEN @ ELSE [exists |-> e, content |-> Bare]]
    BY <1>2, Zenon DEF ChangeWorkload
  <2> QED BY <1>a, <2>1, Zenon
<1>3. ASSUME NEW c \in Bindings, NEW v \in Workloads, Writes(c, v)
      PROVE  Carries(wl'[w].content, b)
  <2>1. CASE v # w
    BY <1>a, <1>3, <2>1, Zenon DEF Writes
  <2>2. CASE v = w
    <3>1. wl'[w].content = job[c].desired[w] /\ pc[c] = "workloads"
      BY <1>a, <1>3, <2>2, Zenon DEF Writes
    <3>2. OwnChange(c, local[c].deleting, secrets, wl[w].content, wl'[w].content)
      BY <1>3, <2>2, <3>1, Zenon DEF Writes, Isolated, WorkerIsolated, PendingOwn
    <3>3. b \notin Rivals[c]
      BY Zenon DEF NoRivals
    <3>4. ASSUME NEW s \in OwnSecrets(c), wl'[w].content = Project(c, s, wl[w].content)
          PROVE  Carries(wl'[w].content, b)
      BY <1>a, <3>3, <3>4, CarriedEffect
    <3>5. ASSUME NEW s \in OwnSecrets(c), local[c].deleting,
                 wl'[w].content = Unproject(c, s, wl[w].content)
          PROVE  Carries(wl'[w].content, b)
      <4>1. b # c
        BY <3>1, <3>5, Zenon
      <4> QED BY <1>a, <3>3, <3>5, <4>1, CarriedEffect
    <3> QED
      BY <3>2, <3>4, <3>5, Zenon DEF OwnChange, NoRebinds
  <2> QED BY <2>1, <2>2, Zenon
<1> QED
  BY <1>1, <1>2, <1>3, WorkloadWriters, Zenon

\* The stored status stays true, whoever writes the binding or the workload.
LEMMA StoredStep ==
  ASSUME TypeOK, Coherent, Isolated, NoRivals, NoRebinds, ReadyBacked,
         \A b \in Bindings : Finalized(b), [Next]_vars
  PROVE  \A b \in Bindings : StoredBacked(b)'
<1> USE DEF cluster, informer, worker
<1> DEFINE Fine(b, o) == /\ Ready(o) => o.finalizer
                         /\ Promised(o) => Carries(wl[o.ref].content, b)
<1>a. \A b \in Bindings :
        /\ sb[b] \in Objects /\ local[b] \in Objects /\ Fine(b, sb[b])
        /\ LocalCoherent(b) /\ JobCoherent(b) /\ WorkerBacked(b)
  BY Zenon DEF TypeOK, Coherent, CoherentAt, ReadyBacked, StoredBacked
<1>1. CASE sb' = sb
  <2> SUFFICES ASSUME NEW b \in Bindings, Promised(sb[b])
               PROVE  Carries(wl'[sb[b].ref].content, b)
    BY <1>a, <1>1, Zenon DEF StoredBacked, Promised
  <2>1. pc[b] = "workloads" => ~local[b].deleting
    BY <1>a, Zenon DEF LocalCoherent, Live, Promised, Ready
  <2> QED BY <1>a, <2>1, CarriedKept, Zenon DEF Promised
<1>2. CASE sb' # sb
  <2>a. wl' = wl
    BY <1>2, PhaseStep, Zenon
  <2>b. ASSUME NEW b \in Bindings, NEW o, sb' = [sb EXCEPT ![b] = o], Fine(b, o)
        PROVE  \A c \in Bindings : StoredBacked(c)'
    BY <1>a, <2>a, <2>b, Zenon DEF TypeOK, StoredBacked
  <2>1. ASSUME NEW b \in Bindings, NEW o, UserPut(b, o), ~Promised(o), Ready(o) => o.finalizer
        PROVE  \A c \in Bindings : StoredBacked(c)'
    BY <2>1, <2>b, Zenon DEF UserPut, Put
  <2>2. ASSUME NEW b \in Bindings, NEW ref \in Refs, CreateBinding(b, ref) \/ EditBinding(b, ref)
        PROVE  \A c \in Bindings : StoredBacked(c)'
    <3>1. ~Ready(NewBinding(ref)) /\ (~Ready(sb[b]) => ~Ready([sb[b] EXCEPT !.ref = ref]))
      BY <1>a, Zenon DEF NewBinding, NoConditions, Ready, Objects
    <3> QED
      BY <2>1, <2>2, <3>1, Zenon DEF CreateBinding, EditBinding, Promised
  <2>3. ASSUME NEW b \in Bindings, DeleteBinding(b)
        PROVE  \A c \in Bindings : StoredBacked(c)'
    <3> DEFINE o == IF sb[b].finalizer THEN [sb[b] EXCEPT !.deleting = TRUE] ELSE NoBinding
    <3>1. ~Promised(o) /\ (Ready(o) => o.finalizer)
      BY <1>a, Zenon DEF Ready, Promised, Objects, NoBinding, NewBinding
    <3> QED BY <2>1, <2>3, <3>1, Zenon DEF DeleteBinding
  <2>4. ASSUME NEW b \in Bindings PROVE ~AnnotateBinding(b)
    BY Zenon DEF AnnotateBinding, Happens, NoRebinds
  <2>5. ASSUME NEW b \in Bindings, AddFinalizer(b)
        PROVE  \A c \in Bindings : StoredBacked(c)'
    <3>1. /\ pc[b] = "finalizer" /\ b \in current
          /\ sb' = [sb EXCEPT ![b] = [local[b] EXCEPT !.finalizer = TRUE]]
      BY <1>2, <2>5, Zenon DEF AddFinalizer, Put, Stale
    <3>2. local[b] = sb[b]
      BY <1>a, <3>1, Zenon DEF LocalCoherent
    <3> DEFINE o == [sb[b] EXCEPT !.finalizer = TRUE]
    <3>3. /\ o.finalizer /\ o.exists = sb[b].exists /\ o.ref = sb[b].ref
          /\ o.deleting = sb[b].deleting /\ o.conditions = sb[b].conditions
      BY <1>a, Zenon DEF Objects
    <3>4. Fine(b, o)
      BY <1>a, <3>3, Zenon DEF Ready, Promised
    <3> HIDE DEF Fine, o
    <3>5. sb' = [sb EXCEPT ![b] = o]
      BY <3>1, <3>2, Zenon DEF o
    <3> QED BY <2>b, <3>4, <3>5, Zenon
  <2>6. ASSUME NEW b \in Bindings, UpdateStatus(b)
        PROVE  \A c \in Bindings : StoredBacked(c)'
    <3> DEFINE o == [sb[b] EXCEPT !.secret = local[b].secret, !.conditions = local[b].conditions]
    <3>1. /\ pc[b] = "status" /\ b \in current /\ local[b].conditions.collection # ""
          /\ sb' = [sb EXCEPT ![b] = o]
      BY <1>2, <2>6, Zenon DEF UpdateStatus, Put, Stale
    <3>2. /\ sb[b].exists /\ sb[b].finalizer /\ local[b].exists
          /\ local[b].ref = sb[b].ref /\ local[b].deleting = sb[b].deleting
      BY <1>a, <3>1, Zenon DEF LocalCoherent, Finalized
    <3>3. /\ o.finalizer /\ o.exists /\ o.ref = sb[b].ref /\ o.deleting = sb[b].deleting
          /\ o.conditions = local[b].conditions
      BY <1>a, <3>2, Zenon DEF Objects
    <3>4. Promised(o) => Promised(local[b])
      BY <3>2, <3>3, Zenon DEF Promised, Ready
    <3>5. Fine(b, o)
      BY <1>a, <3>1, <3>2, <3>3, <3>4, Zenon DEF WorkerBacked
    <3> HIDE DEF Fine, o
    <3> QED BY <2>b, <3>1, <3>5, Zenon
  <2>7. ASSUME NEW b \in Bindings, SaveBinding(b)
        PROVE  \A c \in Bindings : StoredBacked(c)'
    <3> DEFINE o == [local[b] EXCEPT !.secret = sb[b].secret, !.conditions = sb[b].conditions]
    <3>1. pc[b] = "save" /\ b \in current /\ sb' = [sb EXCEPT ![b] = o]
      BY <1>2, <2>7, Zenon DEF SaveBinding, Put, Stale
    <3>2. /\ sb[b].exists /\ local[b].finalizer = sb[b].finalizer
          /\ local[b].ref = sb[b].ref /\ local[b].deleting = sb[b].deleting
      BY <1>a, <3>1, Zenon DEF LocalCoherent
    <3>3. /\ o.finalizer = sb[b].finalizer /\ o.ref = sb[b].ref /\ o.deleting = sb[b].deleting
          /\ o.conditions = sb[b].conditions
      BY <1>a, <3>2, Zenon DEF Objects
    <3>4. Fine(b, o)
      BY <1>a, <3>2, <3>3, Zenon DEF Promised, Ready
    <3> HIDE DEF Fine, o
    <3> QED BY <2>b, <3>1, <3>4, Zenon
  <2>8. ASSUME NEW b \in Bindings, RemoveFinalizer(b)
        PROVE  \A c \in Bindings : StoredBacked(c)'
    <3>1. sb' = [sb EXCEPT ![b] = NoBinding]
      BY <1>2, <2>8, Zenon DEF RemoveFinalizer, Put
    <3>2. Fine(b, NoBinding)
      BY Zenon DEF NoBinding, NewBinding, Ready, Promised
    <3> HIDE DEF Fine
    <3> QED BY <2>b, <3>1, <3>2, Zenon
  <2> QED
    BY <1>2, <2>2, <2>3, <2>4, <2>5, <2>6, <2>7, <2>8, BindingWriters, Zenon
<1> QED BY <1>1, <1>2, Zenon

LEMMA CloseBacked ==
  ASSUME WorkerType, NEW b \in Bindings, NEW o \in Objects, NEW j \in Jobs, Close(b, o, j), wl' = wl,
         ~o.deleting /\ o.ref \in Workloads =>
           \/ j.flow \in {"retry", "error"}
           \/ j.todo = {o.ref} /\ Carries(j.desired[o.ref], b)
           \/ j.todo = {} /\ o.conditions.collection = ""
  PROVE  WorkerBacked(b)'
<1>1. \A step, p : Continue(b, step, p, j) => pc'[b] = step /\ local'[b] = p /\ job'[b] = j
  BY Zenon DEF Continue, WorkerType
<1>2. \A r : LET p == SetReady(o, r)
            IN  /\ p.conditions.ready = r /\ p.conditions.collection = o.conditions.collection
                /\ p.deleting = o.deleting /\ p.ref = o.ref
  BY Zenon DEF SetReady, Objects, Conditions
<1>3. CASE j.flow \in {"retry", "error"}
  <2>1. pc'[b] = "status" /\ local'[b] = SetReady(o, "ProcessingError")
    BY <1>1, <1>3, Zenon DEF Close
  <2>2. ~Ready(local'[b])
    BY <1>2, <2>1, Zenon DEF Ready
  <2> QED BY <2>1, <2>2, Zenon DEF WorkerBacked, Promised
<1>4. CASE j.flow \notin {"retry", "error"} /\ j.todo = {}
  <2>1. pc'[b] = "status" /\ local'[b] = SetReady(o, "ApplicationsBound")
    BY <1>1, <1>4, Zenon DEF Close
  <2>2. Promised(local'[b]) => local'[b].conditions.collection = ""
    BY <1>2, <1>4, <2>1, Zenon DEF Promised
  <2> QED BY <2>1, <2>2, Zenon DEF WorkerBacked, Promised
<1>5. CASE j.flow \notin {"retry", "error"} /\ j.todo # {}
  <2>1. pc'[b] = "workloads" /\ local'[b] = o /\ job'[b] = j
    BY <1>1, <1>5, Zenon DEF Close
  <2> QED BY <1>5, <2>1, Zenon DEF WorkerBacked
<1> QED BY <1>3, <1>4, <1>5, Zenon

\* The projection of b into the workload it names, if there is one, is on its
\* way; otherwise nothing will be stored.
LEMMA ProjectBacked ==
  ASSUME TypeOK, Isolated, NEW b \in Bindings, NEW ws, ws \in SUBSET Workloads,
         job[b].todo = {}, job[b].data \in Data, local[b].ref \in Workloads => ws \subseteq {local[b].ref},
         ws # {} \/ local[b].conditions.collection = "",
         ProjectAndClose(b, local[b], ws), wl' = wl
  PROVE  WorkerBacked(b)'
<1> DEFINE o == local[b]
           s == SecretName(b, job[b].data)
           f == [w \in ws |-> Project(b, s, wl[w].content)]
           j == WithApplications(Flow(b, AfterProjection(o)), ws, f)
<1>a. WorkerType /\ o \in Objects /\ job[b] \in Jobs /\ Flow(b, "error") \in Jobs
      /\ Flow(b, AfterProjection(o)) \in Jobs /\ Flow(b, "error").flow = "error"
  <2>1. WorkerType /\ o \in Objects /\ job[b] \in Jobs
    BY Zenon DEF TypeOK, WorkerType
  <2>2. AfterProjection(o) \in FlowStatus /\ "error" \in FlowStatus
    BY Zenon DEF AfterProjection, FlowStatus
  <2>3. Flow(b, "error").flow = "error"
    BY <2>1, Zenon DEF Flow, Jobs
  <2> QED BY <2>1, <2>2, <2>3, FlowType, Zenon
<1>b. \A r \in {"Error", "ApplicationUpdated"} :
        LET p == SetInjection(o, r)
        IN  /\ p \in Objects /\ p.deleting = o.deleting /\ p.ref = o.ref
            /\ p.conditions.collection = o.conditions.collection
  <2>1. \A r : LET p == SetInjection(o, r)
              IN  /\ p.deleting = o.deleting /\ p.ref = o.ref
                  /\ p.conditions.collection = o.conditions.collection
    BY <1>a, Zenon DEF SetInjection, Objects, Conditions
  <2> QED BY <1>a, <2>1, ConditionTypes, Zenon
<1>c. \A w \in ws : f[w] \in Contents /\ Carries(f[w], b)
  <2>1. s \in OwnSecrets(b) /\ s \in SecretNames \cup {NoSecret} /\ s # NoSecret
    BY SecretNameType, SecretNameOwn, Zenon
  <2>2. \A w \in ws : wl[w].content \in Contents
    BY Zenon DEF TypeOK
  <2> HIDE DEF s
  <2> QED BY <2>1, <2>2, CarriedEffect, ProjectType, Zenon
<1>1. CASE Close(b, SetInjection(o, "Error"), Flow(b, "error"))
  BY <1>1, <1>a, <1>b, CloseBacked, Zenon
<1>2. CASE Close(b, SetInjection(o, "ApplicationUpdated"), j)
  <2>1. j \in Jobs /\ j.todo = ws /\ \A w \in ws : j.desired[w] = f[w]
    <3> HIDE DEF f
    <3>1. \A h \in Jobs : /\ WithApplications(h, ws, f).todo = ws
                          /\ \A w \in ws : WithApplications(h, ws, f).desired[w] = f[w]
      BY Zenon DEF WithApplications, Jobs
    <3> QED BY <1>a, <1>c, <3>1, WithApplicationsType, Zenon
  <2> DEFINE p == SetInjection(o, "ApplicationUpdated")
  <2>2. /\ p \in Objects /\ p.deleting = o.deleting /\ p.ref = o.ref
        /\ p.conditions.collection = o.conditions.collection
    BY <1>b, Zenon
  <2>3. p.ref \in Workloads =>
          \/ j.todo = {p.ref} /\ Carries(j.desired[p.ref], b)
          \/ j.todo = {} /\ p.conditions.collection = ""
    <3> HIDE DEF f, j, p
    <3>1. ASSUME o.ref \in Workloads, ws # {}
          PROVE  ws = {o.ref}
      BY <3>1, Zenon
    <3>2. \A w \in ws : Carries(j.desired[w], b)
      BY <1>c, <2>1, Zenon
    <3>3. CASE ws = {}
      BY <2>1, <2>2, <3>3, Zenon
    <3>4. CASE ws # {}
      <4> SUFFICES ASSUME p.ref \in Workloads
                   PROVE  j.todo = {p.ref} /\ Carries(j.desired[p.ref], b)
        BY Zenon
      <4>1. p.ref = o.ref /\ j.todo = ws
        BY <2>1, <2>2, Zenon
      <4>2. ws = {p.ref}
        BY <3>1, <3>4, <4>1, Zenon
      <4> QED BY <3>2, <4>1, <4>2, Zenon
    <3> QED BY <3>3, <3>4, Zenon
  <2>4. Close(b, p, j)
    BY <1>2, Zenon
  <2> HIDE DEF j, p
  <2> QED BY <1>a, <2>1, <2>2, <2>3, <2>4, CloseBacked, Zenon
<1> QED
  BY <1>1, <1>2, Zenon DEF ProjectAndClose

\* Each step of the worker on b, and ...
LEMMA OwnBacked ==
  ASSUME TypeOK, Isolated, NoRivals, NoRebinds, [Next]_vars,
         NEW b \in Bindings, CoherentAt(b), WorkerBacked(b), Reconcile(b)
  PROVE  WorkerBacked(b)'
<1> USE DEF cluster, informer, worker
<1>a. /\ WorkerType /\ local[b] \in Objects /\ job[b] \in Jobs
      /\ LocalCoherent(b) /\ JobCoherent(b)
  BY Zenon DEF TypeOK, WorkerType, CoherentAt
<1>b. \A step, p, j : Continue(b, step, p, j) => pc'[b] = step /\ local'[b] = p /\ job'[b] = j
  BY <1>a, Zenon DEF Continue, WorkerType
<1>c. \A step \in Steps \ {"workloads", "project", "status"} : \A p, j :
        Continue(b, step, p, j) => WorkerBacked(b)'
  BY <1>b, Zenon DEF WorkerBacked
<1>d. ASSUME NEW requeue, Done(b, requeue)
      PROVE  WorkerBacked(b)'
  BY <1>a, <1>d, Zenon DEF Done, WorkerBacked, WorkerType
<1>e. \A st \in FlowStatus : Flow(b, st) \in Jobs /\ Flow(b, st).flow = st /\ Flow(b, st).todo = job[b].todo
  BY <1>a, FlowType, Zenon DEF Flow, Jobs
<1>1. CASE Begin(b)
  <2>1. CASE cache[b].exists
    BY <1>1, <1>c, <2>1, Zenon DEF Begin, FirstHandler, Steps
  <2>2. CASE ~cache[b].exists
    BY <1>1, <2>2, Zenon DEF Begin, WorkerBacked
  <2> QED BY <2>1, <2>2, Zenon
<1>2. CASE AddFinalizer(b)
  BY <1>2, <1>c, <1>d, Zenon DEF AddFinalizer, FirstHandler, Steps
<1>3. CASE Unbind(b)
  <2>1. local[b].deleting
    BY <1>3, Zenon
       DEF Unbind, Isolated, WorkerIsolated, SecretsCoherent, CopySound, UnbindRequested, NoRebinds
  <2>2. \E o \in Objects : \E j : Close(b, o, j) /\ o.deleting
    <3>1. LET o == [local[b] EXCEPT !.rebind = FALSE] IN o \in Objects /\ o.deleting
      BY <1>a, <2>1, Zenon DEF Objects
    <3> QED BY <1>3, <1>a, <2>1, <3>1, Zenon DEF Unbind
  <2>3. PICK o \in Objects : \E j : Close(b, o, j) /\ o.deleting
    BY <2>2, Zenon
  <2>4. local'[b].deleting /\ pc'[b] # "project"
    <3>1. \A r : SetReady(o, r).deleting = o.deleting
      BY Zenon DEF SetReady, Objects
    <3> QED BY <1>b, <2>3, <3>1, Zenon DEF Close
  <2> QED BY <2>4, Zenon DEF WorkerBacked, Promised
<1>g. \A r : /\ SetReady(local[b], r).conditions.ready = r
            /\ SetCollection(local[b], r).conditions.collection = r
  BY <1>a, Zenon DEF SetReady, SetCollection, Objects, Conditions
<1>f. ASSUME NEW o \in Objects, NEW st \in {"retry", "error"}, Close(b, o, Flow(b, st)), wl' = wl
      PROVE  WorkerBacked(b)'
  BY <1>a, <1>e, <1>f, CloseBacked, Zenon DEF FlowStatus
<1>4. CASE Collect(b)
  <2>1. wl' = wl
    BY <1>4, Zenon DEF Collect
  <2>2. \A r \in {"ErrorReading", "InvalidAnnotation"} : SetCollection(local[b], r) \in Objects
    BY <1>a, ConditionTypes, Zenon
  <2> QED
    BY <1>4, <1>c, <1>f, <2>1, <2>2, Zenon DEF Collect, Steps
<1>5. CASE PersistSecret(b)
  <2>1. CASE \E o, j : Continue(b, "preflight", o, j)
    BY <1>c, <2>1, Zenon DEF Steps
  <2>2. CASE Continue(b, "status", SetReady(local[b], "ErrorPersistingSecret"),
                      [job[b] EXCEPT !.saving = "secretFailed"])
    <3>1. pc'[b] = "status" /\ local'[b].conditions.ready = "ErrorPersistingSecret"
      BY <1>b, <1>g, <2>2
    <3> QED BY <3>1, Zenon DEF WorkerBacked, Promised, Ready
  <2> QED BY <1>5, <2>1, <2>2, Zenon DEF PersistSecret
<1>6. CASE PreFlightCheck(b)
  <2>1. wl' = wl /\ pc[b] = "preflight" /\ job[b].todo = {}
    BY <1>6, <1>a, Zenon DEF PreFlightCheck, JobCoherent, BeforeClose
  <2>2. \A r \in {"ApplicationNotFound", "EmptyApplication", "NoBindingData",
                 "RequiredBindingNotFound"} :
          SetInjection(local[b], r) \in Objects /\ SetInjection(local[b], r).ref = local[b].ref
    BY <1>a, ConditionTypes, Zenon DEF SetInjection, Objects
  <2>3. CASE /\ local[b].ref = NoRef
             /\ Close(b, SetInjection(local[b], "EmptyApplication"), Flow(b, "done"))
    <3>1. SetInjection(local[b], "EmptyApplication").ref \notin Workloads
      BY <2>2, <2>3, ConstantsAssumption, Zenon
    <3> QED BY <1>a, <1>e, <2>1, <2>2, <2>3, <3>1, CloseBacked, Zenon DEF FlowStatus
  <2>4. CASE /\ job[b].data \notin Incomplete \cup {NoData} /\ Applications(local[b].ref) # {}
             /\ ProjectAndClose(b, local[b], Applications(local[b].ref))
    <3>1. job[b].data \in Data
      BY <1>a, <2>4, Zenon DEF Jobs
    <3>2. /\ Applications(local[b].ref) \in SUBSET Workloads
          /\ local[b].ref \in Workloads => Applications(local[b].ref) \subseteq {local[b].ref}
      BY ConstantsAssumption, Zenon DEF Applications
    <3> QED BY <2>1, <2>4, <3>1, <3>2, ProjectBacked, Zenon
  <2> QED
    BY <1>6, <1>f, <2>1, <2>2, <2>3, <2>4, Zenon DEF PreFlightCheck
<1>7. CASE ProjectRegardless(b)
  <2>1. /\ wl' = wl /\ job[b].todo = {} /\ job[b].data \in Data
        /\ local[b].conditions.collection = ""
    BY <1>7, <1>a, Zenon DEF ProjectRegardless, JobCoherent, BeforeClose, WorkerBacked
  <2>2. /\ Applications(local[b].ref) \in SUBSET Workloads
        /\ local[b].ref \in Workloads => Applications(local[b].ref) \subseteq {local[b].ref}
    BY ConstantsAssumption, Zenon DEF Applications
  <2>3. \A read \in Partial(local[b].ref) : read \subseteq Applications(local[b].ref)
    BY Zenon DEF Partial
  <2>4. PICK ws \in SUBSET Applications(local[b].ref) : ProjectAndClose(b, local[b], ws)
    BY <1>7, <2>3, Zenon DEF ProjectRegardless
  <2> QED BY <2>1, <2>2, <2>4, ProjectBacked, Zenon
<1>8. ASSUME NEW v \in Workloads, UpdateWorkload(b, v)
      PROVE  WorkerBacked(b)'
  <2> DEFINE j == [job[b] EXCEPT !.todo = @ \ {v}, !.desired = [@ EXCEPT ![v] = Bare]]
             p == SetReady(local[b], "ApplicationsBound")
  <2>1. pc[b] = "workloads" /\ v \in job[b].todo
    BY <1>8, Zenon DEF UpdateWorkload
  <2>2. j.todo = job[b].todo \ {v}
    BY <1>a, Zenon DEF Jobs
  <2>3. p.deleting = local[b].deleting /\ p.ref = local[b].ref
    BY <1>a, Zenon DEF SetReady, Objects
  <2> HIDE DEF j, p
  <2>4. CASE UpdateFailed(b, v)
    <3>1. pc'[b] = "status" /\ local'[b].conditions.ready = "ApplicationUpdateError"
      BY <1>b, <1>g, <2>4 DEF UpdateFailed
    <3> QED BY <3>1, Zenon DEF WorkerBacked, Promised, Ready
  <2>5. CASE /\ PutWorkload(v, job[b].desired[v])
             /\ IF j.todo = {} THEN Continue(b, "status", p, j) ELSE Continue(b, "workloads", local[b], j)
    <3>1. wl'[v].content = job[b].desired[v]
      BY <2>5, Zenon DEF PutWorkload, TypeOK
    <3>2. ~local[b].deleting /\ local[b].ref \in Workloads =>
            v = local[b].ref /\ j.todo = {} /\ Carries(wl'[v].content, b)
      BY <2>1, <2>2, <3>1, Zenon DEF WorkerBacked
    <3>3. CASE j.todo = {}
      <4>1. pc'[b] = "status" /\ local'[b] = p
        BY <1>b, <2>5, <3>3, Zenon
      <4> QED BY <2>3, <3>2, <4>1, Zenon DEF WorkerBacked, Promised
    <3>4. CASE j.todo # {}
      <4>1. pc'[b] = "workloads" /\ local'[b] = local[b]
        BY <1>b, <2>5, <3>4, Zenon
      <4> QED BY <3>2, <3>4, <4>1, Zenon DEF WorkerBacked
    <3> QED BY <3>3, <3>4, Zenon
  <2> QED
    BY <1>8, <2>4, <2>5, Zenon DEF UpdateWorkload, j, p
<1>9. ASSUME NEW ok, NEW cur, Persisted(b, ok, cur)
      PROVE  WorkerBacked(b)'
  <2>1. CASE Continue(b, "project", SetCollection(local[b], ""), [job[b] EXCEPT !.saving = "close"])
    <3>1. pc'[b] = "project" /\ local'[b] = SetCollection(local[b], "")
      BY <1>b, <2>1, Zenon
    <3>2. local'[b].conditions.collection = ""
      BY <1>g, <3>1, Zenon
    <3> QED BY <3>1, <3>2, Zenon DEF WorkerBacked
  <2> QED
    BY <1>9, <1>c, <1>d, <2>1, Zenon DEF Persisted, Steps
<1>10. CASE UpdateStatus(b)
  BY <1>10, <1>9, <1>c, Zenon DEF UpdateStatus, Steps
<1>11. CASE SaveBinding(b)
  BY <1>11, <1>9, Zenon DEF SaveBinding
<1>12. CASE RemoveFinalizer(b)
  BY <1>12, <1>d, Zenon DEF RemoveFinalizer
<1> QED
  BY <1>1, <1>2, <1>3, <1>4, <1>5, <1>6, <1>7, <1>8, <1>10, <1>11, <1>12, Zenon DEF Reconcile

\* ... every other step keep the worker's copy of b backed.
LEMMA NextBacked ==
  ASSUME TypeOK, Coherent, Isolated, NoRivals, NoRebinds, ReadyBacked, [Next]_vars
  PROVE  \A b \in Bindings : WorkerBacked(b)'
<1> USE DEF cluster, informer, worker
<1> SUFFICES ASSUME NEW c \in Bindings PROVE WorkerBacked(c)'
  BY Zenon
<1>a. ASSUME pc'[c] = pc[c], local'[c] = local[c], job'[c] = job[c]
      PROVE  WorkerBacked(c)'
  <2>1. pc[c] = "status" /\ Promised(local[c]) /\ Carries(wl[local[c].ref].content, c)
          => Carries(wl'[local[c].ref].content, c)
    BY CarriedKept, Zenon DEF Promised
  <2> QED BY <1>a, <2>1, Zenon DEF ReadyBacked, WorkerBacked
<1>1. ASSUME NEW b \in Bindings, Reconcile(b)
      PROVE  WorkerBacked(c)'
  <2>1. CASE b = c
    BY <1>1, <2>1, OwnBacked, Zenon DEF Coherent, ReadyBacked
  <2>2. CASE b # c
    BY <1>1, <1>a, <2>2, OthersUntouched, Zenon DEF SameFor
  <2> QED BY <2>1, <2>2, Zenon
<1>2. CASE UNCHANGED <<pc, local, job>>
  BY <1>2, <1>a, Zenon
<1>3. CASE Restart
  <2>1. pc'[c] = "idle"
    BY <1>3, Zenon DEF Restart
  <2> QED BY <2>1, Zenon DEF WorkerBacked
<1>4. (\E b \in Bindings : Reconcile(b)) \/ Restart \/ UNCHANGED <<pc, local, job>>
  BY Zenon DEF Next, vars, Outside, CreateBinding, EditBinding, DeleteBinding, AnnotateBinding,
               UserPut, ChangeService, ChangeWorkload, SyncCache
<1> QED
  BY <1>1, <1>2, <1>3, <1>4, Zenon

\* What is promised is kept: a binding is marked ready only when the workload
\* it names has been written, and no other binding, conflict, restart or
\* failed call takes the projection away afterwards.
THEOREM ReadyKept ==
  ASSUME NoRivals, NoRebinds
  PROVE  Spec => []ReadyBacked
<1> DEFINE Fin == \A b \in Bindings : Finalized(b)
<1>1. Init => Fin /\ ReadyBacked
  BY DEF Init, Finalized, ReadyBacked, StoredBacked, WorkerBacked, Promised, Ready,
         NoBinding, NewBinding
<1>2. TypeOK /\ Coherent /\ Fin /\ [Next]_vars => Fin'
  BY FinalizedStep, Zenon
<1>3. TypeOK /\ Coherent /\ Isolated /\ Fin /\ ReadyBacked /\ [Next]_vars => ReadyBacked'
  BY StoredStep, NextBacked, Zenon DEF ReadyBacked
<1> QED
  BY <1>1, <1>2, <1>3, Invariance, Isolation, PTL DEF Spec

\* A ready binding at rest is projected into the workload that it names, for
\* any number of bindings, workloads, conflicts, restarts and failed calls,
\* the writing of the secret and the lookup of the workload included.
THEOREM ReadyIsProjected ==
  ASSUME NoRivals, NoRebinds
  PROVE  Spec => []ReadyMeansProjected
<1>1. ReadyBacked => ReadyMeansProjected
  BY Zenon DEF ReadyBacked, StoredBacked, ReadyMeansProjected, Promised
<1> QED
  BY <1>1, ReadyKept, PTL

=============================================================================
