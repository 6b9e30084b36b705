-------------------------- MODULE BindingContract --------------------------
(***************************************************************************)
(* What the operator promises about a binding and the workloads, without   *)
(* queues, caches, copies or conflicts: a binding passes through four      *)
(* phases, it enters a workload only under the protection of its           *)
(* finalizer, it leaves one only when it is not wanted there any more, and *)
(* a write on behalf of one binding leaves every other binding alone but   *)
(* for those that use the same volume name or the same provided secret.    *)
(***************************************************************************)
CONSTANTS
  Bindings,    \* the ServiceBinding objects
  Workloads,   \* the workloads
  Rivals,      \* Rivals[b]: the other bindings that b may push out
  Twins,       \* Twins[b]: those that put the same into a workload as b
  Volatile,    \* the workloads that somebody else may delete and create again
  Rebinds      \* a binding may be taken out only to be projected again

VARIABLES
  phase,       \* phase[b]: where binding b is in its life
  carried      \* carried[w]: the bindings whose secrets workload w refers to

Phases == {"absent", "new", "guarded", "leaving"}

Init ==
  /\ phase = [b \in Bindings |-> "absent"]
  /\ carried = [w \in Workloads |-> {}]

Move(b, from, to) ==
  /\ phase[b] = from
  /\ phase' = [phase EXCEPT ![b] = to]
  /\ UNCHANGED carried

Create(b) == Move(b, "absent", "new")

\* The finalizer is added.
Guard(b) == Move(b, "new", "guarded")

\* A deletion waits for the finalizer.
Delete(b) == Move(b, "new", "absent") \/ Move(b, "guarded", "leaving")

\* The finalizer is removed.
Remove(b) == Move(b, "leaving", "absent")

Write(w, bs) ==
  /\ carried' = [carried EXCEPT ![w] = bs]
  /\ UNCHANGED phase

Bind(b, w) ==
  /\ phase[b] \in {"guarded", "leaving"}
  /\ \E lost \in SUBSET (Rivals[b] \ Twins[b]) :
       Write(w, (carried[w] \cup {b} \cup Twins[b]) \ lost)

Unbind(b, w) ==
  /\ phase[b] # "guarded" \/ Rebinds
  /\ \E lost \in SUBSET (Rivals[b] \cup {b}) : Write(w, carried[w] \ lost)

\* Somebody else deletes the workload, or creates it again.
Recreate(w) == w \in Volatile /\ Write(w, {})

Next ==
  \/ \E b \in Bindings : Create(b) \/ Guard(b) \/ Delete(b) \/ Remove(b)
  \/ \E b \in Bindings, w \in Workloads : Bind(b, w) \/ Unbind(b, w)
  \/ \E w \in Workloads : Recreate(w)

Spec == Init /\ [][Next]_<<phase, carried>>

=============================================================================
