------------------------ MODULE MCBindingReconciler ------------------------
(***************************************************************************)
(* Small instances of BindingReconciler.                                   *)
(***************************************************************************)
EXTENDS BindingReconciler

CONSTANTS b1, b2, w1, w2, v1, v2, s1

\* Every binding has a volume of its own.
OwnVolumes == [b \in Bindings |-> IF b = b1 THEN v1 ELSE v2]

\* The services of every binding provide the same secret.
OneSecret == [b \in Provisioned |-> s1]

=============================================================================
