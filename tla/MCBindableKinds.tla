-------------------------- MODULE MCBindableKinds --------------------------
(***************************************************************************)
(* Small instances of BindableKinds.                                       *)
(***************************************************************************)
EXTENDS BindableKinds

CONSTANTS c1, c2

TwoVersions == <<"v1", "v2">>

\* The first version of one definition has its binding data registered, and
\* that of the other is registered as provisioned.
SomeRegistered ==
  [k \in Kinds |-> IF k = <<c1, "v1">> THEN {"binding"}
                   ELSE IF k = <<c2, "v1">> THEN {"provisioned"} ELSE {}]

D(served, schema, annotations) ==
  [served |-> served, schema |-> schema, annotations |-> annotations, deleting |-> FALSE]

\* Definitions that are bindable by their schema, by an annotation, or not.
TwoVersionContents ==
  {D({"v1"}, TRUE, {}), D({"v2"}, FALSE, {}), D({"v1", "v2"}, FALSE, {"binding"}),
   D({"v1", "v2"}, FALSE, {})}

=============================================================================
