-------------------------- MODULE MCMappingRebind --------------------------
(***************************************************************************)
(* Small instances of MappingRebind.                                       *)
(***************************************************************************)
EXTENDS MappingRebind

CONSTANTS b1, b2, p1, p2, p3

T(version, place) == [version |-> version, place |-> place]

OneVersion == [b \in Bindings |-> "v1"]

\* Mappings that all have a template for every version, one of them invalid.
Wildcards ==
  {<<T("*", p1)>>, <<T("v2", p1), T("*", p2)>>, <<T("*", p3), T("v1", p2)>>,
   <<T("v1", p3), T("*", p1)>>, <<T("v1", p1), T("v1", p2)>>}

\* Mappings with and without a template for the version.
Mixed == {<<T("*", p1)>>, <<T("v2", p1)>>, <<T("*", p3), T("v1", p2)>>}

=============================================================================
