------------------------- MODULE MCRequesterAccess -------------------------
(***************************************************************************)
(* Two users, each of whom lacks one permission at first: u1 may not read  *)
(* the service, u2 may not update the second workload.  The permissions    *)
(* that change are those two and what u1 needs to find a workload, by      *)
(* label or by name.                                                       *)
(***************************************************************************)
EXTENDS RequesterAccess

CONSTANTS u1, u2, w1, w2, service, secret

MCSources == <<service, secret>>

MCPolicy ==
  {<<u, p[1], p[2]>> : u \in Users, p \in Reviews} \ {<<u1, "get", service>>, <<u2, "update", w2>>}

MCChanging ==
  {<<u1, "get", service>>, <<u1, "list", Selector>>, <<u1, "get", w1>>, <<u2, "update", w2>>}

=============================================================================
