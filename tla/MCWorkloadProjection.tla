----------------------- MODULE MCWorkloadProjection -----------------------
(***************************************************************************)
(* Small instances of WorkloadProjection: two bindings of each kind.       *)
(***************************************************************************)
EXTENDS WorkloadProjection, TLC

CONSTANTS b1, b2, c1, c2, extra, s1, s2, s3

Binding(name, files, env, secrets, secretPath) ==
  [name |-> name, files |-> files, env |-> env, secrets |-> secrets,
   secretPath |-> secretPath]

\* A variable that is not named as the key it is made from.
Renamed == <<[var |-> "DB_HOST", key |-> "host"]>>

Plain ==
  [config |-> b1 :> Binding("one", TRUE, <<>>, {s1, s2}, FALSE)
                @@ b2 :> Binding("two", FALSE, <<>>, {s3}, FALSE),
   sources |-> {}, rescoped |-> {}, malformed |-> {}, edits |-> {"var", "volume"}]

\* A secret that a service provides to both bindings and to the owner.
Shared ==
  [config |-> b1 :> Binding("one", TRUE, <<>>, {s1}, FALSE)
                @@ b2 :> Binding("two", FALSE, <<>>, {s1}, FALSE),
   sources |-> {s1, s2}, rescoped |-> {}, malformed |-> {}, edits |-> {"scope"}]

\* A container that cannot be read, a spec that is edited late, a secretPath.
Irregular ==
  [config |-> b1 :> Binding("one", TRUE, Renamed, {s1}, FALSE)
                @@ b2 :> Binding("two", FALSE, <<>>, {s2}, TRUE),
   sources |-> {s3}, rescoped |-> {b2}, malformed |-> {c2},
   edits |-> {"var", "volume", "scope"}]

MCSetups == {Plain, Shared, Irregular}

=============================================================================
