-------------------------- MODULE BindingItemTrees --------------------------
(***************************************************************************)
(* The binding items into which a value is taken apart: collectItems.      *)
(***************************************************************************)
EXTENDS BindingAnnotations

KeyOnly(prefix, key) == key

Joined(prefix, key) == prefix \o key

RECURSIVE collectItems(_, _, _)

\* The items, as names with values, of the tree that is found under the key.
collectItems(prefix, key, t) ==
  LET name == Joined(prefix, key)
  IN  CASE t.type = "map" ->
             UNION {collectItems(IF name = NoName THEN <<>> ELSE name, n, t.of[n]) : n \in DOMAIN t.of}
        [] t.type = "list" -> {<<name \o <<ToString(i - 1)>>, t.of[i]>> : i \in DOMAIN t.of}
        [] OTHER -> {<<name, t>>}

RECURSIVE LacksValue(_)

\* Some map in the tree has a key without a value.
LacksValue(t) ==
  t.type = "map" /\ \E n \in DOMAIN t.of : t.of[n].type = "nil" \/ LacksValue(t.of[n])

=============================================================================
