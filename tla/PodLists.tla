------------------------------ MODULE PodLists ------------------------------
(***************************************************************************)
(* The lists of a pod template and of its containers, as MetaPodSpec and   *)
(* MetaContainer change them: each method reads a list from the manifest   *)
(* and writes it back.  Volumes, mounts and variables are records with a   *)
(* name; the sources of variables are secrets.                             *)
(***************************************************************************)
EXTENDS Naturals, Sequences, FiniteSetsExt, Functions

HasName(s, n) == \E i \in DOMAIN s : s[i].name = n

FirstOf(s, n) == Min({i \in DOMAIN s : s[i].name = n})

RemoveAt(s, i) == SubSeq(s, 1, i - 1) \o SubSeq(s, i + 1, Len(s))

MoveLast(s, x) == Append(SelectSeq(s, LAMBDA y : y.name # x.name), x)

\* AddVolume and AddVolumeMount: x in the place of those of its name, or last.
Replace(s, x) ==
  IF HasName(s, x.name)
  THEN [i \in DOMAIN s |-> IF s[i].name = x.name THEN x ELSE s[i]]
  ELSE Append(s, x)

TruncateAt(s, name) == IF HasName(s, name) THEN SubSeq(s, 1, FirstOf(s, name) - 1) ELSE s

\* RemoveEnvVars, RemoveVolumeMount and RemoveVolume: the first of that name.
RemoveNamed(s, name) == IF HasName(s, name) THEN RemoveAt(s, FirstOf(s, name)) ELSE s

\* The loops over the variables of a binding: the first of each name, in turn.
RemoveEach(s, names) ==
  LET left[k \in 0..Len(names)] ==
        IF k = 0 THEN s ELSE RemoveNamed(left[k - 1], names[k])
  IN left[Len(names)]

\* AddEnvVars removes the variables one by one, then appends them all.
AddEnvVars(env, new) ==
  RemoveEach(env, [i \in DOMAIN new |-> new[i].name]) \o new

\* RemoveEnvFromVars: the first that is this secret.
RemoveSource(envFrom, s) ==
  IF s \in Range(envFrom)
  THEN RemoveAt(envFrom, Min({i \in DOMAIN envFrom : envFrom[i] = s})) ELSE envFrom

AppendEnvFrom(envFrom, s) == Append(envFrom, s)

\* AddEnvFromVar, after RemoveEnvFromVars of the same secret.
AddEnvFromVar(envFrom, s) == Append(RemoveSource(envFrom, s), s)

\* The entries of s that are not in D, in their order.
Without(s, D) ==
  LET rest[k \in 0..Len(s)] ==
        IF k = 0 THEN <<>>
        ELSE IF s[k] \in D THEN rest[k - 1] ELSE Append(rest[k - 1], s[k])
  IN rest[Len(s)]

Distinct(s) == \A i, j \in DOMAIN s : i # j => s[i].name # s[j].name

\* s is a list, of whatever it holds.
Listed(s) == s \in Seq(Range(s))

=============================================================================
