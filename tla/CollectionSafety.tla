-------------------------- MODULE CollectionSafety --------------------------
(***************************************************************************)
(* What an attempt collects in the end, for any services, annotations and  *)
(* values: the secret that is shared has the data, nothing is left out,    *)
(* and the next attempt gets the same data.  Each theorem names the        *)
(* scenarios it is about in its assumptions.                               *)
(***************************************************************************)
EXTENDS CollectionSteps

(***************************************************************************)
(* What is collected                                                       *)
(***************************************************************************)

LEMMA MapList ==
  ASSUME NEW bs, Listed(bs), NEW is, NEW M,
         M = Append([b \in DOMAIN bs |-> AsMap(bs[b].items)], AsMap(is))
  PROVE  /\ Len(bs) \in Nat /\ DOMAIN bs = 1..Len(bs) /\ DOMAIN M = 1..(Len(bs) + 1)
         /\ \A b \in DOMAIN bs : b \in DOMAIN M /\ M[b] = AsMap(bs[b].items)
         /\ Len(bs) + 1 \in DOMAIN M /\ M[Len(bs) + 1] = AsMap(is)
         /\ \A j \in DOMAIN M : j \in DOMAIN bs \/ j = Len(bs) + 1
<1> DEFINE f == [b \in DOMAIN bs |-> AsMap(bs[b].items)]
           S == Range(f) \cup {AsMap(is)}
<1>1. Len(bs) \in Nat /\ DOMAIN bs = 1..Len(bs)
  BY ListedAs, Zenon
<1>2. Listed(f) /\ DOMAIN f = 1..Len(bs) /\ \A b \in DOMAIN bs : f[b] = AsMap(bs[b].items)
  BY <1>1, ListedImage, Zenon
<1> HIDE DEF f
<1>3. f \in Seq(S) /\ AsMap(is) \in S /\ Len(f) = Len(bs)
  <2>1. f \in Seq(Range(f))
    BY <1>2, Zenon DEF Listed
  <2>2. Len(f) = Len(bs)
    BY <1>1, <1>2, <2>1, LenProperties
  <2> QED
    BY <2>1, <2>2, SeqMonotonic, Zenon
<1> HIDE DEF S
<1>4. /\ M \in Seq(S) /\ Len(M) = Len(bs) + 1
      /\ \A i \in 1..Len(bs) : M[i] = f[i] /\ M[Len(bs) + 1] = AsMap(is)
      /\ M[Len(bs) + 1] = AsMap(is)
  BY <1>3, AppendProperties DEF f
<1>5. DOMAIN M = 1..(Len(bs) + 1)
  BY <1>4, LenProperties, Zenon
<1> QED
  BY <1>1, <1>2, <1>4, <1>5

\* The data have the names of the items of the secrets and of the others.
LEMMA DataNames ==
  ASSUME NEW bs, Listed(bs), NEW is
  PROVE  DOMAIN bindingItemMap(bs, is) = (UNION {NamesOf(bs[b].items) : b \in DOMAIN bs}) \cup NamesOf(is)
<1> DEFINE M == Append([b \in DOMAIN bs |-> AsMap(bs[b].items)], AsMap(is))
<1>1. DOMAIN bindingItemMap(bs, is) = UNION {DOMAIN M[j] : j \in DOMAIN M}
  BY Zenon DEF bindingItemMap, MergeMaps
<1>2. /\ \A b \in DOMAIN bs : b \in DOMAIN M /\ DOMAIN M[b] = NamesOf(bs[b].items)
      /\ Len(bs) + 1 \in DOMAIN M /\ DOMAIN M[Len(bs) + 1] = NamesOf(is)
      /\ \A j \in DOMAIN M : j \in DOMAIN bs \/ j = Len(bs) + 1
  BY MapList, AsMapDomain
<1> HIDE DEF M
<1> QED
  BY <1>1, <1>2, Zenon

LEMMA NoNames == NamesOf(<<>>) = {}
BY ListedEmpty, Zenon DEF NamesOf

\* If there is one secret and nothing else, its items are the data.
LEMMA OnlySecret ==
  ASSUME NEW bs, Listed(bs), Len(bs) = 1
  PROVE  bindingItemMap(bs, <<>>) = AsMap(bs[1].items)
<1> DEFINE M == Append([b \in DOMAIN bs |-> AsMap(bs[b].items)], AsMap(<<>>))
           D == UNION {DOMAIN M[j] : j \in DOMAIN M}
<1>1. bindingItemMap(bs, <<>>) = [n \in D |-> M[Max({j \in DOMAIN M : n \in DOMAIN M[j]})][n]]
  BY Zenon DEF bindingItemMap, MergeMaps
<1>2. DOMAIN M = 1..2 /\ M[1] = AsMap(bs[1].items) /\ M[2] = AsMap(<<>>)
  BY MapList
<1> HIDE DEF M
<1>3. DOMAIN M[2] = {} /\ D = DOMAIN M[1]
  <2>1. DOMAIN M[2] = {}
    BY <1>2, AsMapDomain, NoNames, Zenon
  <2>2. \A n : n \in D <=> \E j \in DOMAIN M : n \in DOMAIN M[j]
    BY Zenon
  <2>3. \A n : n \in D <=> n \in DOMAIN M[1]
    BY <1>2, <2>1, <2>2
  <2> HIDE DEF D
  <2> QED
    BY <2>1, <2>3, Zenon
<1>4. \A n \in D : Max({j \in DOMAIN M : n \in DOMAIN M[j]}) = 1
  <2> TAKE n \in D
  <2>1. {j \in DOMAIN M : n \in DOMAIN M[j]} = {1}
    BY <1>2, <1>3
  <2>2. Max({1}) \in {1}
    BY MaxIn
  <2> QED
    BY <2>1, <2>2, Zenon
<1>5. bindingItemMap(bs, <<>>) = [n \in DOMAIN M[1] |-> M[1][n]]
  <2>1. \A n \in D : M[Max({j \in DOMAIN M : n \in DOMAIN M[j]})][n] = M[1][n]
    BY <1>4, Zenon
  <2> HIDE DEF D
  <2>2. bindingItemMap(bs, <<>>) = [n \in D |-> M[1][n]]
    BY <1>1, <2>1, Zenon
  <2> QED
    BY <1>3, <2>2, Zenon
<1>6. AsMap(bs[1].items) = [n \in DOMAIN AsMap(bs[1].items) |-> AsMap(bs[1].items)[n]]
  BY AsMapFunction, AsMapDomain, Zenon
<1> QED
  BY <1>2, <1>5, <1>6, Zenon

\* What an item of a service is called before or after Naming.
NameIn(sc, on, name) == IF on THEN Rename(sc, Item(name, Nil, 1)).name ELSE name

LEMMA FinalNameIn == \A sc, name : FinalName(sc, name) = NameIn(sc, sc.flow = DefaultFlow, name)
BY Zenon DEF FinalName, NameIn

AnItem(x) == x = Item(x.name, x.value, x.service)

LEMMA ItemFields == \A n, v, i : /\ AnItem(Item(n, v, i)) /\ Item(n, v, i).name = n
                                 /\ Item(n, v, i).value = v /\ Item(n, v, i).service = i
BY Zenon DEF AnItem, Item

LEMMA RenamedItem ==
  ASSUME NEW sc, NEW x, AnItem(x)
  PROVE  /\ AnItem(Rename(sc, x)) /\ Rename(sc, x).value = x.value /\ Rename(sc, x).service = x.service
         /\ x.service # 0 => Rename(sc, x).name = NameIn(sc, TRUE, x.name)
         /\ x.service = 0 => Rename(sc, x) = x
<1>1. x = [name |-> x.name, value |-> x.value, service |-> x.service]
  BY Zenon DEF AnItem, Item
<1>2. CASE x.service # 0 /\ x.name \in DOMAIN sc.naming
  <2>1. Rename(sc, x) = Item(sc.naming[x.name], x.value, x.service)
    BY <1>1, <1>2, Zenon DEF Rename, Item
  <2>2. Rename(sc, Item(x.name, Nil, 1)).name = sc.naming[x.name]
    BY <1>2 DEF Rename, Item
  <2> QED
    BY <1>2, <2>1, <2>2, ItemFields DEF NameIn
<1>3. CASE ~(x.service # 0 /\ x.name \in DOMAIN sc.naming)
  <2>1. Rename(sc, x) = x
    BY <1>3, Zenon DEF Rename
  <2>2. x.service # 0 => Rename(sc, Item(x.name, Nil, 1)).name = x.name
    BY <1>3, Zenon DEF Rename, Item
  <2> QED
    BY <2>1, <2>2, Zenon DEF NameIn
<1> QED
  BY <1>2, <1>3, Zenon

\* Naming keeps the values and the order of items, and those of mappings.
LEMMA CalledList ==
  ASSUME NEW sc, NEW on \in BOOLEAN, NEW s, Listed(s), \A j \in DOMAIN s : AnItem(s[j]),
         NEW c, c = Called(sc, on, s)
  PROVE  /\ Listed(c) /\ DOMAIN c = DOMAIN s /\ Len(c) = Len(s)
         /\ \A j \in DOMAIN s : /\ c[j] = (IF on THEN Rename(sc, s[j]) ELSE s[j])
                                /\ AnItem(c[j]) /\ c[j].value = s[j].value
                                /\ s[j].service # 0 => c[j].name = NameIn(sc, on, s[j].name)
                                /\ s[j].service = 0 => c[j] = s[j]
<1>r. \A x : AnItem(x) =>
        /\ AnItem(Rename(sc, x)) /\ Rename(sc, x).value = x.value
        /\ x.service # 0 => Rename(sc, x).name = NameIn(sc, TRUE, x.name)
        /\ x.service = 0 => Rename(sc, x) = x
  BY RenamedItem, Zenon
<1>1. s = [j \in DOMAIN s |-> s[j]]
  BY ListedAs, Zenon
<1>2. c = [j \in DOMAIN s |-> c[j]] /\ \A j \in DOMAIN s : c[j] = (IF on THEN Rename(sc, s[j]) ELSE s[j])
  <2>1. CASE on = TRUE
    BY <2>1, Zenon DEF Called, Renamed
  <2>2. CASE on = FALSE
    BY <1>1, <2>2, Zenon DEF Called
  <2> QED
    BY <2>1, <2>2, Zenon
<1>3. Listed(c) /\ DOMAIN c = DOMAIN s
  BY <1>2, ListedImage, Zenon
<1>4. Len(c) = Len(s)
  <2>1. DOMAIN s = 1..Len(s) /\ Len(s) \in Nat
    BY ListedAs, Zenon
  <2>2. c = [j \in 1..Len(s) |-> c[j]]
    BY <1>2, <2>1, Zenon
  <2> QED
    BY <2>1, <2>2, ListedFunction, Zenon
<1>5. ASSUME NEW j \in DOMAIN s
      PROVE  /\ AnItem(c[j]) /\ c[j].value = s[j].value
             /\ s[j].service # 0 => c[j].name = NameIn(sc, on, s[j].name)
             /\ s[j].service = 0 => c[j] = s[j]
  <2>1. CASE on = TRUE
    <3>1. c[j] = Rename(sc, s[j]) /\ AnItem(s[j]) /\ NameIn(sc, on, s[j].name) = NameIn(sc, TRUE, s[j].name)
      BY <1>2, <2>1, Zenon
    <3>2. /\ AnItem(Rename(sc, s[j])) /\ Rename(sc, s[j]).value = s[j].value
          /\ s[j].service # 0 => Rename(sc, s[j]).name = NameIn(sc, TRUE, s[j].name)
          /\ s[j].service = 0 => Rename(sc, s[j]) = s[j]
      BY <3>1, <1>r, Zenon
    <3> QED
      BY <3>1, <3>2, Zenon
  <2>2. CASE on = FALSE
    <3>1. c[j] = s[j] /\ AnItem(s[j]) /\ NameIn(sc, on, s[j].name) = s[j].name
      BY <1>2, <2>2, Zenon DEF NameIn
    <3> QED
      BY <3>1, Zenon
  <2> QED
    BY <2>1, <2>2, Zenon
<1> QED
  BY <1>2, <1>3, <1>4, <1>5, Zenon

LEMMA BindingItemNames ==
  ASSUME NEW sc \in Scenarios, NEW on \in BOOLEAN, NEW bs, NEW L, BindingsOf(sc, on, bs, L), NEW j \in DOMAIN L
  PROVE  /\ bs[j].secret = L[j].secret /\ bs[j].service = L[j].service /\ Listed(bs[j].items)
         /\ IsFiniteSet(Keys(L[j].secret))
         /\ \E ks \in Walks(Keys(L[j].secret)) :
              /\ DOMAIN bs[j].items = DOMAIN ks
              /\ \A k \in DOMAIN ks : /\ bs[j].items[k].name = NameIn(sc, on, ks[k])
                                      /\ bs[j].items[k].value = Str(Objects[SecretOf(L[j].secret)][ks[k]])
<1> DEFINE n == L[j].secret
           i == L[j].service
<1>1. i \in DOMAIN sc.services /\ SecretOf(n) \in DOMAIN Objects /\ BindingOf(sc, on, bs[j], L[j])
  BY Zenon DEF BindingsOf
<1>2. i # 0 /\ IsFiniteSet(Keys(n))
  <2>1. DOMAIN sc.services = 1..Len(sc.services) /\ Len(sc.services) \in Nat
    BY AScenario, Zenon
  <2>2. IsFiniteSet(Keys(n))
    BY <1>1, CollectionAssumption, Zenon DEF Keys
  <2> QED
    BY <1>1, <2>1, <2>2
<1>3. PICK ks \in Walks(Keys(n)) :
        bs[j] = [secret |-> n, service |-> i, items |-> Called(sc, on, SecretBindings(n, i, ks).items)]
  BY <1>1, Zenon DEF BindingOf
<1> HIDE DEF n, i
<1> DEFINE raw == [k \in DOMAIN ks |-> Item(ks[k], Str(Objects[SecretOf(n)][ks[k]]), i)]
<1>4. /\ bs[j].secret = n /\ bs[j].service = i /\ bs[j].items = Called(sc, on, raw)
  BY <1>3 DEF SecretBindings
<1>5. Listed(ks) /\ DOMAIN raw = DOMAIN ks
  BY <1>2, WalkOf, Zenon
<1>6. ASSUME NEW k \in DOMAIN ks
      PROVE  raw[k].name = ks[k] /\ raw[k].value = Str(Objects[SecretOf(n)][ks[k]]) /\ raw[k].service # 0 /\ AnItem(raw[k])
  BY <1>2, ItemFields
<1>7. raw = [k \in DOMAIN ks |-> raw[k]]
  BY Zenon
<1> HIDE DEF raw
<1>8. Listed(raw)
  BY <1>5, <1>7, ListedImage, Zenon
<1>9. /\ Listed(Called(sc, on, raw)) /\ DOMAIN Called(sc, on, raw) = DOMAIN ks
      /\ \A k \in DOMAIN ks : /\ Called(sc, on, raw)[k].name = NameIn(sc, on, raw[k].name)
                              /\ Called(sc, on, raw)[k].value = raw[k].value
  BY <1>5, <1>6, <1>8, CalledList
<1>10. ASSUME NEW k \in DOMAIN ks
       PROVE  /\ Called(sc, on, raw)[k].name = NameIn(sc, on, ks[k])
              /\ Called(sc, on, raw)[k].value = Str(Objects[SecretOf(n)][ks[k]])
  BY <1>6, <1>9, Zenon
<1> QED
  BY <1>2, <1>4, <1>9, <1>10, Zenon DEF n, i

LEMMA MapOfKeys ==
  ASSUME NEW K, IsFiniteSet(K), NEW ks \in Walks(K), NEW V, NEW is, Listed(is), DOMAIN is = DOMAIN ks,
         \A j \in DOMAIN ks : is[j].name = ks[j] /\ is[j].value = V[ks[j]]
  PROVE  AsMap(is) = [k \in K |-> V[k]]
<1>1. Range(ks) = K
  BY WalkOf, Zenon
<1>2. NamesOf(is) = K
  BY <1>1 DEF NamesOf, Range
<1>3. \A k \in K : AsMap(is)[k] = V[k]
  <2> TAKE k \in K
  <2>1. PICK j \in DOMAIN is : LastOf(is, j) /\ is[j].name = k
    BY <1>2, AsMapLast, Zenon
  <2> QED
    BY <2>1, AsMapLast
<1>4. AsMap(is) = [k \in K |-> AsMap(is)[k]]
  BY <1>2, AsMapFunction, Zenon
<1> QED
  BY <1>3, <1>4, Zenon

\* The naming template gives no key of a secret that is bound the name of
\* another key of that secret, as upper case would if the keys differ in case
\* alone.
KeysKept ==
  \A sc \in Scenarios : \A l \in BoundOnes(sc.services) : \A k \in Keys(l.secret) :
    FinalName(sc, k) \in Keys(l.secret) => FinalName(sc, k) = k

LEMMA CollectedSecrets ==
  ASSUME Control, Data, Collected
  PROVE  /\ scenario \in Scenarios /\ services = scenario.services
         /\ (scenario.flow = DefaultFlow) \in BOOLEAN
         /\ BindingsOf(scenario, scenario.flow = DefaultFlow, bindings, BoundSecrets(services))
         /\ Final(scenario, seen, items)
         /\ result = bindingSecretName(services, bindings, items)
         /\ Listed(bindings) /\ Range(BoundSecrets(services)) = BoundOnes(services)
         /\ DOMAIN bindings = DOMAIN BoundSecrets(services)
<1>1. scenario \in Scenarios /\ services = scenario.services /\ (scenario.flow = DefaultFlow) \in BOOLEAN
  BY Zenon DEF Control, services
<1>2. /\ BindingsOf(scenario, scenario.flow = DefaultFlow, bindings, BoundSecrets(services))
      /\ Final(scenario, seen, items)
      /\ result = bindingSecretName(services, bindings, items)
  BY <1>1, Zenon DEF Data, BindingStage, ItemStage
<1>3. Listed(services)
  BY <1>1, CollectionAssumption, Zenon DEF Listed
<1>4. Range(BoundSecrets(services)) = BoundOnes(services)
  BY <1>3, BoundOf, Zenon
<1>5. Listed(bindings) /\ Listed(BoundSecrets(services)) /\ Len(bindings) = Len(BoundSecrets(services))
  BY <1>2, Zenon DEF BindingsOf
<1>6. DOMAIN bindings = DOMAIN BoundSecrets(services)
  <2>1. DOMAIN bindings = 1..Len(bindings) /\ DOMAIN BoundSecrets(services) = 1..Len(BoundSecrets(services))
    BY <1>5, ListedAs, Zenon
  <2> QED
    BY <1>5, <2>1, Zenon
<1> QED
  BY <1>1, <1>2, <1>4, <1>5, <1>6, Zenon

\* For any services and any names of keys, as long as KeysKept: a secret that
\* the workload is given as it is has exactly the data that were collected.
THEOREM SharedSecretIsTheData ==
  ASSUME KeysKept
  PROVE  Spec => []SharedIsTheData
<1>1. Control /\ Data => SharedIsTheData
  <2> SUFFICES ASSUME Control, Data, Collected, result.shared
               PROVE  result.data = [k \in Keys(bindings[1].secret) |->
                                       Str(Objects[SecretOf(bindings[1].secret)][k])]
    BY Zenon DEF SharedIsTheData
  <2> DEFINE on == scenario.flow = DefaultFlow
             L == BoundSecrets(services)
             n == L[1].secret
             is == bindings[1].items
  <2>1. /\ scenario \in Scenarios /\ services = scenario.services /\ on \in BOOLEAN
        /\ BindingsOf(scenario, on, bindings, L)
        /\ result = bindingSecretName(services, bindings, items)
        /\ Listed(bindings) /\ Range(L) = BoundOnes(services) /\ DOMAIN bindings = DOMAIN L
    BY CollectedSecrets, Zenon
  <2>2. /\ items = <<>> /\ Len(bindings) = 1 /\ Source(bindings[1])
        /\ result.data = bindingItemMap(bindings, items)
    BY <2>1, Zenon DEF bindingSecretName
  <2>3. 1 \in DOMAIN L
    <3>1. DOMAIN bindings = 1..Len(bindings)
      BY <2>1, ListedAs, Zenon
    <3> QED
      BY <2>1, <2>2, <3>1
  <2>4. result.data = AsMap(is)
    BY <2>1, <2>2, OnlySecret, Zenon
  <2>5. L[1] \in BoundOnes(services)
    BY <2>1, <2>3, Zenon DEF Range
  <2> HIDE DEF on, L
  <2>6. /\ bindings[1].secret = n /\ Listed(is) /\ IsFiniteSet(Keys(n))
        /\ \E ks \in Walks(Keys(n)) :
              /\ DOMAIN is = DOMAIN ks
              /\ \A k \in DOMAIN ks : /\ is[k].name = NameIn(scenario, on, ks[k])
                                      /\ is[k].value = Str(Objects[SecretOf(n)][ks[k]])
    BY <2>1, <2>3, BindingItemNames
  <2>7. PICK ks \in Walks(Keys(n)) :
              /\ DOMAIN is = DOMAIN ks
              /\ \A k \in DOMAIN ks : /\ is[k].name = NameIn(scenario, on, ks[k])
                                      /\ is[k].value = Str(Objects[SecretOf(n)][ks[k]])
    BY <2>6, Zenon
  <2>8. ASSUME NEW k \in DOMAIN ks PROVE is[k].name = ks[k]
    <3>1. is[k].name \in Keys(n)
      BY <2>2, <2>6, <2>7, Zenon DEF Source
    <3>2. FinalName(scenario, ks[k]) = is[k].name
      BY <2>7, FinalNameIn, Zenon DEF on
    <3>3. ks[k] \in Keys(n)
      <4>1. Range(ks) = Keys(n)
        BY <2>6, WalkOf, Zenon
      <4> QED
        BY <4>1, Zenon DEF Range
    <3> QED
      BY <2>1, <2>5, <3>1, <3>2, <3>3, Zenon DEF KeysKept
  <2> DEFINE V == [k \in Keys(n) |-> Str(Objects[SecretOf(n)][k])]
  <2>9. \A k \in DOMAIN ks : is[k].name = ks[k] /\ is[k].value = V[ks[k]]
    <3>1. \A k \in DOMAIN ks : ks[k] \in Keys(n)
      <4>1. Range(ks) = Keys(n)
        BY <2>6, WalkOf, Zenon
      <4> QED
        BY <4>1, Zenon DEF Range
    <3> QED
      BY <2>7, <2>8, <3>1, Zenon
  <2> HIDE DEF V
  <2>10. AsMap(is) = [k \in Keys(n) |-> V[k]]
    BY <2>6, <2>7, <2>9, MapOfKeys
  <2>11. [k \in Keys(n) |-> V[k]] = V
    BY Zenon DEF V
  <2> QED
    BY <2>4, <2>6, <2>10, <2>11, Zenon DEF V
<1> QED
  BY <1>1, CollectionInvariant, PTL

(***************************************************************************)
(* Nothing is left out                                                     *)
(***************************************************************************)

\* No Secret without annotations comes after one with annotations, at which
\* DirectSecretReference returns.
SecretsFirst ==
  \A sc \in Scenarios :
    LET secrets == {i \in DOMAIN sc.services : sc.services[i].secret # None}
        Annotates(i) == HasBindingAnnotation(sc.services[i])
    IN  \A i, j \in secrets : ~Annotates(i) /\ Annotates(j) => i < j

\* Of a value that is found for a named annotation, some item has the name of
\* the annotation, or one that starts with it.  It is not so for an empty map or
\* list, for a key that the object does not have, and for elementType=string
\* with an object, whose item has no name.
ValuesHaveItems ==
  \A sc \in Scenarios : \A i \in DOMAIN sc.services :
    \A n \in DOMAIN Merged(sc.services[i]) \ {NoName} :
      LET an == Merged(sc.services[i])[n]
          v == FinalValue(sc.services, <<i, Build(n, an)>>)
      IN  ~Invalid(an) /\ ~Whole(an) /\ v.status = "found" =>
            \E x \in EntryItems(i, v.of) : StartsWith(x.name, n)

\* The keys of a secret that is bound are in the data, under their new names.
LEMMA KeysCollected ==
  ASSUME Control, Data, Collected, NEW l \in BoundOnes(services)
  PROVE  HasKeys(l.secret)
<1> DEFINE on == scenario.flow = DefaultFlow
           L == BoundSecrets(services)
<1>1. /\ scenario \in Scenarios /\ on \in BOOLEAN /\ BindingsOf(scenario, on, bindings, L)
      /\ result = bindingSecretName(services, bindings, items)
      /\ Listed(bindings) /\ Range(L) = BoundOnes(services) /\ DOMAIN bindings = DOMAIN L
  BY CollectedSecrets, Zenon
<1>2. PICK j \in DOMAIN L : L[j] = l
  BY <1>1, Zenon DEF Range
<1> HIDE DEF on, L
<1> DEFINE is == bindings[j].items
<1>3. /\ IsFiniteSet(Keys(l.secret))
      /\ \E ks \in Walks(Keys(l.secret)) :
           DOMAIN is = DOMAIN ks /\ \A k \in DOMAIN ks : is[k].name = NameIn(scenario, on, ks[k])
  BY <1>1, <1>2, BindingItemNames
<1>4. PICK ks \in Walks(Keys(l.secret)) :
        DOMAIN is = DOMAIN ks /\ \A k \in DOMAIN ks : is[k].name = NameIn(scenario, on, ks[k])
  BY <1>3, Zenon
<1>5. DOMAIN result.data = (UNION {NamesOf(bindings[b].items) : b \in DOMAIN bindings}) \cup NamesOf(items)
  <2>1. result.data = bindingItemMap(bindings, items)
    BY <1>1, Zenon DEF bindingSecretName
  <2> QED
    BY <1>1, <2>1, DataNames, Zenon
<1>6. NamesOf(is) \subseteq DOMAIN result.data
  BY <1>1, <1>2, <1>5, Zenon
<1>7. ASSUME NEW key \in Keys(l.secret) PROVE FinalName(scenario, key) \in DOMAIN result.data
  <2>1. PICK k \in DOMAIN ks : ks[k] = key
    <3>1. Range(ks) = Keys(l.secret)
      BY <1>3, WalkOf, Zenon
    <3> QED
      BY <3>1, Zenon DEF Range
  <2>2. FinalName(scenario, key) = is[k].name
    BY <1>4, <2>1, FinalNameIn, Zenon DEF on
  <2>3. is[k].name \in NamesOf(is)
    BY <1>4, Zenon DEF NamesOf
  <2> QED
    BY <1>6, <2>2, <2>3, Zenon
<1> QED
  BY <1>7, Zenon DEF HasKeys

LEMMA RenamedName ==
  ASSUME NEW sc, NEW is, NEW x \in Range(is), AnItem(x), x.service # 0
  PROVE  NameIn(sc, TRUE, x.name) \in NamesOf(Renamed(sc, is))
<1>1. PICK j \in DOMAIN is : is[j] = x
  BY Zenon DEF Range
<1>2. DOMAIN Renamed(sc, is) = DOMAIN is /\ Renamed(sc, is)[j] = Rename(sc, x)
  BY <1>1, Zenon DEF Renamed
<1>3. Rename(sc, x).name = NameIn(sc, TRUE, x.name)
  BY RenamedItem, Zenon
<1> QED
  BY <1>2, <1>3, Zenon DEF NamesOf

\* The items of a definition are among the items in the end, under their new
\* names.
LEMMA DefinitionKept ==
  ASSUME NEW sc \in Scenarios, NEW copied, NEW is, Final(sc, copied, is),
         NEW p \in Definitions(sc.services), NEW x \in DefinitionItems(sc.services, p, copied)
  PROVE  FinalName(sc, x.name) \in NamesOf(is)
<1>1. AnItem(x) /\ x.service = p[1]
  <2>1. \E y : x = Item(y[1], y[2], p[1])
    BY Zenon DEF DefinitionItems, EntryItems
  <2> QED
    BY <2>1, ItemFields
<1>2. x.service # 0
  <2>1. DOMAIN sc.services = 1..Len(sc.services) /\ Len(sc.services) \in Nat
    BY AScenario, Zenon
  <2>2. p[1] \in DOMAIN sc.services
    BY DefinitionService, Zenon
  <2> QED
    BY <1>1, <2>1, <2>2
<1>3. \A s : Annotated(sc.services, Definitions(sc.services), copied, s) => x \in Range(s)
  BY Zenon DEF Annotated
<1>4. CASE (sc.flow = DefaultFlow) = FALSE
  <2>1. x \in Range(is)
    BY <1>3, <1>4, Zenon DEF Final
  <2>2. FinalName(sc, x.name) = x.name
    BY <1>4, FinalNameIn, Zenon DEF NameIn
  <2> QED
    BY <2>1, <2>2, Zenon DEF Range, NamesOf
<1>5. CASE (sc.flow = DefaultFlow) = TRUE
  <2>1. PICK bs, raw : Built(sc, copied, bs, raw) /\ is = Renamed(sc, raw)
    BY <1>5, Zenon DEF Final
  <2>2. PICK g, m : Gathered(sc.services, copied, g) /\ Joins(raw, g, m)
    BY <2>1, Zenon DEF Built
  <2>3. PICK s, o : Annotated(sc.services, Definitions(sc.services), copied, s) /\ Joins(g, s, o)
    BY <2>2, Zenon DEF Gathered
  <2>4. Range(raw) = Range(g) \cup Range(m)
    BY <2>2, ListedConcat, Zenon
  <2>5. Range(g) = Range(s) \cup Range(o)
    BY <2>3, ListedConcat, Zenon
  <2>6. x \in Range(raw)
    BY <1>3, <2>3, <2>4, <2>5, Zenon
  <2>7. FinalName(sc, x.name) = NameIn(sc, TRUE, x.name)
    BY <1>5, FinalNameIn, Zenon
  <2> QED
    BY <1>1, <1>2, <2>1, <2>6, <2>7, RenamedName, Zenon
<1> QED
  BY <1>4, <1>5, Zenon

\* For any services with SecretsFirst and ValuesHaveItems, and whatever shows up
\* late or fails: nothing that the services say is missing from what is
\* collected.
THEOREM CollectedIsComplete ==
  ASSUME SecretsFirst, ValuesHaveItems
  PROVE  Spec => []Complete
<1>1. Control /\ Data /\ Applied => Complete
  <2> SUFFICES ASSUME Control, Data, Applied, Collected, NEW i \in DOMAIN services
               PROVE  LET s == services[i]
                      IN  /\ s.secret # None /\ ~HasBindingAnnotation(s) => HasKeys(s.secret)
                          /\ s.binding \notin {"unset", ""} => HasKeys(s.binding)
                          /\ \A n \in DOMAIN Merged(s) \ {NoName} :
                               LET an == Merged(s)[n]
                               IN  \/ Whole(an) \/ HasItem(n)
                                   \/ an.optional /\ an.path \notin DOMAIN ValuesIn(s, seen)
    BY Zenon DEF Complete
  <2> DEFINE s == services[i]
  <2>1. scenario \in Scenarios /\ services = scenario.services
    BY CollectedSecrets, Zenon
  <2>2. ASSUME s.secret # None, ~HasBindingAnnotation(s) PROVE HasKeys(s.secret)
    <3>1. i \in DirectSecrets(services)
      BY <2>1, <2>2, Zenon DEF SecretsFirst, DirectSecrets
    <3>2. [service |-> i, secret |-> s.secret] \in BoundOnes(services)
      BY <3>1, Zenon DEF BoundOnes
    <3>3. HasKeys([service |-> i, secret |-> s.secret].secret)
      BY <3>2, KeysCollected, Zenon
    <3> QED
      BY <3>3, Zenon
  <2>3. ASSUME s.binding \notin {"unset", ""} PROVE HasKeys(s.binding)
    <3>1. i \in Provisioned(services)
      BY <2>3, Zenon DEF Provisioned
    <3>2. [service |-> i, secret |-> s.binding] \in BoundOnes(services)
      BY <3>1, Zenon DEF BoundOnes
    <3>3. HasKeys([service |-> i, secret |-> s.binding].secret)
      BY <3>2, KeysCollected, Zenon
    <3> QED
      BY <3>3, Zenon
  <2>4. ASSUME NEW n \in DOMAIN Merged(s) \ {NoName}
        PROVE  LET an == Merged(s)[n]
               IN  \/ Whole(an) \/ HasItem(n)
                   \/ an.optional /\ an.path \notin DOMAIN ValuesIn(s, seen)
    <3> DEFINE an == Merged(s)[n]
               p == <<i, Build(n, an)>>
               v == FinalValue(services, p)
    <3>1. /\ pending = {} /\ ~Malformed(s)
          /\ \A q \in Definitions(services) \ pending :
               Missing(services, q, seen) \/ FinalValue(services, q).status = "found"
      BY Zenon DEF Applied, Collected
    <3>2. ~Invalid(an)
      BY <3>1, Zenon DEF Malformed
    <3>3. p \in Definitions(services)
      BY <3>2 DEF Definitions
    <3>4. p[1] = i /\ p[2].path = an.path /\ p[2].optional = an.optional
      BY Zenon DEF Build
    <3>5. CASE Missing(services, p, seen)
      <4>1. p[2].path \notin DOMAIN ValuesIn(services[p[1]], seen) /\ p[2].optional
        BY <3>5, Zenon DEF Missing
      <4> HIDE DEF p
      <4> QED
        BY <3>4, <4>1, Zenon
    <3>6. CASE ~Missing(services, p, seen) /\ ~Whole(an)
      <4>1. v.status = "found"
        BY <3>1, <3>3, <3>6, Zenon
      <4>2. PICK x \in EntryItems(i, v.of) : StartsWith(x.name, n)
        BY <2>1, <3>2, <3>6, <4>1, Zenon DEF ValuesHaveItems
      <4>3. x \in DefinitionItems(services, p, seen)
        <5> HIDE DEF p
        <5> QED
          BY <3>4, <3>6, <4>1, <4>2, Zenon DEF DefinitionItems
      <4>4. FinalName(scenario, x.name) \in NamesOf(items)
        <5>1. Final(scenario, seen, items)
          BY CollectedSecrets, Zenon
        <5> HIDE DEF p
        <5> QED
          BY <2>1, <3>3, <4>3, <5>1, DefinitionKept, Zenon
      <4>5. FinalName(scenario, x.name) \in DOMAIN result.data
        <5>1. result.data = bindingItemMap(bindings, items) /\ Listed(bindings)
          BY CollectedSecrets DEF bindingSecretName
        <5>2. NamesOf(items) \subseteq DOMAIN bindingItemMap(bindings, items)
          BY <5>1, DataNames, Zenon
        <5> QED
          BY <4>4, <5>1, <5>2, Zenon
      <4>6. x.name \in DOMAIN scenario.naming \/ FinalName(scenario, x.name) = x.name
        BY Zenon DEF FinalName, Rename, Item
      <4>7. HasItem(n)
        BY <4>2, <4>5, <4>6, Zenon DEF HasItem
      <4> QED
        BY <4>7, Zenon
    <3> QED
      BY <3>5, <3>6, Zenon
  <2> QED
    BY <2>2, <2>3, <2>4, Zenon
<1> QED
  BY <1>1, CollectionInvariant, PTL

(***************************************************************************)
(* The same data every time                                                *)
(***************************************************************************)

\* The list s has an item for each member of S, in the order q: with the names
\* nm and the values vl, and nothing after what must come Before it.
ListsItems(S, Before, nm, vl, q, s) ==
  /\ Listed(q) /\ Range(q) = S /\ Listed(s) /\ DOMAIN s = DOMAIN q
  /\ \A j \in DOMAIN q : s[j].name = nm[q[j]] /\ s[j].value = vl[q[j]]
  /\ \A j, k \in DOMAIN q : j < k => <<q[k], q[j]>> \notin Before

\* Members of S with one name are ordered by Before, or have one value.
Settles(S, Before, nm, vl) ==
  \A x, y \in S : nm[x] = nm[y] => <<x, y>> \in Before \/ <<y, x>> \in Before \/ vl[x] = vl[y]

\* Two walks that differ only in the order of what Before leaves open give the
\* same map, if Before settles what counts.
LEMMA WalksAgree ==
  ASSUME NEW S, NEW Before, NEW nm, NEW vl, NEW q, NEW r, NEW s, NEW t,
         ListsItems(S, Before, nm, vl, q, s), ListsItems(S, Before, nm, vl, r, t),
         Settles(S, Before, nm, vl)
  PROVE  AsMap(s) = AsMap(t)
<1>a. /\ Listed(q) /\ Range(q) = S /\ Listed(s) /\ DOMAIN s = DOMAIN q
      /\ \A j \in DOMAIN q : s[j].name = nm[q[j]] /\ s[j].value = vl[q[j]]
      /\ \A j, k \in DOMAIN q : j < k => <<q[k], q[j]>> \notin Before
  BY Zenon DEF ListsItems
<1>b. /\ Listed(r) /\ Range(r) = S /\ Listed(t) /\ DOMAIN t = DOMAIN r
      /\ \A j \in DOMAIN r : t[j].name = nm[r[j]] /\ t[j].value = vl[r[j]]
      /\ \A j, k \in DOMAIN r : j < k => <<r[k], r[j]>> \notin Before
  BY Zenon DEF ListsItems
<1>0. DOMAIN q \subseteq Nat /\ DOMAIN r \subseteq Nat
  <2>1. DOMAIN q = 1..Len(q) /\ DOMAIN r = 1..Len(r)
    BY <1>a, <1>b, ListedAs, Zenon
  <2> QED
    BY <2>1
<1>1. NamesOf(s) = {nm[x] : x \in S} /\ NamesOf(t) = {nm[x] : x \in S}
  <2>1. NamesOf(s) = {nm[q[j]] : j \in DOMAIN q} /\ NamesOf(t) = {nm[r[j]] : j \in DOMAIN r}
    BY <1>a, <1>b DEF NamesOf
  <2>2. \A w : {nm[w[j]] : j \in DOMAIN w} = {nm[x] : x \in Range(w)}
    BY Zenon DEF Range
  <2> QED
    BY <1>a, <1>b, <2>1, <2>2, Zenon
<1>2. ASSUME NEW j \in DOMAIN s, NEW k \in DOMAIN t, LastOf(s, j), LastOf(t, k), s[j].name = t[k].name
      PROVE  s[j].value = t[k].value
  <2> DEFINE x == q[j]
             y == r[k]
  <2>1. x \in S /\ y \in S /\ nm[x] = nm[y]
    BY <1>a, <1>b, <1>2, Zenon DEF Range
  <2>2. PICK i \in DOMAIN q : q[i] = y
    BY <1>a, <1>b, <2>1, Zenon DEF Range
  <2>3. PICK m \in DOMAIN r : r[m] = x
    BY <1>a, <1>b, <2>1, Zenon DEF Range
  <2>4. i =< j /\ m =< k
    BY <1>a, <1>b, <1>2, <2>1, <2>2, <2>3, Zenon DEF LastOf
  <2>5. <<x, y>> \notin Before \/ x = y
    BY <1>a, <1>0, <1>2, <2>2, <2>4
  <2>6. <<y, x>> \notin Before \/ x = y
    BY <1>b, <1>0, <1>2, <2>3, <2>4
  <2>7. vl[x] = vl[y]
    BY <2>1, <2>5, <2>6, Zenon DEF Settles
  <2> QED
    BY <1>a, <1>b, <1>2, <2>7, Zenon
<1> QED
  BY <1>a, <1>b, <1>1, <1>2, SameMap, Zenon

\* Of the items that some annotation of a service gives, or some resource that
\* it owns, or some secret that is bound, no two get the same name in the end
\* but different values.
OneValueEach ==
  \A sc \in Scenarios :
    LET ss == sc.services
        found == {p \in Definitions(ss) : FinalValue(ss, p).status = "found"}
        Agree(x, y) == FinalName(sc, x.name) = FinalName(sc, y.name) => x.value = y.value
    IN  /\ \A p, q \in found : p[1] = q[1] =>
             \A x \in EntryItems(p[1], FinalValue(ss, p).of), y \in EntryItems(q[1], FinalValue(ss, q).of) :
               Agree(x, y)
        /\ \A x, y \in OwnedItems(ss) : x.item.service = y.item.service /\ x.of = y.of => Agree(x.item, y.item)
        /\ \A l \in BoundOnes(ss) : \A j, k \in Keys(l.secret) :
             FinalName(sc, j) = FinalName(sc, k) =>
               Objects[SecretOf(l.secret)][j] = Objects[SecretOf(l.secret)][k]

LEMMA OneValues ==
  ASSUME OneValueEach, NEW sc \in Scenarios
  PROVE  /\ \A p, q \in Definitions(sc.services) :
              FinalValue(sc.services, p).status = "found" /\ FinalValue(sc.services, q).status = "found"
                /\ p[1] = q[1] =>
              \A x \in EntryItems(p[1], FinalValue(sc.services, p).of),
                 y \in EntryItems(q[1], FinalValue(sc.services, q).of) :
                FinalName(sc, x.name) = FinalName(sc, y.name) => x.value = y.value
         /\ \A x, y \in OwnedItems(sc.services) :
              x.item.service = y.item.service /\ x.of = y.of
                /\ FinalName(sc, x.item.name) = FinalName(sc, y.item.name) => x.item.value = y.item.value
         /\ \A l \in BoundOnes(sc.services) : \A j, k \in Keys(l.secret) :
              FinalName(sc, j) = FinalName(sc, k) =>
                Objects[SecretOf(l.secret)][j] = Objects[SecretOf(l.secret)][k]
BY DEF OneValueEach

\* Items are renamed in the default flow alone.
MayCall(sc, on) == on \in BOOLEAN /\ (on => sc.flow = DefaultFlow)

LEMMA CalledWhen ==
  \A sc : /\ MayCall(sc, FALSE) /\ MayCall(sc, sc.flow = DefaultFlow)
          /\ sc.flow = DefaultFlow => MayCall(sc, TRUE)
BY Zenon DEF MayCall

\* Names that are the same before or after Naming are the same in the end.
LEMMA SameInTheEnd ==
  ASSUME NEW sc, NEW on, MayCall(sc, on), NEW m, NEW n,
         NameIn(sc, on, m) = NameIn(sc, on, n)
  PROVE  FinalName(sc, m) = FinalName(sc, n)
<1>1. CASE on = TRUE
  <2>1. (sc.flow = DefaultFlow) = TRUE /\ NameIn(sc, TRUE, m) = NameIn(sc, TRUE, n)
    BY <1>1, Zenon DEF MayCall
  <2> QED
    BY <2>1, FinalNameIn, Zenon
<1>2. CASE on = FALSE
  BY <1>2, Zenon DEF NameIn
<1> QED
  BY <1>1, <1>2, Zenon DEF MayCall

LEMMA AnnotatedItems ==
  ASSUME NEW sc \in Scenarios, NEW copied, NEW s, Annotated(sc.services, Definitions(sc.services), copied, s),
         NEW j \in DOMAIN s
  PROVE  /\ AnItem(s[j]) /\ s[j].service \in Nat \ {0}
         /\ \E p \in Definitions(sc.services) :
              /\ FinalValue(sc.services, p).status = "found" /\ s[j].service = p[1]
              /\ s[j] \in EntryItems(p[1], FinalValue(sc.services, p).of)
<1>1. PICK p \in Definitions(sc.services) : s[j] \in DefinitionItems(sc.services, p, copied)
  BY Zenon DEF Annotated, Range
<1>2. s[j] \in EntryItems(p[1], FinalValue(sc.services, p).of) /\ FinalValue(sc.services, p).status = "found"
  BY <1>1, Zenon DEF DefinitionItems
<1>3. AnItem(s[j]) /\ s[j].service = p[1]
  <2>1. \E y : s[j] = Item(y[1], y[2], p[1])
    BY <1>2, Zenon DEF EntryItems
  <2> QED
    BY <2>1, ItemFields
<1>4. p[1] \in Nat \ {0}
  <2>1. DOMAIN sc.services = 1..Len(sc.services) /\ Len(sc.services) \in Nat
    BY AScenario, Zenon
  <2>2. p[1] \in DOMAIN sc.services
    BY DefinitionService, Zenon
  <2> QED
    BY <2>1, <2>2
<1> QED
  BY <1>2, <1>3, <1>4, Zenon

LEMMA AnnotatedAgree ==
  ASSUME OneValueEach, NEW sc \in Scenarios, NEW on, MayCall(sc, on), NEW copied,
         NEW s, NEW t, Annotated(sc.services, Definitions(sc.services), copied, s),
         Annotated(sc.services, Definitions(sc.services), copied, t)
  PROVE  AsMap(Called(sc, on, s)) = AsMap(Called(sc, on, t))
<1> DEFINE ss == sc.services
           S == Range(s)
           Before == {e \in S \X S : e[1].service < e[2].service}
           nm == [x \in S |-> NameIn(sc, on, x.name)]
           vl == [x \in S |-> x.value]
           c == Called(sc, on, s)
           d == Called(sc, on, t)
<1>on. on \in BOOLEAN
  BY Zenon DEF MayCall
<1>1. Listed(s) /\ Listed(t) /\ Range(t) = S
  BY Zenon DEF Annotated
<1>2. /\ \A j \in DOMAIN s : AnItem(s[j]) /\ s[j].service # 0 /\ s[j].service \in Nat
      /\ \A j \in DOMAIN t : AnItem(t[j]) /\ t[j].service # 0 /\ t[j].service \in Nat
  <2>1. /\ \A j \in DOMAIN s : AnItem(s[j]) /\ s[j].service \in Nat \ {0}
        /\ \A j \in DOMAIN t : AnItem(t[j]) /\ t[j].service \in Nat \ {0}
    BY AnnotatedItems, Zenon
  <2> QED
    BY <2>1, Zenon
<1>3. /\ Listed(c) /\ DOMAIN c = DOMAIN s
      /\ \A j \in DOMAIN s : c[j].name = NameIn(sc, on, s[j].name) /\ c[j].value = s[j].value
  BY <1>on, <1>1, <1>2, CalledList
<1>4. /\ Listed(d) /\ DOMAIN d = DOMAIN t
      /\ \A j \in DOMAIN t : d[j].name = NameIn(sc, on, t[j].name) /\ d[j].value = t[j].value
  BY <1>on, <1>1, <1>2, CalledList
<1>5. (\A j \in DOMAIN s : s[j] \in S) /\ (\A j \in DOMAIN t : t[j] \in S)
  BY <1>1, Zenon DEF Range
<1>6. /\ \A j, k \in DOMAIN s : j < k => <<s[k], s[j]>> \notin Before
      /\ \A j, k \in DOMAIN t : j < k => <<t[k], t[j]>> \notin Before
  <2>1. /\ \A j, k \in DOMAIN s : j < k => s[j].service =< s[k].service
        /\ \A j, k \in DOMAIN t : j < k => t[j].service =< t[k].service
    BY Zenon DEF Annotated
  <2>2. \A x, y : <<x, y>> \in Before => x.service < y.service
    BY Zenon
  <2> HIDE DEF Before
  <2> QED
    BY <1>2, <2>1, <2>2
<1>7. ASSUME NEW x \in S, NEW y \in S, nm[x] = nm[y]
      PROVE  <<x, y>> \in Before \/ <<y, x>> \in Before \/ vl[x] = vl[y]
  <2>1. PICK j \in DOMAIN s : s[j] = x
    BY Zenon DEF Range
  <2>2. PICK k \in DOMAIN s : s[k] = y
    BY Zenon DEF Range
  <2>3. PICK p \in Definitions(ss) : /\ FinalValue(ss, p).status = "found" /\ x.service = p[1]
                                     /\ x \in EntryItems(p[1], FinalValue(ss, p).of)
    BY <2>1, AnnotatedItems, Zenon
  <2>4. PICK q \in Definitions(ss) : /\ FinalValue(ss, q).status = "found" /\ y.service = q[1]
                                     /\ y \in EntryItems(q[1], FinalValue(ss, q).of)
    BY <2>2, AnnotatedItems, Zenon
  <2>5. FinalName(sc, x.name) = FinalName(sc, y.name)
    BY <1>7, SameInTheEnd, Zenon
  <2>6. CASE x.service = y.service
    <3>1. x.value = y.value
      BY <2>3, <2>4, <2>5, <2>6, OneValues, Zenon
    <3> QED
      BY <3>1, Zenon
  <2>7. CASE x.service < y.service
    BY <2>7, Zenon
  <2>8. CASE y.service < x.service
    BY <2>8, Zenon
  <2>9. x.service \in Nat /\ y.service \in Nat
    BY <1>2, <2>1, <2>2, Zenon
  <2> QED
    BY <2>6, <2>7, <2>8, <2>9
<1>8. /\ \A j \in DOMAIN s : c[j].name = nm[s[j]] /\ c[j].value = vl[s[j]]
      /\ \A j \in DOMAIN t : d[j].name = nm[t[j]] /\ d[j].value = vl[t[j]]
  BY <1>3, <1>4, <1>5, Zenon
<1> HIDE DEF S, Before, nm, vl, c, d
<1>9. Range(s) = S
  BY Zenon DEF S
<1>10. ListsItems(S, Before, nm, vl, s, c) /\ ListsItems(S, Before, nm, vl, t, d)
  BY <1>1, <1>3, <1>4, <1>6, <1>8, <1>9, Zenon DEF ListsItems
<1>11. Settles(S, Before, nm, vl)
  BY <1>7, Zenon DEF Settles
<1>12. AsMap(c) = AsMap(d)
  BY <1>10, <1>11, WalksAgree
<1> QED
  BY <1>12, Zenon DEF c, d

LEMMA OwnedItemIs ==
  ASSUME NEW sc \in Scenarios, NEW x \in OwnedItems(sc.services)
  PROVE  AnItem(x.item) /\ x.item.service \in Nat \ {0} /\ x.of \in Nat
<1>1. x.item.service \in DOMAIN sc.services /\ x.of \in DOMAIN sc.services[x.item.service].owned
  BY OwnedItemOf, Zenon
<1>2. /\ DOMAIN sc.services = 1..Len(sc.services) /\ Len(sc.services) \in Nat
      /\ \A i \in DOMAIN sc.services : DOMAIN sc.services[i].owned = 1..Len(sc.services[i].owned)
  BY AScenario, Zenon
<1>3. \E o, n, v, i : x = [of |-> o, item |-> Item(n, v, i)]
  BY DEF OwnedItems
<1> QED
  BY <1>1, <1>2, <1>3, ItemFields

LEMMA OwnedAgree ==
  ASSUME OneValueEach, NEW sc \in Scenarios, NEW on, MayCall(sc, on),
         NEW s, NEW t, OwnedList(sc.services, s), OwnedList(sc.services, t)
  PROVE  /\ AsMap(Called(sc, on, s)) = AsMap(Called(sc, on, t))
         /\ Listed(s) /\ \A j \in DOMAIN s : AnItem(s[j])
<1> DEFINE S == OwnedItems(sc.services)
           Before == {e \in S \X S : \/ e[1].item.service < e[2].item.service
                                     \/ e[1].item.service = e[2].item.service /\ e[1].of < e[2].of}
           nm == [x \in S |-> NameIn(sc, on, x.item.name)]
           vl == [x \in S |-> x.item.value]
           c == Called(sc, on, s)
           d == Called(sc, on, t)
<1>on. on \in BOOLEAN
  BY Zenon DEF MayCall
<1>0. IsFiniteSet(S)
  BY AScenario, Zenon
<1>of. ASSUME NEW w, OwnedList(sc.services, w), NEW e, e = Called(sc, on, w)
       PROVE  /\ \E q : ListsItems(S, Before, nm, vl, q, e)
              /\ Listed(w) /\ \A j \in DOMAIN w : AnItem(w[j])
  <2>1. PICK q \in OwnedWalks(sc.services) : w = [j \in DOMAIN q |-> q[j].item]
    BY <1>of, Zenon DEF OwnedList
  <2>2. /\ q \in Walks(S)
        /\ \A j, k \in DOMAIN q : j < k =>
             \/ q[j].item.service < q[k].item.service
             \/ q[j].item.service = q[k].item.service /\ q[j].of <= q[k].of
    BY Zenon DEF OwnedWalks
  <2>3. Listed(q) /\ Range(q) = S
    BY <1>0, <2>2, WalkOf, Zenon
  <2>4. \A j \in DOMAIN q : q[j] \in S
    BY <2>3, Zenon DEF Range
  <2>5. \A j \in DOMAIN q : AnItem(q[j].item) /\ q[j].item.service \in Nat \ {0} /\ q[j].of \in Nat
    BY <2>4, OwnedItemIs, Zenon
  <2>6. Listed(w) /\ DOMAIN w = DOMAIN q /\ \A j \in DOMAIN q : w[j] = q[j].item
    BY <2>1, <2>3, ListedImage, Zenon
  <2>7. /\ Listed(e) /\ DOMAIN e = DOMAIN q
        /\ \A j \in DOMAIN q : e[j].name = NameIn(sc, on, q[j].item.name) /\ e[j].value = q[j].item.value
    BY <1>on, <1>of, <2>5, <2>6, CalledList
  <2>8. \A j \in DOMAIN q : e[j].name = nm[q[j]] /\ e[j].value = vl[q[j]]
    BY <2>4, <2>7, Zenon
  <2>9. \A j, k \in DOMAIN q : j < k => <<q[k], q[j]>> \notin Before
    <3>1. \A x, y : <<x, y>> \in Before =>
            x.item.service < y.item.service \/ (x.item.service = y.item.service /\ x.of < y.of)
      BY Zenon
    <3> HIDE DEF Before
    <3> QED
      BY <2>2, <2>5, <3>1
  <2> HIDE DEF S, Before, nm, vl
  <2>10. ListsItems(S, Before, nm, vl, q, e)
    <3>1. Listed(q) /\ Range(q) = S /\ Listed(e) /\ DOMAIN e = DOMAIN q
      BY <2>3, <2>7, ZenonT(30)
    <3> QED
      BY <2>8, <2>9, <3>1, ZenonT(30) DEF ListsItems
  <2> QED
    BY <2>5, <2>6, <2>10, Zenon
<1>1. \A x, y \in S : nm[x] = nm[y] => <<x, y>> \in Before \/ <<y, x>> \in Before \/ vl[x] = vl[y]
  <2> SUFFICES ASSUME NEW x \in S, NEW y \in S, nm[x] = nm[y]
               PROVE  <<x, y>> \in Before \/ <<y, x>> \in Before \/ vl[x] = vl[y]
    BY Zenon
  <2>1. FinalName(sc, x.item.name) = FinalName(sc, y.item.name)
    BY SameInTheEnd, Zenon
  <2>2. /\ x.item.service \in Nat /\ x.of \in Nat
        /\ y.item.service \in Nat /\ y.of \in Nat
    BY OwnedItemIs, Zenon
  <2>3. CASE x.item.service = y.item.service /\ x.of = y.of
    <3>1. x.item.value = y.item.value
      BY <2>1, <2>3, OneValues, Zenon
    <3> QED
      BY <3>1, Zenon
  <2>4. CASE x.item.service < y.item.service \/ (x.item.service = y.item.service /\ x.of < y.of)
    BY <2>4, Zenon
  <2>5. CASE y.item.service < x.item.service \/ (x.item.service = y.item.service /\ y.of < x.of)
    BY <2>5, Zenon
  <2> QED
    BY <2>2, <2>3, <2>4, <2>5
<1> HIDE DEF S, Before, nm, vl
<1>2. Settles(S, Before, nm, vl)
  BY <1>1, Zenon DEF Settles
<1>3. PICK q : ListsItems(S, Before, nm, vl, q, c)
  BY <1>of, Zenon
<1>4. PICK r : ListsItems(S, Before, nm, vl, r, d)
  BY <1>of, Zenon
<1> HIDE DEF c, d
<1>5. AsMap(c) = AsMap(d)
  BY <1>2, <1>3, <1>4, WalksAgree
<1>6. Listed(s) /\ \A j \in DOMAIN s : AnItem(s[j])
  BY <1>of, Zenon
<1> QED
  BY <1>5, <1>6, Zenon DEF c, d

SameItems(s, t) == AsMap(s) = AsMap(t)

LEMMA MappedAgree ==
  ASSUME NEW sc \in Scenarios, NEW on \in BOOLEAN, NEW copied, NEW data, NEW s, NEW t,
         MappedList(sc, copied, data, s), MappedList(sc, copied, data, t)
  PROVE  /\ SameItems(Called(sc, on, s), Called(sc, on, t))
         /\ Listed(s) /\ \A j \in DOMAIN s : AnItem(s[j])
<1> DEFINE S == DOMAIN sc.mappings
           nm == [n \in S |-> n]
           vl == [n \in S |-> MappedItem(sc, copied, data, n).value]
           c == Called(sc, on, s)
           d == Called(sc, on, t)
<1>0. IsFiniteSet(S)
  BY AScenario, Zenon
<1>of. ASSUME NEW w, MappedList(sc, copied, data, w), NEW e, e = Called(sc, on, w)
       PROVE  /\ \E q : ListsItems(S, {}, nm, vl, q, e)
              /\ Listed(w) /\ \A j \in DOMAIN w : AnItem(w[j])
  <2>1. PICK q \in Walks(S) : w = [j \in DOMAIN q |-> MappedItem(sc, copied, data, q[j])]
    BY <1>of, Zenon DEF MappedList
  <2>2. Listed(q) /\ Range(q) = S
    BY <1>0, WalkOf, Zenon
  <2>3. \A j \in DOMAIN q : q[j] \in S
    BY <2>2, Zenon DEF Range
  <2>4. Listed(w) /\ DOMAIN w = DOMAIN q
    BY <2>1, <2>2, ListedImage, Zenon
  <2>5. \A j \in DOMAIN q : /\ w[j] = MappedItem(sc, copied, data, q[j]) /\ AnItem(w[j])
                            /\ w[j].service = 0 /\ w[j].name = q[j]
    <3>1. \A n : \E v : MappedItem(sc, copied, data, n) = Item(n, v, 0)
      BY Zenon DEF MappedItem
    <3> QED
      BY <2>1, <3>1, ItemFields
  <2>6. Listed(e) /\ DOMAIN e = DOMAIN w /\ \A j \in DOMAIN w : e[j] = w[j]
    BY <1>of, <2>4, <2>5, CalledList
  <2>7. \A j \in DOMAIN q : e[j].name = nm[q[j]] /\ e[j].value = vl[q[j]]
    BY <2>3, <2>4, <2>5, <2>6, Zenon
  <2> HIDE DEF S, nm, vl
  <2>8. ListsItems(S, {}, nm, vl, q, e)
    BY <2>2, <2>4, <2>6, <2>7, Zenon DEF ListsItems
  <2> QED
    BY <2>4, <2>5, <2>8, Zenon
<1>1. Settles(S, {}, nm, vl)
  BY Zenon DEF Settles
<1> HIDE DEF S, nm, vl
<1>2. PICK q : ListsItems(S, {}, nm, vl, q, c)
  BY <1>of, Zenon
<1>3. PICK r : ListsItems(S, {}, nm, vl, r, d)
  BY <1>of, Zenon
<1> HIDE DEF c, d
<1>4. AsMap(c) = AsMap(d)
  BY <1>1, <1>2, <1>3, WalksAgree
<1>5. Listed(s) /\ \A j \in DOMAIN s : AnItem(s[j])
  BY <1>of, Zenon
<1> QED
  BY <1>4, <1>5, Zenon DEF c, d, SameItems

\* Bindings of the same secrets, whose items are the same map.
SameSecrets(bs, cs) ==
  /\ Listed(bs) /\ Len(bs) = Len(cs) /\ DOMAIN bs = DOMAIN cs
  /\ \A j \in DOMAIN bs : /\ AsMap(bs[j].items) = AsMap(cs[j].items)
                          /\ bs[j].secret = cs[j].secret /\ bs[j].service = cs[j].service

LEMMA SecretsAgree ==
  ASSUME OneValueEach, NEW sc \in Scenarios, NEW on, MayCall(sc, on), NEW bs, NEW cs,
         BindingsOf(sc, on, bs, BoundSecrets(sc.services)), BindingsOf(sc, on, cs, BoundSecrets(sc.services))
  PROVE  SameSecrets(bs, cs)
<1> DEFINE L == BoundSecrets(sc.services)
<1>l. L = BoundSecrets(sc.services) /\ BindingsOf(sc, on, bs, L) /\ BindingsOf(sc, on, cs, L)
  BY Zenon
<1> HIDE DEF L
<1>on. on \in BOOLEAN
  BY Zenon DEF MayCall
<1>1. Listed(bs) /\ Listed(cs) /\ Listed(L) /\ Len(bs) = Len(L) /\ Len(cs) = Len(L)
  BY <1>l, Zenon DEF BindingsOf
<1>2. DOMAIN bs = DOMAIN L /\ DOMAIN cs = DOMAIN L
  <2>1. DOMAIN bs = 1..Len(bs) /\ DOMAIN cs = 1..Len(cs) /\ DOMAIN L = 1..Len(L)
    BY <1>1, ListedAs, Zenon
  <2> QED
    BY <1>1, <2>1, Zenon
<1>3. ASSUME NEW j \in DOMAIN L
      PROVE  /\ AsMap(bs[j].items) = AsMap(cs[j].items)
             /\ bs[j].secret = cs[j].secret /\ bs[j].service = cs[j].service
  <2> DEFINE n == L[j].secret
             S == Keys(n)
             nm == [k \in S |-> NameIn(sc, on, k)]
             vl == [k \in S |-> Str(Objects[SecretOf(n)][k])]
  <2>of. ASSUME NEW w, BindingsOf(sc, on, w, L)
         PROVE  /\ \E q : ListsItems(S, {}, nm, vl, q, w[j].items)
                /\ w[j].secret = n /\ w[j].service = L[j].service
    <3>1. /\ w[j].secret = n /\ w[j].service = L[j].service /\ Listed(w[j].items) /\ IsFiniteSet(S)
          /\ \E ks \in Walks(S) :
               /\ DOMAIN w[j].items = DOMAIN ks
               /\ \A k \in DOMAIN ks : /\ w[j].items[k].name = NameIn(sc, on, ks[k])
                                       /\ w[j].items[k].value = Str(Objects[SecretOf(n)][ks[k]])
      BY <1>on, <2>of, BindingItemNames
    <3>2. PICK ks \in Walks(S) :
               /\ DOMAIN w[j].items = DOMAIN ks
               /\ \A k \in DOMAIN ks : /\ w[j].items[k].name = NameIn(sc, on, ks[k])
                                       /\ w[j].items[k].value = Str(Objects[SecretOf(n)][ks[k]])
      BY <3>1, Zenon
    <3>3. Listed(ks) /\ Range(ks) = S
      BY <3>1, WalkOf, Zenon
    <3>4. \A k \in DOMAIN ks : ks[k] \in S
      BY <3>3, Zenon DEF Range
    <3>5. \A k \in DOMAIN ks : w[j].items[k].name = nm[ks[k]] /\ w[j].items[k].value = vl[ks[k]]
      <4>1. \A x \in S : nm[x] = NameIn(sc, on, x) /\ vl[x] = Str(Objects[SecretOf(n)][x])
        BY Zenon
      <4> HIDE DEF S, nm, vl
      <4> QED
        BY <3>2, <3>4, <4>1, Zenon
    <3> HIDE DEF S, nm, vl
    <3>6. ListsItems(S, {}, nm, vl, ks, w[j].items)
      BY <3>1, <3>2, <3>3, <3>5, Zenon DEF ListsItems
    <3> QED
      BY <3>1, <3>6, Zenon
  <2>1. ASSUME NEW k \in S, NEW m \in S, nm[k] = nm[m] PROVE vl[k] = vl[m]
    <3>1. FinalName(sc, k) = FinalName(sc, m)
      BY <2>1, SameInTheEnd, Zenon
    <3>2. L[j] \in BoundOnes(sc.services)
      <4>1. Range(L) = BoundOnes(sc.services)
        BY <1>l, BoundOf, CollectionAssumption, Zenon DEF Listed
      <4> QED
        BY <4>1, Zenon DEF Range
    <3>3. Objects[SecretOf(n)][k] = Objects[SecretOf(n)][m]
      BY <3>1, <3>2, OneValues, Zenon
    <3> QED
      BY <3>3, Zenon
  <2> HIDE DEF S, nm, vl
  <2>2. Settles(S, {}, nm, vl)
    BY <2>1, Zenon DEF Settles
  <2>3. PICK q : ListsItems(S, {}, nm, vl, q, bs[j].items)
    BY <1>l, <2>of, Zenon
  <2>4. PICK r : ListsItems(S, {}, nm, vl, r, cs[j].items)
    BY <1>l, <2>of, Zenon
  <2>5. AsMap(bs[j].items) = AsMap(cs[j].items)
    BY <2>2, <2>3, <2>4, WalksAgree
  <2> QED
    BY <1>l, <2>of, <2>5, Zenon
<1> QED
  BY <1>1, <1>2, <1>3, Zenon DEF SameSecrets

\* The data depend on the maps of the secrets and of the items alone.
LEMMA DataAgree ==
  ASSUME NEW bs, NEW cs, SameSecrets(bs, cs), NEW is, NEW js, AsMap(is) = AsMap(js)
  PROVE  bindingItemMap(bs, is) = bindingItemMap(cs, js)
<1>1. [b \in DOMAIN bs |-> AsMap(bs[b].items)] = [b \in DOMAIN cs |-> AsMap(cs[b].items)]
  BY Zenon DEF SameSecrets
<1> QED
  BY <1>1, Zenon DEF bindingItemMap

LEMMA CalledJoins ==
  ASSUME NEW sc, NEW on \in BOOLEAN, NEW s, NEW t, NEW u, Joins(u, s, t),
         \A j \in DOMAIN s : AnItem(s[j]), \A j \in DOMAIN t : AnItem(t[j])
  PROVE  /\ Joins(Called(sc, on, u), Called(sc, on, s), Called(sc, on, t))
         /\ Listed(u) /\ \A j \in DOMAIN u : AnItem(u[j])
<1> DEFINE C(x) == IF on THEN Rename(sc, x) ELSE x
           cs == Called(sc, on, s)
           ct == Called(sc, on, t)
           cu == Called(sc, on, u)
           w == cs \o ct
<1>1. /\ Listed(u) /\ Len(u) = Len(s) + Len(t) /\ DOMAIN u = 1..(Len(s) + Len(t))
      /\ \A i \in DOMAIN s : i \in DOMAIN u /\ u[i] = s[i]
      /\ \A i \in DOMAIN t : Len(s) + i \in DOMAIN u /\ u[Len(s) + i] = t[i]
      /\ \A j \in DOMAIN u : j \in DOMAIN s \/ (j > Len(s) /\ \E i \in DOMAIN t : j = Len(s) + i)
  BY ListedConcat, SMT
<1>2. \A j \in DOMAIN u : AnItem(u[j])
  BY <1>1, Zenon
<1>3. Listed(s) /\ Listed(t)
  BY Zenon DEF Joins
<1>4. Listed(cs) /\ DOMAIN cs = DOMAIN s /\ Len(cs) = Len(s) /\ \A j \in DOMAIN s : cs[j] = C(s[j])
  BY <1>3, CalledList
<1>5. Listed(ct) /\ DOMAIN ct = DOMAIN t /\ Len(ct) = Len(t) /\ \A j \in DOMAIN t : ct[j] = C(t[j])
  BY <1>3, CalledList
<1>6. Listed(cu) /\ DOMAIN cu = DOMAIN u /\ Len(cu) = Len(u) /\ \A j \in DOMAIN u : cu[j] = C(u[j])
  BY <1>1, <1>2, CalledList
<1>7. Joins(w, cs, ct)
  BY <1>4, <1>5, Zenon DEF Joins
<1> HIDE DEF w, cs, ct, cu, C
<1>8. /\ Listed(w) /\ Len(w) = Len(cs) + Len(ct) /\ DOMAIN w = 1..(Len(cs) + Len(ct))
      /\ \A i \in DOMAIN cs : i \in DOMAIN w /\ w[i] = cs[i]
      /\ \A i \in DOMAIN ct : Len(cs) + i \in DOMAIN w /\ w[Len(cs) + i] = ct[i]
  BY <1>7, ListedConcat, SMT
<1>9. DOMAIN w = DOMAIN u
  BY <1>1, <1>4, <1>5, <1>8, Zenon
<1>10. ASSUME NEW j \in DOMAIN u PROVE w[j] = cu[j]
  <2>1. CASE j \in DOMAIN s
    BY <1>1, <1>4, <1>6, <1>8, <2>1
  <2>2. ASSUME NEW i \in DOMAIN t, j = Len(s) + i PROVE w[j] = cu[j]
    <3>1. w[j] = ct[i] /\ u[j] = t[i]
      BY <1>1, <1>4, <1>5, <1>8, <2>2, Zenon
    <3> QED
      BY <1>5, <1>6, <2>2, <3>1, Zenon
  <2> QED
    BY <1>1, <2>1, <2>2, ZenonT(30)
<1>11. w = cu
  <2>1. w = [j \in DOMAIN u |-> w[j]] /\ cu = [j \in DOMAIN u |-> cu[j]]
    <3>1. \A v : Listed(v) => v = [j \in DOMAIN v |-> v[j]]
      BY ListedAs, Zenon
    <3> QED
      BY <1>6, <1>8, <1>9, <3>1, Zenon
  <2> QED
    BY <1>10, <2>1, SameFunction, Zenon
<1>12. Joins(cu, cs, ct)
  BY <1>7, <1>11, Zenon
<1> QED
  BY <1>1, <1>2, <1>12, Zenon DEF cu, cs, ct

LEMMA GatheredAgree ==
  ASSUME OneValueEach, NEW sc \in Scenarios, NEW on, MayCall(sc, on), NEW copied,
         NEW s, NEW t, Gathered(sc.services, copied, s), Gathered(sc.services, copied, t)
  PROVE  /\ AsMap(Called(sc, on, s)) = AsMap(Called(sc, on, t))
         /\ Listed(s) /\ \A j \in DOMAIN s : AnItem(s[j])
         /\ Listed(t) /\ \A j \in DOMAIN t : AnItem(t[j])
<1>on. on \in BOOLEAN
  BY Zenon DEF MayCall
<1>1. PICK a, o : /\ Annotated(sc.services, Definitions(sc.services), copied, a)
                  /\ OwnedList(sc.services, o) /\ Joins(s, a, o)
  BY Zenon DEF Gathered
<1>2. PICK b, p : /\ Annotated(sc.services, Definitions(sc.services), copied, b)
                  /\ OwnedList(sc.services, p) /\ Joins(t, b, p)
  BY Zenon DEF Gathered
<1>3. AsMap(Called(sc, on, a)) = AsMap(Called(sc, on, b))
  BY <1>1, <1>2, AnnotatedAgree, Zenon
<1>4. /\ AsMap(Called(sc, on, o)) = AsMap(Called(sc, on, p))
      /\ \A j \in DOMAIN o : AnItem(o[j])
  BY <1>1, <1>2, OwnedAgree, Zenon
<1>5. \A j \in DOMAIN p : AnItem(p[j])
  BY <1>2, OwnedAgree, Zenon
<1>6. (\A j \in DOMAIN a : AnItem(a[j])) /\ (\A j \in DOMAIN b : AnItem(b[j]))
  BY <1>1, <1>2, AnnotatedItems, ZenonT(30)
<1>7. /\ Joins(Called(sc, on, s), Called(sc, on, a), Called(sc, on, o))
      /\ Listed(s) /\ \A j \in DOMAIN s : AnItem(s[j])
  BY <1>on, <1>1, <1>4, <1>6, CalledJoins, ZenonT(30)
<1>8. /\ Joins(Called(sc, on, t), Called(sc, on, b), Called(sc, on, p))
      /\ Listed(t) /\ \A j \in DOMAIN t : AnItem(t[j])
  BY <1>on, <1>2, <1>5, <1>6, CalledJoins, Zenon
<1>9. AsMap(Called(sc, on, s)) = AsMap(Called(sc, on, t))
  BY <1>3, <1>4, <1>7, <1>8, SameParts
<1> QED
  BY <1>7, <1>8, <1>9, Zenon

LEMMA BuiltAgree ==
  ASSUME OneValueEach, NEW sc \in Scenarios, NEW on, MayCall(sc, on), NEW copied,
         NEW bs, NEW cs, BindingsOf(sc, FALSE, bs, BoundSecrets(sc.services)),
         BindingsOf(sc, FALSE, cs, BoundSecrets(sc.services)),
         NEW s, NEW t, Built(sc, copied, bs, s), Built(sc, copied, cs, t)
  PROVE  SameItems(Called(sc, on, s), Called(sc, on, t)) /\ Listed(Called(sc, on, s))
<1>on. on \in BOOLEAN
  BY Zenon DEF MayCall
<1>1. PICK g, m : /\ Gathered(sc.services, copied, g) /\ Joins(s, g, m)
                  /\ MappedList(sc, copied, bindingItemMap(bs, g), m)
  BY Zenon DEF Built
<1>2. PICK h, n : /\ Gathered(sc.services, copied, h) /\ Joins(t, h, n)
                  /\ MappedList(sc, copied, bindingItemMap(cs, h), n)
  BY Zenon DEF Built
<1>3. bindingItemMap(bs, g) = bindingItemMap(cs, h)
  <2>1. AsMap(Called(sc, FALSE, g)) = AsMap(Called(sc, FALSE, h))
    BY <1>1, <1>2, GatheredAgree, CalledWhen, Zenon
  <2>2. AsMap(g) = AsMap(h)
    BY <2>1, Zenon DEF Called
  <2>3. SameSecrets(bs, cs)
    BY SecretsAgree, CalledWhen, Zenon
  <2> QED
    BY <2>2, <2>3, DataAgree
<1>4. /\ AsMap(Called(sc, on, g)) = AsMap(Called(sc, on, h))
      /\ (\A j \in DOMAIN g : AnItem(g[j])) /\ (\A j \in DOMAIN h : AnItem(h[j]))
  BY <1>1, <1>2, GatheredAgree, Zenon
<1>5. /\ AsMap(Called(sc, on, m)) = AsMap(Called(sc, on, n))
      /\ \A j \in DOMAIN m : AnItem(m[j])
  <2>1. MappedList(sc, copied, bindingItemMap(bs, g), n)
    BY <1>2, <1>3, Zenon
  <2>2. SameItems(Called(sc, on, m), Called(sc, on, n)) /\ \A j \in DOMAIN m : AnItem(m[j])
    BY <1>on, <1>1, <2>1, MappedAgree, Zenon
  <2> QED
    BY <2>2, Zenon DEF SameItems
<1>6. \A j \in DOMAIN n : AnItem(n[j])
  BY <1>on, <1>2, MappedAgree, Zenon
<1>7. Joins(Called(sc, on, s), Called(sc, on, g), Called(sc, on, m))
  BY <1>on, <1>1, <1>4, <1>5, CalledJoins, Zenon
<1>8. Joins(Called(sc, on, t), Called(sc, on, h), Called(sc, on, n))
  BY <1>on, <1>2, <1>4, <1>6, CalledJoins, ZenonT(30)
<1>9. AsMap(Called(sc, on, s)) = AsMap(Called(sc, on, t))
  BY <1>4, <1>5, <1>7, <1>8, SameParts
<1>10. Listed(Called(sc, on, s))
  BY <1>7, ListedConcat, Zenon
<1> QED
  BY <1>9, <1>10, Zenon DEF SameItems

LEMMA FinalAgree ==
  ASSUME OneValueEach, NEW sc \in Scenarios, NEW copied, NEW s, NEW t,
         Final(sc, copied, s), Final(sc, copied, t)
  PROVE  AsMap(s) = AsMap(t) /\ (s = <<>> <=> t = <<>>)
<1>1. AsMap(s) = AsMap(t) /\ Listed(s) /\ Listed(t)
  <2>1. CASE sc.flow = DefaultFlow
    <3>1. PICK bs, raw : /\ BindingsOf(sc, FALSE, bs, BoundSecrets(sc.services))
                         /\ Built(sc, copied, bs, raw) /\ s = Renamed(sc, raw)
      BY <2>1, Zenon DEF Final
    <3>2. PICK cs, war : /\ BindingsOf(sc, FALSE, cs, BoundSecrets(sc.services))
                         /\ Built(sc, copied, cs, war) /\ t = Renamed(sc, war)
      BY <2>1, Zenon DEF Final
    <3>on. MayCall(sc, TRUE)
      BY <2>1, CalledWhen, Zenon
    <3>3. SameItems(Called(sc, TRUE, raw), Called(sc, TRUE, war)) /\ Listed(Called(sc, TRUE, raw))
      BY <3>on, <3>1, <3>2, BuiltAgree, Zenon
    <3>4. Listed(Called(sc, TRUE, war))
      BY <3>on, <3>1, <3>2, BuiltAgree, Zenon
    <3>5. s = Called(sc, TRUE, raw) /\ t = Called(sc, TRUE, war)
      BY <3>1, <3>2, Zenon DEF Called
    <3> QED
      BY <3>3, <3>4, <3>5, Zenon DEF SameItems
  <2>2. CASE sc.flow # DefaultFlow
    <3>1. /\ Annotated(sc.services, Definitions(sc.services), copied, s)
          /\ Annotated(sc.services, Definitions(sc.services), copied, t)
      BY <2>2, Zenon DEF Final
    <3>2. AsMap(Called(sc, FALSE, s)) = AsMap(Called(sc, FALSE, t))
      BY <3>1, AnnotatedAgree, CalledWhen, Zenon
    <3>3. s = Called(sc, FALSE, s) /\ t = Called(sc, FALSE, t)
      BY Zenon DEF Called
    <3>4. Listed(s) /\ Listed(t)
      BY <3>1, Zenon DEF Annotated
    <3> QED
      BY <3>2, <3>3, <3>4, Zenon
  <2> QED
    BY <2>1, <2>2, Zenon
<1>2. NamesOf(s) = NamesOf(t)
  BY <1>1, AsMapDomain, Zenon
<1>3. \A v : Listed(v) => (v = <<>> <=> NamesOf(v) = {})
  <2> SUFFICES ASSUME NEW v, Listed(v), NamesOf(v) = {} PROVE v = <<>>
    BY NoNames, Zenon
  <2>1. DOMAIN v = {}
    BY Zenon DEF NamesOf
  <2>2. v \in Seq(Range(v)) /\ Len(v) \in Nat /\ DOMAIN v = 1..Len(v)
    BY ListedAs, Zenon DEF Listed
  <2>3. Len(v) = 0
    BY <2>1, <2>2
  <2> QED
    BY <2>2, <2>3, EmptySeq, Zenon
<1> QED
  BY <1>1, <1>2, <1>3, Zenon

\* What an attempt collects if the services were read when the things in
\* copied had shown up.
ResultOf(sc, copied, r) ==
  \E bs, is : /\ BindingsOf(sc, sc.flow = DefaultFlow, bs, BoundSecrets(sc.services))
              /\ Final(sc, copied, is) /\ r = bindingSecretName(sc.services, bs, is)

LEMMA OneResult ==
  ASSUME OneValueEach, NEW sc \in Scenarios, NEW copied, NEW r1, NEW r2,
         ResultOf(sc, copied, r1), ResultOf(sc, copied, r2)
  PROVE  r1 = r2
<1> DEFINE on == sc.flow = DefaultFlow
           L == BoundSecrets(sc.services)
<1>1. PICK bs, is : /\ BindingsOf(sc, on, bs, L)
                    /\ Final(sc, copied, is) /\ r1 = bindingSecretName(sc.services, bs, is)
  BY Zenon DEF ResultOf
<1>2. PICK cs, js : /\ BindingsOf(sc, on, cs, L)
                    /\ Final(sc, copied, js) /\ r2 = bindingSecretName(sc.services, cs, js)
  BY Zenon DEF ResultOf
<1>3. AsMap(is) = AsMap(js) /\ (is = <<>> <=> js = <<>>)
  BY <1>1, <1>2, FinalAgree
<1>4. MayCall(sc, on)
  BY CalledWhen, Zenon
<1> HIDE DEF on
<1>5. SameSecrets(bs, cs)
  BY <1>1, <1>2, <1>4, SecretsAgree, Zenon
<1>6. bindingItemMap(bs, is) = bindingItemMap(cs, js)
  BY <1>3, <1>5, DataAgree
<1>7. ASSUME Len(bs) = 1
      PROVE  bs[1].service = cs[1].service /\ (Source(bs[1]) <=> Source(cs[1]))
  <2>1. 1 \in DOMAIN bs
    <3>1. DOMAIN bs = 1..Len(bs)
      BY <1>5, ListedAs, Zenon DEF SameSecrets
    <3> QED
      BY <1>7, <3>1
  <2>2. NamesOf(bs[1].items) = NamesOf(cs[1].items) /\ bs[1].secret = cs[1].secret
    BY <1>5, <2>1, AsMapDomain, Zenon DEF SameSecrets
  <2>3. \A b : Source(b) <=> NamesOf(b.items) \subseteq Keys(b.secret)
    BY Zenon DEF Source, NamesOf
  <2> QED
    BY <1>5, <2>1, <2>2, <2>3, Zenon DEF SameSecrets
<1>8. (is = <<>> /\ Len(bs) = 1 /\ Source(bs[1]) /\ ~sc.services[bs[1].service].foreign)
        = (js = <<>> /\ Len(cs) = 1 /\ Source(cs[1]) /\ ~sc.services[cs[1].service].foreign)
  BY <1>3, <1>5, <1>7, Zenon DEF SameSecrets
<1> QED
  BY <1>1, <1>2, <1>6, <1>8, Zenon DEF bindingSecretName

\* For any services with OneValueEach: attempts between which nothing shows up
\* collect the same data, however Go walks its maps, so that the secret keeps
\* its name.
THEOREM CollectedAgain ==
  ASSUME OneValueEach
  PROVE  Spec => []Repeatable
<1> DEFINE Alike == \A r \in results : ResultOf(scenario, ready, r)
<1>1. Init => Alike
  BY Zenon DEF Init
<1>2. Control /\ Data /\ Alike /\ [Next]_vars => Alike'
  <2> SUFFICES ASSUME Control, Data, Alike, [Next]_vars PROVE Alike'
    BY Zenon
  <2>1. CASE UNCHANGED <<scenario, ready, results>>
    BY <2>1, Zenon
  <2>2. CASE results' = {}
    BY <2>2, Zenon
  <2>3. CASE Persist
    <3>1. /\ pc = "Persist" /\ UNCHANGED <<scenario, ready>>
          /\ result' = bindingSecretName(services, bindings, items)
          /\ results' = IF seen = ready THEN results \cup {result'} ELSE results
      BY <2>3, Zenon DEF Persist
    <3>2. /\ BindingsOf(scenario, scenario.flow = DefaultFlow, bindings, BoundSecrets(scenario.services))
          /\ Final(scenario, seen, items)
      BY <3>1, Zenon DEF Data, BindingStage, ItemStage
    <3>3. seen = ready => ResultOf(scenario, ready, result')
      BY <3>1, <3>2, Zenon DEF ResultOf, services
    <3> QED
      BY <3>1, <3>3, Zenon
  <2> QED
    BY <2>1, <2>2, <2>3, ZenonT(30)
       DEF Next, Handle, PreFlight, ProvisionedService, DirectSecretReference, BindingDefinitions,
           ApplyDefinition, BindingItems, OwnedResources, Mapping, Naming, CallFails, Again, Appear,
           RequestRetry, CollectItems, Reads, vars
<1>3. Control /\ Alike => Repeatable
  <2> SUFFICES ASSUME Control, Alike PROVE Repeatable
    BY Zenon
  <2>1. \A r1, r2 \in results : r1 = r2
    BY OneResult, Zenon DEF Control
  <2>2. CASE results = {}
    BY <2>2, FS_EmptySet DEF Repeatable
  <2>3. CASE \E r : results = {r}
    BY <2>3, FS_Singleton DEF Repeatable
  <2> QED
    BY <2>1, <2>2, <2>3
<1> HIDE DEF Alike
<1> QED
  BY <1>1, <1>2, <1>3, CollectionInvariant, PTL DEF Spec

=============================================================================
