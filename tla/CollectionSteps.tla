-------------------------- MODULE CollectionSteps --------------------------
(***************************************************************************)
(* The invariant of Collection, for any services, annotations and values:  *)
(* what an attempt holds after each handler, whatever the order in which   *)
(* maps are walked and whatever shows up in between.                       *)
(***************************************************************************)
EXTENDS Collection, SequenceTheorems, FiniteSetTheorems, TLAPS

(***************************************************************************)
(* Lists                                                                   *)
(***************************************************************************)

Listed(s) == s \in Seq(Range(s))

LEMMA ListedAs ==
  ASSUME NEW s, Listed(s)
  PROVE  Len(s) \in Nat /\ DOMAIN s = 1..Len(s) /\ s = [j \in 1..Len(s) |-> s[j]]
BY LenProperties, Zenon DEF Listed

LEMMA ListedFunction ==
  ASSUME NEW n \in Nat, NEW s, s = [j \in 1..n |-> s[j]]
  PROVE  Listed(s) /\ Len(s) = n /\ DOMAIN s = 1..n
<1>1. s \in [1..n -> Range(s)]
  BY Zenon DEF Range
<1>2. s \in Seq(Range(s))
  BY <1>1, SeqDef, Zenon
<1> QED
  BY <1>1, <1>2, LenProperties DEF Listed

LEMMA ListedEmpty == Listed(<<>>) /\ DOMAIN <<>> = {} /\ Len(<<>>) = 0
BY DEF Listed

\* u is s and then t.
Joins(u, s, t) == Listed(s) /\ Listed(t) /\ u = s \o t

LEMMA ListedConcat ==
  ASSUME NEW s, NEW t, NEW u, Joins(u, s, t)
  PROVE  /\ Listed(u) /\ Len(u) = Len(s) + Len(t)
         /\ DOMAIN u = 1..(Len(s) + Len(t))
         /\ \A i \in DOMAIN s : i \in DOMAIN u /\ u[i] = s[i]
         /\ \A i \in DOMAIN t : Len(s) + i \in DOMAIN u /\ u[Len(s) + i] = t[i]
         /\ \A j \in DOMAIN u :
              j \in DOMAIN s \/ (j > Len(s) /\ \E i \in DOMAIN t : j = Len(s) + i)
         /\ Range(u) = Range(s) \cup Range(t)
<1> DEFINE S == Range(s) \cup Range(t)
<1>j. Listed(s) /\ Listed(t) /\ u = s \o t
  BY Zenon DEF Joins
<1>0. Len(s) \in Nat /\ Len(t) \in Nat /\ DOMAIN s = 1..Len(s) /\ DOMAIN t = 1..Len(t)
  BY <1>j, ListedAs, Zenon
<1>1. s \in Seq(S) /\ t \in Seq(S)
  BY <1>j, SeqMonotonic, Zenon DEF Listed
<1> HIDE DEF S
<1>2. /\ s \o t \in Seq(S) /\ Len(s \o t) = Len(s) + Len(t)
      /\ \A i \in 1..(Len(s) + Len(t)) : (s \o t)[i] = IF i <= Len(s) THEN s[i] ELSE t[i - Len(s)]
  BY <1>1, ConcatProperties, Zenon
<1>3. DOMAIN (s \o t) = 1..(Len(s) + Len(t))
  BY <1>2, LenProperties, Zenon
<1>4. \A i \in DOMAIN s : i \in DOMAIN (s \o t) /\ (s \o t)[i] = s[i]
  BY <1>0, <1>2, <1>3
<1>5. \A i \in DOMAIN t : Len(s) + i \in DOMAIN (s \o t) /\ (s \o t)[Len(s) + i] = t[i]
  <2> TAKE i \in DOMAIN t
  <2>1. Len(s) + i \in 1..(Len(s) + Len(t)) /\ ~(Len(s) + i <= Len(s)) /\ Len(s) + i - Len(s) = i
    BY <1>0
  <2> QED
    BY <1>2, <1>3, <2>1
<1>6. \A j \in DOMAIN (s \o t) :
        j \in DOMAIN s \/ (j > Len(s) /\ \E i \in DOMAIN t : j = Len(s) + i)
  <2> TAKE j \in DOMAIN (s \o t)
  <2>1. CASE j <= Len(s)
    BY <1>0, <1>3, <2>1
  <2>2. CASE j > Len(s)
    <3>1. j - Len(s) \in DOMAIN t /\ j = Len(s) + (j - Len(s))
      BY <1>0, <1>3, <2>2
    <3> QED
      BY <2>2, <3>1, Zenon
  <2> QED
    BY <1>0, <1>3, <2>1, <2>2
<1>7. Range(s \o t) = Range(s) \cup Range(t)
  <2>1. \A x \in Range(s \o t) : x \in Range(s) \cup Range(t)
    <3> TAKE x \in Range(s \o t)
    <3>1. PICK j \in DOMAIN (s \o t) : x = (s \o t)[j]
      BY Zenon DEF Range
    <3> QED
      BY <1>4, <1>5, <1>6, <3>1, Zenon DEF Range
  <2>2. \A x \in Range(s) \cup Range(t) : x \in Range(s \o t)
    BY <1>4, <1>5, Zenon DEF Range
  <2> QED
    BY <2>1, <2>2, Zenon
<1>8. Listed(s \o t)
  <2>1. s \o t = [i \in 1..(Len(s) + Len(t)) |-> (s \o t)[i]]
    BY <1>2, <1>3, LenProperties, Zenon
  <2>2. Len(s) + Len(t) \in Nat
    BY <1>0
  <2> QED
    BY <2>1, <2>2, ListedFunction, Zenon
<1>9. /\ Listed(u) /\ Len(u) = Len(s) + Len(t) /\ DOMAIN u = 1..(Len(s) + Len(t))
      /\ Range(u) = Range(s) \cup Range(t)
  BY <1>j, <1>2, <1>3, <1>7, <1>8, Zenon
<1>10. \A i \in DOMAIN s : i \in DOMAIN u /\ u[i] = s[i]
  BY <1>j, <1>4, Zenon
<1>11. \A i \in DOMAIN t : Len(s) + i \in DOMAIN u /\ u[Len(s) + i] = t[i]
  BY <1>j, <1>5, Zenon
<1>12. \A j \in DOMAIN u : j \in DOMAIN s \/ (j > Len(s) /\ \E i \in DOMAIN t : j = Len(s) + i)
  BY <1>j, <1>6, Zenon
<1> QED
  BY <1>9, <1>10, <1>11, <1>12, Zenon

LEMMA ListedImage ==
  ASSUME NEW q, Listed(q), NEW s, s = [j \in DOMAIN q |-> s[j]]
  PROVE  Listed(s) /\ DOMAIN s = DOMAIN q
<1>1. Len(q) \in Nat /\ DOMAIN q = 1..Len(q)
  BY ListedAs, Zenon
<1> QED
  BY <1>1, ListedFunction, Zenon

LEMMA SameFunction ==
  ASSUME NEW D, NEW f, NEW g, f = [x \in D |-> f[x]], g = [x \in D |-> g[x]],
         \A x \in D : f[x] = g[x]
  PROVE  f = g
BY Zenon

LEMMA Least ==
  ASSUME NEW T, T \subseteq Nat, T # {}
  PROVE  \E n \in T : \A m \in T : n =< m
<1> DEFINE Less == OpToRel(<, Nat)
<1>1. \E n \in T : \A m \in T : ~(<<m, n>> \in Less)
  BY NatLessThanWellFounded, WFMin, Zenon
<1>2. \A m, n \in Nat : m < n => <<m, n>> \in Less
  BY Zenon DEF OpToRel
<1> HIDE DEF Less
<1>3. PICK n \in T : \A m \in T : ~(<<m, n>> \in Less)
  BY <1>1, Zenon
<1>4. \A m \in T : ~(m < n)
  BY <1>2, <1>3, Zenon
<1> QED
  BY <1>3, <1>4

LEMMA MaxIn ==
  ASSUME NEW n \in Nat, NEW P, P \subseteq 1..n, P # {}
  PROVE  Max(P) \in P /\ \A m \in P : m =< Max(P)
<1> DEFINE T == {n - m : m \in P}
<1>1. T \subseteq Nat /\ T # {}
  <2>1. \A m \in P : n - m \in Nat
    OBVIOUS
  <2> QED
    BY <2>1, Zenon
<1>2. PICK k \in T : \A m \in T : k =< m
  <2> HIDE DEF T
  <2> QED
    BY <1>1, Least, Zenon
<1>3. PICK p \in P : k = n - p
  BY Zenon
<1>4. \A m \in P : p >= m
  <2> TAKE m \in P
  <2>1. n - p =< n - m
    BY <1>2, <1>3, Zenon
  <2> QED
    BY <2>1
<1>5. Max(P) \in P /\ \A m \in P : Max(P) >= m
  BY <1>4, Zenon DEF Max
<1> QED
  BY <1>5, Zenon

(***************************************************************************)
(* Items as a map                                                          *)
(***************************************************************************)

\* No later item has the name of the item j.
LastOf(s, j) == j \in DOMAIN s /\ \A k \in DOMAIN s : s[k].name = s[j].name => k =< j

NamesOf(s) == {s[j].name : j \in DOMAIN s}

LEMMA AsMapDomain == \A s : DOMAIN AsMap(s) = NamesOf(s)
BY Zenon DEF AsMap, NamesOf

LEMMA AsMapFunction == \A s : AsMap(s) = [n \in NamesOf(s) |-> AsMap(s)[n]]
BY Zenon DEF AsMap, NamesOf

LEMMA AsMapLast ==
  ASSUME NEW s, Listed(s)
  PROVE  /\ \A n \in NamesOf(s) : \E j \in DOMAIN s : LastOf(s, j) /\ s[j].name = n
         /\ \A j \in DOMAIN s : LastOf(s, j) => AsMap(s)[s[j].name] = s[j].value
<1> DEFINE At(n) == {j \in DOMAIN s : s[j].name = n}
<1>0. DOMAIN s = 1..Len(s) /\ Len(s) \in Nat
  BY ListedAs, Zenon
<1>1. \A n \in NamesOf(s) : Max(At(n)) \in At(n) /\ \A m \in At(n) : m =< Max(At(n))
  <2> TAKE n \in NamesOf(s)
  <2>1. At(n) # {} /\ At(n) \subseteq 1..Len(s)
    BY <1>0, Zenon DEF NamesOf
  <2> HIDE DEF At
  <2> QED
    BY <1>0, <2>1, MaxIn, Zenon
<1>2. \A j \in DOMAIN s : LastOf(s, j) => Max(At(s[j].name)) = j
  <2> SUFFICES ASSUME NEW j \in DOMAIN s, LastOf(s, j) PROVE Max(At(s[j].name)) = j
    BY Zenon
  <2>1. s[j].name \in NamesOf(s)
    BY Zenon DEF NamesOf
  <2>2. Max(At(s[j].name)) \in At(s[j].name) /\ j =< Max(At(s[j].name))
    BY <1>1, <2>1, Zenon
  <2>3. Max(At(s[j].name)) =< j
    BY <2>2, Zenon DEF LastOf
  <2>4. Max(At(s[j].name)) \in Nat /\ j \in Nat
    BY <1>0, <2>2
  <2> QED
    BY <2>2, <2>3, <2>4
<1>3. \A j \in DOMAIN s : AsMap(s)[s[j].name] = s[Max(At(s[j].name))].value
  BY Zenon DEF AsMap
<1>4. \A n \in NamesOf(s) : LastOf(s, Max(At(n))) /\ s[Max(At(n))].name = n
  BY <1>1, Zenon DEF LastOf
<1> HIDE DEF At
<1>5. \A n \in NamesOf(s) : \E j \in DOMAIN s : LastOf(s, j) /\ s[j].name = n
  BY <1>4, Zenon DEF LastOf
<1>6. \A j \in DOMAIN s : LastOf(s, j) => AsMap(s)[s[j].name] = s[j].value
  BY <1>2, <1>3, Zenon
<1> QED
  BY <1>5, <1>6, Zenon

\* Lists whose last items of a name have the same value are the same map.
LEMMA SameMap ==
  ASSUME NEW s, NEW t, Listed(s), Listed(t), NamesOf(s) = NamesOf(t),
         \A j \in DOMAIN s, k \in DOMAIN t :
           LastOf(s, j) /\ LastOf(t, k) /\ s[j].name = t[k].name => s[j].value = t[k].value
  PROVE  AsMap(s) = AsMap(t)
<1>1. \A n \in NamesOf(s) : AsMap(s)[n] = AsMap(t)[n]
  <2> TAKE n \in NamesOf(s)
  <2>1. PICK j \in DOMAIN s : LastOf(s, j) /\ s[j].name = n
    BY AsMapLast, Zenon
  <2>2. PICK k \in DOMAIN t : LastOf(t, k) /\ t[k].name = n
    BY AsMapLast, Zenon
  <2>3. AsMap(s)[n] = s[j].value /\ AsMap(t)[n] = t[k].value
    BY <2>1, <2>2, AsMapLast
  <2> QED
    BY <2>1, <2>2, <2>3, Zenon
<1> QED
  BY <1>1, SameFunction, AsMapFunction, Zenon

LEMMA AsMapConcat ==
  ASSUME NEW s, NEW t, NEW u, Joins(u, s, t)
  PROVE  /\ NamesOf(u) = NamesOf(s) \cup NamesOf(t)
         /\ \A n \in NamesOf(t) : AsMap(u)[n] = AsMap(t)[n]
         /\ \A n \in NamesOf(s) \ NamesOf(t) : AsMap(u)[n] = AsMap(s)[n]
<1>u. /\ Listed(u) /\ Len(s) \in Nat /\ DOMAIN s = 1..Len(s) /\ DOMAIN t \subseteq Nat
      /\ \A i \in DOMAIN s : i \in DOMAIN u /\ u[i] = s[i]
      /\ \A i \in DOMAIN t : Len(s) + i \in DOMAIN u /\ u[Len(s) + i] = t[i]
      /\ \A j \in DOMAIN u : j \in DOMAIN s \/ (j > Len(s) /\ \E i \in DOMAIN t : j = Len(s) + i)
  <2>1. Len(s) \in Nat /\ DOMAIN s = 1..Len(s) /\ DOMAIN t = 1..Len(t)
    BY ListedAs, Zenon DEF Joins
  <2>2. DOMAIN t \subseteq Nat
    BY <2>1
  <2>3. /\ Listed(u)
        /\ \A i \in DOMAIN s : i \in DOMAIN u /\ u[i] = s[i]
        /\ \A i \in DOMAIN t : Len(s) + i \in DOMAIN u /\ u[Len(s) + i] = t[i]
        /\ \A j \in DOMAIN u : j \in DOMAIN s \/ (j > Len(s) /\ \E i \in DOMAIN t : j = Len(s) + i)
    BY ListedConcat, SMT
  <2> QED
    BY <2>1, <2>2, <2>3, Zenon
<1>1. NamesOf(u) = NamesOf(s) \cup NamesOf(t)
  <2>1. \A n \in NamesOf(u) : n \in NamesOf(s) \cup NamesOf(t)
    <3> TAKE n \in NamesOf(u)
    <3>1. PICK j \in DOMAIN u : n = u[j].name
      BY Zenon DEF NamesOf
    <3> QED
      BY <1>u, <3>1 DEF NamesOf
  <2>2. \A n \in NamesOf(s) \cup NamesOf(t) : n \in NamesOf(u)
    BY <1>u DEF NamesOf
  <2> QED
    BY <2>1, <2>2, Zenon
<1>2. \A n \in NamesOf(t) : AsMap(u)[n] = AsMap(t)[n]
  <2> TAKE n \in NamesOf(t)
  <2>1. PICK j \in DOMAIN t : LastOf(t, j) /\ t[j].name = n
    BY AsMapLast, Zenon DEF Joins
  <2>2. Len(s) + j \in DOMAIN u /\ u[Len(s) + j] = t[j]
    BY <1>u, Zenon
  <2>3. ASSUME NEW k \in DOMAIN u, u[k].name = n PROVE k =< Len(s) + j
    <3>1. CASE k \in DOMAIN s
      BY <1>u, <3>1
    <3>2. ASSUME NEW i \in DOMAIN t, k = Len(s) + i PROVE k =< Len(s) + j
      <4>1. i =< j
        BY <1>u, <2>1, <2>3, <3>2, Zenon DEF LastOf
      <4> QED
        BY <1>u, <3>2, <4>1
    <3> QED
      BY <1>u, <3>1, <3>2, Zenon
  <2>4. LastOf(u, Len(s) + j)
    BY <2>1, <2>2, <2>3, Zenon DEF LastOf
  <2>5. AsMap(u)[u[Len(s) + j].name] = u[Len(s) + j].value
    BY <1>u, <2>2, <2>4, AsMapLast, Zenon DEF Joins
  <2>6. AsMap(t)[n] = t[j].value
    BY <2>1, AsMapLast, Zenon DEF Joins
  <2> QED
    BY <2>1, <2>2, <2>5, <2>6, Zenon
<1>3. \A n \in NamesOf(s) \ NamesOf(t) : AsMap(u)[n] = AsMap(s)[n]
  <2> TAKE n \in NamesOf(s) \ NamesOf(t)
  <2>1. PICK j \in DOMAIN s : LastOf(s, j) /\ s[j].name = n
    BY AsMapLast, Zenon DEF Joins
  <2>2. j \in DOMAIN u /\ u[j] = s[j]
    BY <1>u, Zenon
  <2>3. ASSUME NEW k \in DOMAIN u, u[k].name = n PROVE k =< j
    <3>1. k \in DOMAIN s
      BY <1>u, <2>3, Zenon DEF NamesOf
    <3> QED
      BY <1>u, <2>1, <2>3, <3>1, Zenon DEF LastOf
  <2>4. LastOf(u, j)
    BY <2>1, <2>2, <2>3, Zenon DEF LastOf
  <2>5. AsMap(u)[u[j].name] = u[j].value
    BY <1>u, <2>2, <2>4, AsMapLast, Zenon DEF Joins
  <2>6. AsMap(s)[n] = s[j].value
    BY <2>1, AsMapLast, Zenon DEF Joins
  <2> QED
    BY <2>1, <2>2, <2>5, <2>6, Zenon
<1> QED
  BY <1>1, <1>2, <1>3, Zenon

\* The map of a list in two parts depends on the maps of the parts alone.
LEMMA SameParts ==
  ASSUME NEW s, NEW t, NEW u, NEW v, NEW x, NEW y, Joins(x, s, t), Joins(y, u, v),
         AsMap(s) = AsMap(u), AsMap(t) = AsMap(v)
  PROVE  AsMap(x) = AsMap(y)
<1>1. NamesOf(s) = NamesOf(u) /\ NamesOf(t) = NamesOf(v)
  BY AsMapDomain, Zenon
<1>2. /\ NamesOf(x) = NamesOf(s) \cup NamesOf(t)
      /\ \A n \in NamesOf(t) : AsMap(x)[n] = AsMap(t)[n]
      /\ \A n \in NamesOf(s) \ NamesOf(t) : AsMap(x)[n] = AsMap(s)[n]
  BY AsMapConcat
<1>3. /\ NamesOf(y) = NamesOf(u) \cup NamesOf(v)
      /\ \A n \in NamesOf(v) : AsMap(y)[n] = AsMap(v)[n]
      /\ \A n \in NamesOf(u) \ NamesOf(v) : AsMap(y)[n] = AsMap(u)[n]
  BY AsMapConcat
<1>4. NamesOf(x) = NamesOf(y)
  BY <1>1, <1>2, <1>3, Zenon
<1>5. \A n \in NamesOf(x) : AsMap(x)[n] = AsMap(y)[n]
  BY <1>1, <1>2, <1>3, Zenon
<1> QED
  BY <1>4, <1>5, SameFunction, AsMapFunction, Zenon

(***************************************************************************)
(* Walks and loops                                                         *)
(***************************************************************************)

LEMMA WalkOf ==
  ASSUME NEW S, IsFiniteSet(S), NEW q \in Walks(S)
  PROVE  /\ Listed(q) /\ Range(q) = S /\ Cardinality(S) \in Nat
         /\ Len(q) = Cardinality(S) /\ DOMAIN q = 1..Cardinality(S)
<1>1. Cardinality(S) \in Nat
  BY FS_CardinalityType, Zenon
<1>2. q \in [1..Cardinality(S) -> S] /\ Range(q) = S
  BY Zenon DEF Walks
<1>3. q = [j \in 1..Cardinality(S) |-> q[j]]
  BY <1>2, Zenon
<1> QED
  BY <1>1, <1>2, <1>3, ListedFunction, Zenon

\* A loop over numbers visits them in one order only.
LEMMA OneOrder ==
  ASSUME NEW S, S \subseteq Nat, IsFiniteSet(S), NEW q \in InOrder(S), NEW r \in InOrder(S)
  PROVE  q = r
<1> DEFINE N == Cardinality(S)
<1>1. q \in Walks(S) /\ r \in Walks(S)
  BY Zenon DEF InOrder
<1>2. N \in Nat /\ DOMAIN q = 1..N /\ DOMAIN r = 1..N /\ Range(q) = S /\ Range(r) = S
  BY <1>1, WalkOf, Zenon
<1>3. /\ \A j, k \in 1..N : j < k => q[j] < q[k]
      /\ \A j, k \in 1..N : j < k => r[j] < r[k]
  BY <1>2, Zenon DEF InOrder
<1>4. /\ \A j \in 1..N : q[j] \in S /\ r[j] \in S
      /\ \A x \in S : (\E j \in 1..N : q[j] = x) /\ (\E j \in 1..N : r[j] = x)
  BY <1>2, Zenon DEF Range
<1> HIDE DEF N
<1> DEFINE T == {j \in 1..N : q[j] # r[j]}
<1>5. T = {}
  <2> SUFFICES ASSUME T # {} PROVE FALSE
    BY Zenon
  <2>1. T \subseteq Nat
    BY <1>2
  <2>2. PICK k \in T : \A m \in T : k =< m
    <3> HIDE DEF T
    <3> QED
      BY <2>1, Least, Zenon
  <2>3. k \in 1..N /\ q[k] # r[k] /\ \A m \in 1..N : m < k => q[m] = r[m]
    BY <1>2, <2>2
  <2>4. q[k] \in Nat /\ r[k] \in Nat
    BY <1>4, <2>3, Zenon
  <2>5. CASE q[k] < r[k]
    <3>1. PICK m \in 1..N : r[m] = q[k]
      BY <1>4, <2>3, Zenon
    <3>2. m # k /\ ~(k < m)
      BY <1>3, <1>4, <2>3, <2>4, <2>5, <3>1
    <3>3. m < k
      BY <1>2, <2>3, <3>2
    <3>4. q[m] = q[k] /\ q[m] < q[k]
      BY <1>3, <2>3, <3>1, <3>3, Zenon
    <3> QED
      BY <2>4, <3>4
  <2>6. CASE r[k] < q[k]
    <3>1. PICK m \in 1..N : q[m] = r[k]
      BY <1>4, <2>3, Zenon
    <3>2. m # k /\ ~(k < m)
      BY <1>3, <1>4, <2>3, <2>4, <2>6, <3>1
    <3>3. m < k
      BY <1>2, <2>3, <3>2
    <3>4. r[m] = r[k] /\ r[m] < r[k]
      BY <1>3, <2>3, <3>1, <3>3, Zenon
    <3> QED
      BY <2>4, <3>4
  <2> QED
    BY <2>3, <2>4, <2>5, <2>6
<1>6. q = [j \in 1..N |-> q[j]] /\ r = [j \in 1..N |-> r[j]]
  BY <1>1, Zenon DEF Walks, N
<1> QED
  BY <1>5, <1>6, Zenon

(***************************************************************************)
(* The secrets that are bound as they are                                  *)
(***************************************************************************)

Order(S) == CHOOSE q \in InOrder(S) : TRUE

\* The services in S and their secrets, in the order of the services.
Loop(S, secretOf) ==
  [j \in DOMAIN Order(S) |-> [service |-> Order(S)[j], secret |-> secretOf[Order(S)[j]]]]

NamedSecrets(ss) == Loop(Provisioned(ss), [i \in DOMAIN ss |-> ss[i].binding])
BoundSecrets(ss) == NamedSecrets(ss) \o Loop(DirectSecrets(ss), [i \in DOMAIN ss |-> ss[i].secret])

LEMMA OrderExists ==
  ASSUME NEW n \in Nat, NEW S0, S0 \subseteq 1..n
  PROVE  Order(S0) \in InOrder(S0)
<1> DEFINE T == {k \in Nat : \E S \in SUBSET (1..n) : Cardinality(S) = k /\ InOrder(S) = {}}
<1>1. \A S \in SUBSET (1..n) : IsFiniteSet(S) /\ Cardinality(S) \in Nat
  <2>1. IsFiniteSet(1..n)
    BY FS_Interval
  <2> QED
    BY <2>1, FS_Subset, FS_CardinalityType, Zenon
<1>2. T = {}
  <2> SUFFICES ASSUME T # {} PROVE FALSE
    BY Zenon
  <2>1. PICK k \in T : \A m \in T : k =< m
    <3>1. T \subseteq Nat
      BY Zenon
    <3> HIDE DEF T
    <3> QED
      BY <3>1, Least, Zenon
  <2>2. PICK S \in SUBSET (1..n) : Cardinality(S) = k /\ InOrder(S) = {}
    BY Zenon
  <2>3. k \in Nat /\ IsFiniteSet(S)
    BY <1>1, Zenon
  <2>4. S # {}
    <3> SUFFICES ASSUME S = {} PROVE FALSE
      BY Zenon
    <3>1. k = 0
      BY <2>2, FS_EmptySet, Zenon
    <3>2. <<>> \in [1..0 -> S] /\ Range(<<>>) = S /\ DOMAIN <<>> = {}
      BY DEF Range
    <3>3. <<>> \in Walks(S)
      BY <2>2, <3>1, <3>2, Zenon DEF Walks
    <3>4. <<>> \in InOrder(S)
      BY <3>2, <3>3, Zenon DEF InOrder
    <3> QED
      BY <2>2, <3>4, Zenon
  <2> DEFINE m == Max(S)
             R == S \ {m}
  <2>5. m \in S /\ \A x \in S : x =< m
    BY <2>4, MaxIn, Zenon
  <2> HIDE DEF m
  <2>6. /\ R \in SUBSET (1..n) /\ R = S \ {m} /\ \A x \in R : x < m
        /\ Cardinality(R) = k - 1 /\ Cardinality(R) \in Nat
    <3>1. Cardinality(R) = k - 1
      BY <2>2, <2>3, <2>5, FS_RemoveElement, Zenon
    <3>2. R \in SUBSET (1..n)
      BY Zenon
    <3>3. Cardinality(R) \in Nat
      BY <1>1, <3>2, Zenon
    <3>4. \A x \in R : x < m
      BY <2>5
    <3> QED
      BY <3>1, <3>2, <3>3, <3>4, Zenon
  <2> HIDE DEF R, T
  <2>7. PICK q : q \in InOrder(R)
    <3>1. Cardinality(R) \notin T
      BY <2>1, <2>3, <2>6
    <3> QED
      BY <2>6, <3>1, Zenon DEF T
  <2> DEFINE r == [j \in 1..k |-> IF j = k THEN m ELSE q[j]]
  <2>8. /\ q \in [1..(k - 1) -> R] /\ Range(q) = R
        /\ \A i, j \in 1..(k - 1) : i < j => q[i] < q[j]
    BY <2>6, <2>7, Zenon DEF InOrder, Walks
  <2>9. k \in 1..k /\ \A j \in 1..k : j = k \/ j \in 1..(k - 1)
    BY <2>3, <2>6
  <2>10. \A j \in 1..k : r[j] \in S
    BY <2>5, <2>6, <2>8, <2>9, Zenon
  <2>11. \A x \in S : \E j \in 1..k : r[j] = x
    <3> TAKE x \in S
    <3>1. CASE x = m
      BY <2>9, <3>1, Zenon
    <3>2. CASE x \in R
      <4>1. PICK j \in 1..(k - 1) : q[j] = x
        BY <2>8, <3>2, Zenon DEF Range
      <4> QED
        BY <2>3, <4>1
    <3> QED
      BY <2>6, <3>1, <3>2, Zenon
  <2>12. r \in Walks(S)
    <3>1. r \in [1..k -> S]
      BY <2>10, Zenon
    <3>2. Range(r) = S
      BY <2>10, <2>11, Zenon DEF Range
    <3> HIDE DEF r
    <3> QED
      BY <2>2, <3>1, <3>2, Zenon DEF Walks
  <2>13. \A i, j \in 1..k : i < j => r[i] < r[j]
    <3> SUFFICES ASSUME NEW i \in 1..k, NEW j \in 1..k, i < j PROVE r[i] < r[j]
      BY Zenon
    <3>1. i \in 1..(k - 1)
      BY <2>3
    <3>2. r[i] = q[i] /\ q[i] \in R
      BY <2>3, <2>8, <3>1
    <3>3. CASE j = k
      BY <2>6, <3>2, <3>3, Zenon
    <3>4. CASE j \in 1..(k - 1)
      BY <2>3, <2>8, <3>1, <3>2, <3>4
    <3> QED
      BY <2>9, <3>3, <3>4, Zenon
  <2>14. r \in InOrder(S)
    <3>1. DOMAIN r = 1..k
      BY Zenon
    <3> HIDE DEF r
    <3> QED
      BY <2>12, <2>13, <3>1, Zenon DEF InOrder
  <2> QED
    BY <2>2, <2>14, Zenon
<1>3. InOrder(S0) # {}
  BY <1>1, <1>2, Zenon
<1> QED
  BY <1>3, Zenon DEF Order

LEMMA LoopOf ==
  ASSUME NEW n \in Nat, NEW S, S \subseteq 1..n, NEW f
  PROVE  /\ Listed(Loop(S, f))
         /\ Range(Loop(S, f)) = {[service |-> i, secret |-> f[i]] : i \in S}
<1> DEFINE q == Order(S)
           L == Loop(S, f)
<1>1. q \in Walks(S) /\ IsFiniteSet(S)
  <2>1. IsFiniteSet(1..n)
    BY FS_Interval
  <2>2. q \in InOrder(S)
    BY OrderExists, Zenon
  <2> QED
    BY <2>1, <2>2, FS_Subset, Zenon DEF InOrder
<1>2. Listed(q) /\ Range(q) = S
  BY <1>1, WalkOf, Zenon
<1>3. L = [j \in DOMAIN q |-> [service |-> q[j], secret |-> f[q[j]]]]
  BY Zenon DEF Loop
<1> HIDE DEF q, L
<1>4. Listed(L) /\ DOMAIN L = DOMAIN q
  BY <1>2, <1>3, ListedImage, Zenon
<1>5. Range(L) = {[service |-> i, secret |-> f[i]] : i \in S}
  <2>1. Range(L) = {[service |-> q[j], secret |-> f[q[j]]] : j \in DOMAIN q}
    BY <1>3, <1>4, Zenon DEF Range
  <2>2. S = {q[j] : j \in DOMAIN q}
    BY <1>2, Zenon DEF Range
  <2> QED
    BY <2>1, <2>2, Zenon
<1> QED
  BY <1>4, <1>5, Zenon DEF L

\* The services whose secrets are bound as they are, with these secrets.
BoundOnes(ss) ==
  {[service |-> i, secret |-> ss[i].binding] : i \in Provisioned(ss)}
    \cup {[service |-> i, secret |-> ss[i].secret] : i \in DirectSecrets(ss)}

LEMMA BoundOf ==
  ASSUME NEW ss, Listed(ss)
  PROVE  Listed(BoundSecrets(ss)) /\ Range(BoundSecrets(ss)) = BoundOnes(ss)
<1> DEFINE f == [i \in DOMAIN ss |-> ss[i].binding]
           g == [i \in DOMAIN ss |-> ss[i].secret]
           P == Loop(Provisioned(ss), f)
           D == Loop(DirectSecrets(ss), g)
<1>1. Len(ss) \in Nat /\ DOMAIN ss = 1..Len(ss)
  BY ListedAs, Zenon
<1>2. Provisioned(ss) \subseteq 1..Len(ss) /\ DirectSecrets(ss) \subseteq 1..Len(ss)
  BY <1>1, Zenon DEF Provisioned, DirectSecrets
<1>3. Listed(P) /\ Range(P) = {[service |-> i, secret |-> f[i]] : i \in Provisioned(ss)}
  BY <1>1, <1>2, LoopOf, Zenon
<1>4. Listed(D) /\ Range(D) = {[service |-> i, secret |-> g[i]] : i \in DirectSecrets(ss)}
  BY <1>1, <1>2, LoopOf, Zenon
<1>5. Range(P) = {[service |-> i, secret |-> ss[i].binding] : i \in Provisioned(ss)}
  BY <1>1, <1>2, <1>3, Zenon
<1>6. Range(D) = {[service |-> i, secret |-> ss[i].secret] : i \in DirectSecrets(ss)}
  BY <1>1, <1>2, <1>4, Zenon
<1>7. Joins(BoundSecrets(ss), P, D)
  BY <1>3, <1>4, Zenon DEF Joins, BoundSecrets, NamedSecrets
<1> HIDE DEF P, D, f, g
<1> QED
  BY <1>5, <1>6, <1>7, ListedConcat, Zenon DEF BoundOnes

\* The items before or after Naming.
Called(sc, on, is) == IF on THEN Renamed(sc, is) ELSE is

\* The binding b is of the secret and for the service of l.
BindingOf(sc, on, b, l) ==
  \E ks \in Walks(Keys(l.secret)) :
    b = [secret |-> l.secret, service |-> l.service,
         items |-> Called(sc, on, SecretBindings(l.secret, l.service, ks).items)]

BindingsOf(sc, on, bs, L) ==
  /\ Listed(bs) /\ Listed(L) /\ Len(bs) = Len(L)
  /\ \A j \in DOMAIN L : /\ L[j].service \in DOMAIN sc.services /\ SecretOf(L[j].secret) \in DOMAIN Objects
                         /\ BindingOf(sc, on, bs[j], L[j])

LEMMA NoBindings == \A sc, on : BindingsOf(sc, on, <<>>, <<>>)
BY ListedEmpty, Zenon DEF BindingsOf

LEMMA AddedBindings ==
  ASSUME NEW sc, NEW S, S \subseteq Nat, S \subseteq DOMAIN sc.services, IsFiniteSet(S), NEW f,
         \A i \in S : SecretOf(f[i]) \in DOMAIN Objects,
         NEW is \in InOrder(S), NEW ks, \A j \in DOMAIN is : ks[j] \in Walks(Keys(f[is[j]]))
  PROVE  BindingsOf(sc, FALSE, [j \in DOMAIN is |-> SecretBindings(f[is[j]], is[j], ks[j])], Loop(S, f))
<1> DEFINE bs == [j \in DOMAIN is |-> SecretBindings(f[is[j]], is[j], ks[j])]
           L == [j \in DOMAIN is |-> [service |-> is[j], secret |-> f[is[j]]]]
<1>1. is = Order(S)
  <2>1. Order(S) \in InOrder(S)
    BY Zenon DEF Order
  <2> QED
    BY <2>1, OneOrder, Zenon
<1>2. Loop(S, f) = L
  BY <1>1, Zenon DEF Loop
<1>3. PICK n \in Nat : DOMAIN is = 1..n /\ \A j \in DOMAIN is : is[j] \in S
  <2>1. is \in Walks(S)
    BY Zenon DEF InOrder
  <2> QED
    BY <2>1, WalkOf DEF Range
<1>4. Listed(bs) /\ Len(bs) = n /\ Listed(L) /\ Len(L) = n /\ DOMAIN L = DOMAIN is
  <2>1. bs = [j \in 1..n |-> bs[j]] /\ L = [j \in 1..n |-> L[j]]
    BY <1>3, Zenon
  <2> HIDE DEF bs, L
  <2>2. Listed(bs) /\ Len(bs) = n
    BY <2>1, ListedFunction, Zenon
  <2>3. Listed(L) /\ Len(L) = n /\ DOMAIN L = 1..n
    BY <2>1, ListedFunction, Zenon
  <2> QED
    BY <1>3, <2>2, <2>3, Zenon
<1>5. ASSUME NEW j \in DOMAIN is
      PROVE  /\ L[j].service \in DOMAIN sc.services /\ SecretOf(L[j].secret) \in DOMAIN Objects
             /\ BindingOf(sc, FALSE, bs[j], L[j])
  <2>1. L[j].service = is[j] /\ L[j].secret = f[is[j]] /\ is[j] \in S
    BY <1>3, Zenon
  <2>2. bs[j] = [secret |-> L[j].secret, service |-> L[j].service,
                 items |-> Called(sc, FALSE, SecretBindings(L[j].secret, L[j].service, ks[j]).items)]
    BY <2>1, Zenon DEF Called, SecretBindings
  <2>3. ks[j] \in Walks(Keys(L[j].secret))
    BY <2>1, Zenon
  <2> HIDE DEF bs, L
  <2>4. BindingOf(sc, FALSE, bs[j], L[j])
    BY <2>2, <2>3, Zenon DEF BindingOf
  <2> QED
    BY <2>1, <2>4, Zenon
<1> HIDE DEF bs, L
<1>6. BindingsOf(sc, FALSE, bs, L)
  BY <1>4, <1>5, Zenon DEF BindingsOf
<1> QED
  BY <1>2, <1>6, Zenon DEF bs

LEMMA JoinedBindings ==
  ASSUME NEW sc, NEW on, NEW bs, NEW cs, NEW L, NEW M,
         BindingsOf(sc, on, bs, L), BindingsOf(sc, on, cs, M)
  PROVE  BindingsOf(sc, on, bs \o cs, L \o M)
<1> DEFINE u == bs \o cs
           v == L \o M
<1>1. Joins(u, bs, cs) /\ Joins(v, L, M) /\ Len(bs) = Len(L) /\ Len(cs) = Len(M)
  BY Zenon DEF Joins, BindingsOf
<1> HIDE DEF u, v
<1>2. /\ Listed(u) /\ Len(u) = Len(bs) + Len(cs)
      /\ \A i \in DOMAIN bs : u[i] = bs[i]
      /\ \A i \in DOMAIN cs : u[Len(bs) + i] = cs[i]
  BY <1>1, ListedConcat, SMT
<1>3. /\ Listed(v) /\ Len(v) = Len(L) + Len(M)
      /\ \A i \in DOMAIN L : v[i] = L[i]
      /\ \A i \in DOMAIN M : v[Len(L) + i] = M[i]
  BY <1>1, ListedConcat, SMT
<1>8. \A j \in DOMAIN v : j \in DOMAIN L \/ (\E i \in DOMAIN M : j = Len(L) + i)
  <2>1. Joins(v, L, M)
    BY <1>1, Zenon
  <2> QED
    BY <2>1, ListedConcat, SMT
<1>4. DOMAIN bs = DOMAIN L /\ DOMAIN cs = DOMAIN M
  <2>1. Listed(bs) /\ Listed(L) /\ Listed(cs) /\ Listed(M)
    BY <1>1, Zenon DEF Joins
  <2>2. DOMAIN bs = 1..Len(bs) /\ DOMAIN L = 1..Len(L) /\ DOMAIN cs = 1..Len(cs) /\ DOMAIN M = 1..Len(M)
    BY <2>1, ListedAs, Zenon
  <2> QED
    BY <1>1, <2>2, Zenon
<1>5. ASSUME NEW j \in DOMAIN v
      PROVE  /\ v[j].service \in DOMAIN sc.services /\ SecretOf(v[j].secret) \in DOMAIN Objects
             /\ BindingOf(sc, on, u[j], v[j])
  <2>1. CASE j \in DOMAIN L
    <3>1. u[j] = bs[j] /\ v[j] = L[j]
      BY <1>2, <1>3, <1>4, <2>1, Zenon
    <3> QED
      BY <2>1, <3>1, Zenon DEF BindingsOf
  <2>2. ASSUME NEW i \in DOMAIN M, j = Len(L) + i
        PROVE  /\ v[j].service \in DOMAIN sc.services /\ SecretOf(v[j].secret) \in DOMAIN Objects
               /\ BindingOf(sc, on, u[j], v[j])
    <3>1. u[j] = cs[i] /\ v[j] = M[i]
      BY <1>1, <1>2, <1>3, <1>4, <2>2, Zenon
    <3> QED
      BY <2>2, <3>1, Zenon DEF BindingsOf
  <2> QED
    BY <1>8, <2>1, <2>2, Zenon
<1>6. Len(u) = Len(v)
  BY <1>1, <1>2, <1>3, Zenon
<1>7. BindingsOf(sc, on, u, v)
  BY <1>2, <1>3, <1>5, <1>6, Zenon DEF BindingsOf
<1> QED
  BY <1>7, Zenon DEF u, v

(***************************************************************************)
(* The values of definitions                                               *)
(***************************************************************************)

\* An optional definition whose path the copy of the service does not have.
Missing(ss, p, copied) ==
  LET d == p[2]
  IN  /\ ~(d.kind = "string" /\ d.outputName = NoName) /\ d.value = ""
      /\ d.path \notin DOMAIN ValuesIn(ss[p[1]], copied) /\ d.optional

\* What is found while some things are not there yet is what is found in the
\* end, and what is absent depends on the copy of the service alone.
LEMMA FoundInTheEnd ==
  ASSUME NEW ss, NEW p, NEW copied, NEW shown
  PROVE  /\ ValueOf(ss, p, copied, shown).status = "found" =>
              ValueOf(ss, p, copied, shown) = FinalValue(ss, p) /\ ~Missing(ss, p, copied)
         /\ ValueOf(ss, p, copied, shown).status = "absent" => Missing(ss, p, copied)
<1> DEFINE d == p[2]
           s == ss[p[1]]
           V == ValuesIn(s, copied)
           O == ObjectsIn(shown)
<1>1. /\ Failed.status = "error" /\ Absent.status = "absent"
      /\ \A f : Found(f).status = "found"
  BY Zenon DEF Failed, Absent, Found
<1>2. \A x \in DOMAIN V : x \in DOMAIN s.values /\ V[x] = s.values[x]
  BY Zenon DEF ValuesIn
<1>3. \A r \in DOMAIN O : r \in DOMAIN Objects /\ O[r] = Objects[r]
  BY Zenon DEF ObjectsIn
<1>4. ValueOf(ss, p, copied, shown) = Apply(d, V, O) /\ FinalValue(ss, p) = Apply(d, s.values, Objects)
  BY Zenon DEF ValueOf, FinalValue
<1>5. Missing(ss, p, copied) <=> /\ ~(d.kind = "string" /\ d.outputName = NoName) /\ d.value = ""
                                 /\ d.path \notin DOMAIN V /\ d.optional
  BY Zenon DEF Missing
<1> HIDE DEF d, s, V, O
<1>6. CASE d.kind = "string" /\ d.outputName = NoName
  <2>1. Apply(d, V, O) = Failed
    BY <1>6, Zenon DEF Apply
  <2> QED
    BY <1>1, <1>4, <2>1, Zenon
<1>7. CASE ~(d.kind = "string" /\ d.outputName = NoName) /\ d.value # ""
  <2>1. Apply(d, V, O) = Apply(d, s.values, Objects) /\ Apply(d, V, O) = Found(d.outputName :> Str(d.value))
    BY <1>7, Zenon DEF Apply
  <2>2. Apply(d, V, O).status = "found"
    BY <1>1, <2>1, Zenon
  <2> QED
    BY <1>4, <1>5, <1>7, <2>1, <2>2, Zenon
<1>8. CASE ~(d.kind = "string" /\ d.outputName = NoName) /\ d.value = "" /\ d.path \notin DOMAIN V
  <2>1. Apply(d, V, O) = IF d.optional THEN Absent ELSE Failed
    BY <1>8, Zenon DEF Apply
  <2> QED
    BY <1>1, <1>4, <1>5, <1>8, <2>1, Zenon
<1>9. CASE ~(d.kind = "string" /\ d.outputName = NoName) /\ d.value = "" /\ d.path \in DOMAIN V
  <2>1. d.path \in DOMAIN s.values /\ V[d.path] = s.values[d.path]
    BY <1>2, <1>9, Zenon
  <2>2. CASE d.kind \notin {"stringFromData", "mapFromData"}
    <3>1. Apply(d, V, O) = ApplyPath(d, V[d.path]) /\ Apply(d, s.values, Objects) = ApplyPath(d, s.values[d.path])
      BY <1>9, <2>1, <2>2, Zenon DEF Apply
    <3>2. ApplyPath(d, V[d.path]).status # "absent"
      BY <1>1, Zenon DEF ApplyPath
    <3> QED
      BY <1>4, <1>5, <1>9, <2>1, <3>1, <3>2, Zenon
  <2>3. CASE d.kind \in {"stringFromData", "mapFromData"} /\ Len(V[d.path]) # 1
    <3>1. Apply(d, V, O) = Failed
      BY <1>9, <2>1, <2>3, Zenon DEF Apply
    <3> QED
      BY <1>1, <1>4, <3>1, Zenon
  <2>4. CASE d.kind \in {"stringFromData", "mapFromData"} /\ Len(V[d.path]) = 1
    <3>1. Apply(d, V, O) = ApplyData(d, V, O) /\ Apply(d, s.values, Objects) = ApplyData(d, s.values, Objects)
      BY <1>9, <2>1, <2>4, Zenon DEF Apply
    <3>2. Reference(d, V) = Reference(d, s.values)
      BY <2>1, Zenon DEF Reference
    <3>3. CASE Reference(d, V) \notin DOMAIN O
      <4>1. ApplyData(d, V, O) = Failed
        BY <3>3, Zenon DEF ApplyData
      <4> QED
        BY <1>1, <1>4, <3>1, <4>1, Zenon
    <3>4. CASE Reference(d, V) \in DOMAIN O
      <4>1. Reference(d, V) \in DOMAIN Objects /\ O[Reference(d, V)] = Objects[Reference(d, V)]
        BY <1>3, <3>4, Zenon
      <4>2. ApplyData(d, V, O) = ApplyData(d, s.values, Objects)
        BY <3>2, <3>4, <4>1, Zenon DEF ApplyData
      <4>3. ApplyData(d, V, O).status # "absent"
        BY <1>1, Zenon DEF ApplyData
      <4> QED
        BY <1>4, <1>5, <1>9, <3>1, <4>2, <4>3, Zenon
    <3> QED
      BY <3>3, <3>4, Zenon
  <2> QED
    BY <2>2, <2>3, <2>4, Zenon
<1> QED
  BY <1>6, <1>7, <1>8, <1>9, Zenon

(***************************************************************************)
(* The items of annotations, of owned resources and of mappings            *)
(***************************************************************************)

DefinitionItems(ss, p, copied) ==
  {x \in EntryItems(p[1], FinalValue(ss, p).of) :
     FinalValue(ss, p).status = "found" /\ ~Missing(ss, p, copied)}

\* The items of the definitions in ds, service by service.
Annotated(ss, ds, copied, is) ==
  /\ Listed(is) /\ Range(is) = UNION {DefinitionItems(ss, p, copied) : p \in ds}
  /\ \A j, k \in DOMAIN is : j < k => is[j].service =< is[k].service

LEMMA ServiceOfEntry ==
  \A i, entries : \A x \in EntryItems(i, entries) : x.service = i
BY DEF EntryItems, Item

LEMMA NothingAnnotated == \A ss, copied : Annotated(ss, {}, copied, <<>>)
<1>1. Range(<<>>) = {}
  BY ListedEmpty, Zenon DEF Range
<1> QED
  BY <1>1, ListedEmpty, Zenon DEF Annotated

\* Adding the items of a definition of the same service, or of a later one.
LEMMA AnnotatedNext ==
  ASSUME NEW ss, NEW ds, NEW copied, NEW is, Annotated(ss, ds, copied, is), NEW p, NEW q,
         p[1] \in Nat, \A j \in DOMAIN is : is[j].service \in Nat /\ is[j].service =< p[1],
         Listed(q), Range(q) = DefinitionItems(ss, p, copied)
  PROVE  /\ Annotated(ss, ds \cup {p}, copied, is \o q)
         /\ \A j \in DOMAIN (is \o q) : (is \o q)[j].service \in Nat /\ (is \o q)[j].service =< p[1]
<1> DEFINE u == is \o q
<1>1. Joins(u, is, q)
  BY Zenon DEF Joins, Annotated
<1> HIDE DEF u
<1>2. \A j \in DOMAIN q : q[j].service = p[1]
  BY ServiceOfEntry, Zenon DEF Range, DefinitionItems
<1>3. Listed(u) /\ Range(u) = Range(is) \cup Range(q)
  BY <1>1, ListedConcat, Zenon
<1>4. Range(u) = UNION {DefinitionItems(ss, r, copied) : r \in ds \cup {p}}
  <2>1. Range(is) = UNION {DefinitionItems(ss, r, copied) : r \in ds}
    BY Zenon DEF Annotated
  <2> QED
    BY <1>3, <2>1, Zenon
<1>5. \A j \in DOMAIN u : \/ j \in DOMAIN is /\ u[j] = is[j]
                          \/ j > Len(is) /\ u[j].service = p[1]
  BY <1>1, <1>2, ListedConcat, SMT
<1>6. DOMAIN is = 1..Len(is) /\ Len(is) \in Nat /\ DOMAIN u \subseteq Nat
  <2>1. Listed(is)
    BY Zenon DEF Annotated
  <2>2. DOMAIN is = 1..Len(is) /\ Len(is) \in Nat
    BY <2>1, ListedAs, Zenon
  <2>3. DOMAIN u = 1..Len(u)
    BY <1>3, ListedAs, Zenon
  <2> QED
    BY <2>2, <2>3
<1>7. \A j \in DOMAIN u : u[j].service \in Nat /\ u[j].service =< p[1]
  BY <1>5
<1>8. ASSUME NEW j \in DOMAIN u, NEW k \in DOMAIN u, j < k PROVE u[j].service =< u[k].service
  <2>1. CASE k \in DOMAIN is /\ u[k] = is[k]
    <3>1. j \in DOMAIN is /\ u[j] = is[j]
      BY <1>5, <1>6, <1>8, <2>1
    <3> QED
      BY <1>8, <2>1, <3>1, Zenon DEF Annotated
  <2>2. CASE u[k].service = p[1]
    BY <1>7, <2>2, Zenon
  <2> QED
    BY <1>5, <2>1, <2>2, Zenon
<1>9. Annotated(ss, ds \cup {p}, copied, u)
  BY <1>3, <1>4, <1>8, Zenon DEF Annotated
<1> QED
  BY <1>7, <1>9, Zenon DEF u

(***************************************************************************)
(* The control of an attempt                                               *)
(***************************************************************************)

LEMMA AScenario ==
  ASSUME NEW sc \in Scenarios
  PROVE  /\ sc.flow \in {DefaultFlow, SpecFlow} /\ IsFiniteSet(DOMAIN sc.mappings)
         /\ Len(sc.services) \in Nat /\ DOMAIN sc.services = 1..Len(sc.services)
         /\ \A i \in DOMAIN sc.services :
              LET owned == sc.services[i].owned IN Len(owned) \in Nat /\ DOMAIN owned = 1..Len(owned)
         /\ IsFiniteSet(OwnedItems(sc.services))
         /\ \A p \in Definitions(sc.services) :
              FinalValue(sc.services, p).status = "found" =>
                IsFiniteSet(EntryItems(p[1], FinalValue(sc.services, p).of))
<1>1. /\ sc.flow \in {DefaultFlow, SpecFlow} /\ IsFiniteSet(DOMAIN sc.mappings)
      /\ Listed(sc.services) /\ \A i \in DOMAIN sc.services : Listed(sc.services[i].owned)
      /\ IsFiniteSet(OwnedItems(sc.services))
      /\ \A p \in Definitions(sc.services) :
           FinalValue(sc.services, p).status = "found" =>
             IsFiniteSet(EntryItems(p[1], FinalValue(sc.services, p).of))
  BY CollectionAssumption, Zenon DEF Listed
<1> QED
  BY <1>1, ListedAs, Zenon

LEMMA Handlers ==
  /\ Range(DefaultFlow) = {"PreFlight", "ProvisionedService", "DirectSecretReference",
       "BindingDefinitions", "BindingItems", "OwnedResources", "Mapping", "Naming", "Persist"}
  /\ Range(SpecFlow) = {"PreFlight", "ProvisionedService", "DirectSecretReference",
       "BindingDefinitions", "BindingItems", "Persist"}
  /\ DefaultFlow[1] = "PreFlight" /\ SpecFlow[1] = "PreFlight" /\ DefaultFlow # SpecFlow
<1>1. DOMAIN DefaultFlow = 1..9 /\ DOMAIN SpecFlow = 1..6
  BY DEF DefaultFlow, SpecFlow
<1>2. Range(DefaultFlow) = {DefaultFlow[1], DefaultFlow[2], DefaultFlow[3], DefaultFlow[4],
        DefaultFlow[5], DefaultFlow[6], DefaultFlow[7], DefaultFlow[8], DefaultFlow[9]}
  BY <1>1 DEF Range
<1>3. Range(SpecFlow) = {SpecFlow[1], SpecFlow[2], SpecFlow[3], SpecFlow[4], SpecFlow[5], SpecFlow[6]}
  BY <1>1 DEF Range
<1>4. DefaultFlow[1] = "PreFlight" /\ SpecFlow[1] = "PreFlight" /\ DefaultFlow[6] # SpecFlow[6]
  BY Zenon DEF DefaultFlow, SpecFlow
<1> QED
  BY <1>2, <1>3, <1>4, Zenon DEF DefaultFlow, SpecFlow

LEMMA NextHandler ==
  /\ Flow \in {DefaultFlow, SpecFlow} =>
       /\ After("PreFlight") = "ProvisionedService"
       /\ After("ProvisionedService") = "DirectSecretReference"
       /\ After("DirectSecretReference") = "BindingDefinitions"
       /\ After("BindingDefinitions") = "BindingItems"
       /\ After("Persist") = "closed"
  /\ Flow = DefaultFlow =>
       /\ After("BindingItems") = "OwnedResources" /\ After("OwnedResources") = "Mapping"
       /\ After("Mapping") = "Naming" /\ After("Naming") = "Persist"
  /\ Flow = SpecFlow => After("BindingItems") = "Persist"
<1>1. ASSUME NEW f, NEW n \in Nat, DOMAIN f = 1..n, Len(f) = n, Flow = f,
             \A j, k \in 1..n : f[j] = f[k] => j = k, NEW k \in 1..n
      PROVE  After(f[k]) = IF k = n THEN "closed" ELSE f[k + 1]
  <2>1. (CHOOSE j \in DOMAIN Flow : Flow[j] = f[k]) = k
    BY <1>1, Zenon
  <2> QED
    BY <1>1, <2>1, Zenon DEF After
<1>2. /\ DOMAIN DefaultFlow = 1..9 /\ Len(DefaultFlow) = 9
      /\ \A j, k \in 1..9 : DefaultFlow[j] = DefaultFlow[k] => j = k
  BY DEF DefaultFlow
<1>3. /\ DOMAIN SpecFlow = 1..6 /\ Len(SpecFlow) = 6
      /\ \A j, k \in 1..6 : SpecFlow[j] = SpecFlow[k] => j = k
  BY DEF SpecFlow
<1>4. ASSUME Flow = DefaultFlow, NEW k \in 1..9
      PROVE  After(DefaultFlow[k]) = IF k = 9 THEN "closed" ELSE DefaultFlow[k + 1]
  BY <1>1, <1>2, <1>4, Zenon
<1>5. ASSUME Flow = SpecFlow, NEW k \in 1..6
      PROVE  After(SpecFlow[k]) = IF k = 6 THEN "closed" ELSE SpecFlow[k + 1]
  BY <1>1, <1>3, <1>5, Zenon
<1>6. ASSUME Flow = DefaultFlow
      PROVE  /\ After(DefaultFlow[1]) = DefaultFlow[2] /\ After(DefaultFlow[2]) = DefaultFlow[3]
             /\ After(DefaultFlow[3]) = DefaultFlow[4] /\ After(DefaultFlow[4]) = DefaultFlow[5]
             /\ After(DefaultFlow[5]) = DefaultFlow[6] /\ After(DefaultFlow[6]) = DefaultFlow[7]
             /\ After(DefaultFlow[7]) = DefaultFlow[8] /\ After(DefaultFlow[8]) = DefaultFlow[9]
             /\ After(DefaultFlow[9]) = "closed"
  BY <1>4, <1>6
<1>7. ASSUME Flow = SpecFlow
      PROVE  /\ After(SpecFlow[1]) = SpecFlow[2] /\ After(SpecFlow[2]) = SpecFlow[3]
             /\ After(SpecFlow[3]) = SpecFlow[4] /\ After(SpecFlow[4]) = SpecFlow[5]
             /\ After(SpecFlow[5]) = SpecFlow[6] /\ After(SpecFlow[6]) = "closed"
  BY <1>5, <1>7
<1> QED
  BY <1>6, <1>7, Zenon DEF DefaultFlow, SpecFlow

\* Which states of the control occur, and that a flow is stopped without a retry
\* only for good, or for a template that fails.
Control ==
  /\ scenario \in Scenarios /\ ready \subseteq Late /\ seen \subseteq ready
  /\ pc \in Range(Flow) \cup {"closed"} /\ flow \in [stop : BOOLEAN, retry : BOOLEAN]
  /\ pending \subseteq Definitions(services) /\ faults \in 0..MaxFaults
  /\ flow.retry => flow.stop
  /\ flow.stop => pc \in {"closed", "BindingItems"}
  /\ flow.stop \/ pc # "closed" => result = NoResult
  /\ flow.stop /\ ~flow.retry => Permanent \/ TemplateFails

LEMMA InitControl == Init => Control
<1> SUFFICES ASSUME Init PROVE Control
  BY Zenon
<1>1. Flow \in {DefaultFlow, SpecFlow}
  BY AScenario, Zenon DEF Init, Flow
<1>2. pc \in Range(Flow)
  BY <1>1, Handlers, Zenon DEF Init
<1> QED
  BY <1>2, CollectionAssumption DEF Init, Control, Running, NoResult

\* What a step does to the control, whatever it does to the data.
Moves ==
  \/ /\ pc # "closed" /\ pc' = "closed" /\ flow' = Retry(flow)
     /\ UNCHANGED <<scenario, ready, seen, pending, result>>
     /\ faults' \in {faults, faults + 1} /\ faults' =< MaxFaults
  \/ /\ pc \notin {"closed", "Persist"} /\ pc' = (IF flow'.stop THEN "closed" ELSE After(pc))
     /\ flow' = flow \/ (flow' = Stop(flow) /\ Permanent)
     /\ seen' \in {seen, ready} /\ pending' \in {pending, Definitions(services)}
     /\ UNCHANGED <<scenario, ready, result, faults>>
  \/ /\ pc = "BindingItems" /\ pc' = pc /\ (flow' = flow \/ (flow' = Stop(flow) /\ Permanent))
     /\ pending' \subseteq pending /\ UNCHANGED <<scenario, ready, seen, result, faults>>
  \/ /\ pc = "Mapping" /\ pc' = "closed" /\ flow' = Stop(flow) /\ TemplateFails'
     /\ UNCHANGED <<scenario, ready, seen, pending, result, faults>>
  \/ /\ pc = "Persist" /\ pc' = (IF flow.stop THEN "closed" ELSE After(pc))
     /\ UNCHANGED <<scenario, ready, seen, flow, pending, faults>>
  \/ /\ pc = "closed" /\ pc' = Flow[1] /\ seen' = {} /\ pending' = {} /\ flow' = Running /\ result' = NoResult
     /\ UNCHANGED <<scenario, ready, faults>>
  \/ /\ ready' \subseteq Late /\ ready \subseteq ready'
     /\ UNCHANGED <<scenario, pc, seen, bindings, items, flow, pending, result, faults>>

LEMMA StepMoves == Control /\ Next => Moves
<1> SUFFICES ASSUME Control, Next PROVE Moves
  BY Zenon
<1>r. faults \in Nat /\ faults =< MaxFaults /\ MaxFaults \in Nat
  BY CollectionAssumption DEF Control
<1>retry. ASSUME pc # "closed", RequestRetry, UNCHANGED faults PROVE Moves
  BY <1>retry, <1>r, Zenon DEF RequestRetry, Leave, Retry, Moves
<1>1. CASE PreFlight
  BY <1>1, Zenon DEF PreFlight, Leave, Moves
<1>2. CASE ProvisionedService
  <2>1. \/ RequestRetry /\ UNCHANGED faults
        \/ Leave(flow) /\ Reads /\ UNCHANGED <<pending, items>>
    BY <1>2, Zenon DEF ProvisionedService
  <2> QED
    BY <1>2, <1>retry, <2>1, Zenon DEF ProvisionedService, Leave, Reads, Moves
<1>3. CASE DirectSecretReference
  <2>1. \/ RequestRetry /\ UNCHANGED faults
        \/ Leave(flow) /\ Reads /\ UNCHANGED <<pending, items>>
    BY <1>3, Zenon DEF DirectSecretReference
  <2> QED
    BY <1>3, <1>retry, <2>1, Zenon DEF DirectSecretReference, Leave, Reads, Moves
<1>4. CASE BindingDefinitions
  <2>1. flow' = flow \/ (flow' = Stop(flow) /\ Permanent)
    BY <1>4, Zenon DEF BindingDefinitions, Leave, Permanent
  <2> QED
    BY <1>4, <2>1, Zenon DEF BindingDefinitions, Leave, Reads, Moves
<1>5. CASE ApplyDefinition
  <2>1. PICK p \in pending :
          LET v == ValueOf(services, p, seen, ready)
          IN  \/ v.status = "error" /\ RequestRetry /\ UNCHANGED faults
              \/ /\ v.status = "absent" /\ pending' = pending \ {p}
                 /\ Reads /\ UNCHANGED <<pc, bindings, items, flow>>
              \/ v.status = "found" /\ CollectItems(p[1], v.of, pending \ {p})
    BY <1>5, Zenon DEF ApplyDefinition
  <2> DEFINE v == ValueOf(services, p, seen, ready)
  <2>2. pc = "BindingItems" /\ p \in Definitions(services)
    BY <1>5, Zenon DEF ApplyDefinition, Control
  <2>3. CASE RequestRetry /\ UNCHANGED faults
    BY <1>retry, <2>2, <2>3, Zenon
  <2>4. CASE pending' = pending \ {p} /\ Reads /\ UNCHANGED <<pc, bindings, items, flow>>
    BY <2>2, <2>4, Zenon DEF Reads, Moves
  <2>5. CASE v.status = "found" /\ CollectItems(p[1], v.of, pending \ {p})
    <3>1. FinalValue(services, p) = v
      BY <2>5, FoundInTheEnd, Zenon
    <3> HIDE DEF v
    <3>2. CASE RequestRetry /\ UNCHANGED faults
      BY <1>retry, <2>2, <3>2, Zenon
    <3>3. CASE /\ pending' = pending \ {p} /\ Reads /\ UNCHANGED <<pc, bindings>>
               /\ flow' = IF \E n \in DOMAIN v.of : HasHole(v.of[n]) THEN Stop(flow) ELSE flow
      <4>1. flow' = flow \/ (flow' = Stop(flow) /\ \E n \in DOMAIN v.of : HasHole(v.of[n]))
        BY <3>3, Zenon
      <4>2. flow' = flow \/ (flow' = Stop(flow) /\ Permanent)
        BY <2>2, <2>5, <3>1, <4>1, Zenon DEF Permanent
      <4>3. pending' \subseteq pending /\ UNCHANGED <<scenario, ready, seen, result, faults, pc>>
        BY <3>3, Zenon DEF Reads
      <4> QED
        BY <2>2, <4>2, <4>3, Zenon DEF Moves
    <3> QED
      BY <2>5, <3>2, <3>3, Zenon DEF CollectItems
  <2> QED
    BY <2>1, <2>3, <2>4, <2>5, Zenon
<1>6. CASE BindingItems
  BY <1>6, Zenon DEF BindingItems, Leave, Reads, Moves
<1>7. CASE OwnedResources
  <2>1. \/ RequestRetry /\ UNCHANGED faults
        \/ Leave(flow) /\ Reads /\ UNCHANGED <<bindings, pending>>
    BY <1>7, Zenon DEF OwnedResources
  <2> QED
    BY <1>7, <1>retry, <2>1, Zenon DEF OwnedResources, Leave, Reads, Moves
<1>d. pc \in {"Mapping", "Naming"} => Flow = DefaultFlow
  BY AScenario, Handlers, Zenon DEF Control, Flow
<1>8. CASE Mapping
  <2> DEFINE data == bindingItemMap(bindings, items)
  <2>1. CASE \E n \in DOMAIN scenario.mappings : Fails(scenario, seen, data, n)
    <3>1. Leave(Stop(flow)) /\ Reads /\ UNCHANGED <<bindings, pending, items>> /\ pc = "Mapping"
      BY <1>8, <2>1, Zenon DEF Mapping
    <3>2. CASE \E n \in DOMAIN scenario.mappings : ~scenario.mappings[n].valid
      BY <1>d, <3>1, <3>2, Zenon DEF Permanent, Leave, Reads, Moves
    <3>3. CASE \A n \in DOMAIN scenario.mappings : scenario.mappings[n].valid
      <4>1. pc' = "closed" /\ flow' = Stop(flow)
        BY <3>1, Zenon DEF Leave, Stop, Control
      <4>2. Flow' = DefaultFlow /\ data' = data /\ UNCHANGED <<scenario, seen, pending>>
        BY <1>d, <3>1, Zenon DEF Flow, Reads
      <4>3. TemplateFails'
        BY <2>1, <3>3, <4>1, <4>2, Zenon DEF TemplateFails
      <4> QED
        BY <3>1, <4>1, <4>2, <4>3, Zenon DEF Reads, Moves
    <3> QED
      BY <3>2, <3>3, Zenon
  <2>2. CASE Leave(flow)
    BY <1>8, <2>2, Zenon DEF Mapping, Leave, Reads, Moves
  <2> QED
    BY <1>8, <2>1, <2>2, Zenon DEF Mapping
<1>9. CASE Naming
  <2>1. Leave(flow) \/ (Leave(Stop(flow)) /\ Permanent)
    BY <1>9, <1>d, Zenon DEF Naming, Permanent
  <2> QED
    BY <1>9, <2>1, Zenon DEF Naming, Leave, Reads, Moves
<1>10. CASE Persist
  BY <1>10, Zenon DEF Persist, Leave, Moves
<1>11. CASE CallFails
  BY <1>11, <1>r DEF CallFails, Fault, RequestRetry, Leave, Retry, Moves
<1>12. CASE Again
  BY <1>12, Zenon DEF Again, Moves
<1>13. CASE Appear
  BY <1>13, Zenon DEF Appear, Moves, Control
<1> QED
  BY <1>1, <1>2, <1>3, <1>4, <1>5, <1>6, <1>7, <1>8, <1>9, <1>10, <1>11, <1>12, <1>13, Zenon
     DEF Next, Handle

LEMMA StepControl == Control /\ [Next]_vars => Control'
<1>1. ASSUME Control, Moves PROVE Control'
  <2>1. scenario' = scenario /\ scenario \in Scenarios /\ Flow \in {DefaultFlow, SpecFlow}
    BY <1>1, AScenario, Zenon DEF Control, Moves, Flow
  <2>2. /\ Flow' = Flow /\ Definitions(services)' = Definitions(services)
        /\ Permanent' = Permanent
    BY <2>1, Zenon DEF Flow, services, Permanent
  <2>3. pc' \in Range(Flow) \cup {"closed"}
    <3>1. pc # "closed" => After(pc) \in Range(Flow) \cup {"closed"}
      BY <1>1, <2>1, NextHandler, Handlers, Zenon DEF Control
    <3>2. Flow[1] \in Range(Flow)
      BY <2>1, Handlers, Zenon
    <3> QED
      BY <1>1, <3>1, <3>2, Zenon DEF Control, Moves
  <2>4. flow' \in [stop : BOOLEAN, retry : BOOLEAN] /\ (flow'.retry => flow'.stop)
    <3>1. flow' \in {flow, Stop(flow), Retry(flow), Running}
      BY <1>1, Zenon DEF Moves
    <3>2. flow \in [stop : BOOLEAN, retry : BOOLEAN] /\ (flow.retry => flow.stop)
      BY <1>1, Zenon DEF Control
    <3>3. /\ Retry(flow) \in [stop : BOOLEAN, retry : BOOLEAN] /\ Retry(flow).stop
          /\ Running \in [stop : BOOLEAN, retry : BOOLEAN] /\ ~Running.retry
      BY Zenon DEF Retry, Running
    <3>4. Stop(flow) \in [stop : BOOLEAN, retry : BOOLEAN]
      BY <3>2, Zenon DEF Stop
    <3>5. Stop(flow).stop
      BY <3>2, Zenon DEF Stop
    <3> QED
      BY <3>1, <3>2, <3>3, <3>4, <3>5, Zenon
  <2>5. flow'.stop => pc' \in {"closed", "BindingItems"}
    BY <1>1 DEF Control, Moves, Retry, Stop, Running
  <2>6. flow'.stop \/ pc' # "closed" => result' = NoResult
    <3>1. pc = "Persist" => After(pc) = "closed" /\ ~flow.stop
      BY <1>1, <2>1, NextHandler, Zenon DEF Control
    <3> QED
      BY <1>1, <3>1 DEF Control, Moves
  <2>7. flow'.stop /\ ~flow'.retry => Permanent \/ TemplateFails'
    <3>1. flow.stop /\ ~flow.retry /\ pc # "closed" => Permanent
      BY <1>1, Zenon DEF Control, TemplateFails
    <3>2. CASE UNCHANGED <<scenario, pc, seen, bindings, items, flow>>
      <4>1. TemplateFails => TemplateFails'
        BY <3>2, Zenon DEF TemplateFails, Flow
      <4> QED
        BY <1>1, <3>2, <4>1, Zenon DEF Control
    <3>3. CASE flow' = Retry(flow) \/ flow' = Running
      BY <3>3 DEF Retry, Running
    <3>4. CASE pc # "closed" /\ (flow' = flow \/ (flow' = Stop(flow) /\ Permanent))
      BY <3>1, <3>4, Zenon
    <3> QED
      BY <1>1, <3>2, <3>3, <3>4, Zenon DEF Moves
  <2>8. /\ ready' \subseteq Late /\ seen' \subseteq ready' /\ pending' \subseteq Definitions(services)
        /\ faults' \in 0..MaxFaults
    BY <1>1, CollectionAssumption DEF Control, Moves
  <2> QED
    BY <2>1, <2>2, <2>3, <2>4, <2>5, <2>6, <2>7, <2>8, Zenon DEF Control, NoResult
<1>2. ASSUME Control, UNCHANGED vars PROVE Control'
  BY <1>2, Zenon DEF Control, vars, Flow, services, Permanent, TemplateFails, NoResult
<1> QED
  BY <1>1, <1>2, StepMoves, Zenon

(***************************************************************************)
(* What an attempt holds after each handler                                *)
(***************************************************************************)

OwnedList(ss, is) == \E q \in OwnedWalks(ss) : is = [j \in DOMAIN q |-> q[j].item]

MappedList(sc, copied, data, is) ==
  \E ns \in Walks(DOMAIN sc.mappings) :
    is = [j \in DOMAIN ns |-> MappedItem(sc, copied, data, ns[j])]

\* The items before Mapping, before Naming and at the end.
Gathered(ss, copied, is) ==
  \E a, o : Annotated(ss, Definitions(ss), copied, a) /\ OwnedList(ss, o) /\ Joins(is, a, o)

Built(sc, copied, bs, is) ==
  \E g, m : /\ Gathered(sc.services, copied, g)
            /\ MappedList(sc, copied, bindingItemMap(bs, g), m) /\ Joins(is, g, m)

Final(sc, copied, is) ==
  IF sc.flow = DefaultFlow
  THEN \E bs, raw : /\ BindingsOf(sc, FALSE, bs, BoundSecrets(sc.services))
                    /\ Built(sc, copied, bs, raw) /\ is = Renamed(sc, raw)
  ELSE Annotated(sc.services, Definitions(sc.services), copied, is)

TypedBindings(ss, bs) ==
  \A b \in DOMAIN bs : bs[b].service \in DOMAIN ss /\ SecretOf(bs[b].secret) \in DOMAIN Objects

TypedItems(ss, is) == Listed(is) /\ \A j \in DOMAIN is : is[j].service \in 0..Len(ss)

LEMMA TypedJoin ==
  ASSUME NEW ss, NEW s, NEW t, NEW u, TypedItems(ss, s), TypedItems(ss, t), Joins(u, s, t)
  PROVE  TypedItems(ss, u)
<1>1. Listed(u) /\ Range(u) = Range(s) \cup Range(t)
  BY ListedConcat, Zenon
<1>2. \A x \in Range(s) \cup Range(t) : x.service \in 0..Len(ss)
  BY Zenon DEF TypedItems, Range
<1>3. \A j \in DOMAIN u : u[j] \in Range(u)
  BY Zenon DEF Range
<1> QED
  BY <1>1, <1>2, <1>3, Zenon DEF TypedItems

LEMMA DefinitionService == \A ss : \A p \in Definitions(ss) : p[1] \in DOMAIN ss
BY DEF Definitions

LEMMA TypedAnnotated ==
  ASSUME NEW sc \in Scenarios, NEW ds, ds \subseteq Definitions(sc.services), NEW copied, NEW is,
         Annotated(sc.services, ds, copied, is)
  PROVE  TypedItems(sc.services, is) /\ \A j \in DOMAIN is : is[j].service \in Nat
<1>1. \A j \in DOMAIN is : \E p \in ds : is[j] \in DefinitionItems(sc.services, p, copied)
  BY Zenon DEF Annotated, Range
<1>2. \A j \in DOMAIN is : is[j].service \in DOMAIN sc.services
  <2> TAKE j \in DOMAIN is
  <2>1. PICK p \in ds : is[j] \in DefinitionItems(sc.services, p, copied)
    BY <1>1, Zenon
  <2>2. is[j].service = p[1]
    BY <2>1, ServiceOfEntry, Zenon DEF DefinitionItems
  <2> QED
    BY <2>2, DefinitionService, Zenon
<1>3. Listed(is)
  BY Zenon DEF Annotated
<1>4. Len(sc.services) \in Nat /\ DOMAIN sc.services = 1..Len(sc.services)
  BY AScenario, Zenon
<1> QED
  BY <1>2, <1>3, <1>4 DEF TypedItems

LEMMA OwnedItemOf ==
  ASSUME NEW ss, NEW x \in OwnedItems(ss)
  PROVE  x.item.service \in DOMAIN ss /\ x.of \in DOMAIN ss[x.item.service].owned
<1>1. PICK i \in DOMAIN ss :
        x \in UNION {{[of |-> o, item |-> Item(y[1], y[2], i)]
                        : y \in ItemsOf(ss[i].owned[o].output, ss[i].owned[o].value)}
                     : o \in DOMAIN ss[i].owned}
  BY Zenon DEF OwnedItems
<1>2. PICK o \in DOMAIN ss[i].owned :
        x \in {[of |-> o, item |-> Item(y[1], y[2], i)]
                 : y \in ItemsOf(ss[i].owned[o].output, ss[i].owned[o].value)}
  BY <1>1, Zenon
<1>3. PICK y \in ItemsOf(ss[i].owned[o].output, ss[i].owned[o].value) :
        x = [of |-> o, item |-> Item(y[1], y[2], i)]
  BY <1>2, Zenon
<1> QED
  BY <1>3, Zenon DEF Item

LEMMA TypedOwned ==
  ASSUME NEW sc \in Scenarios, NEW is, OwnedList(sc.services, is)
  PROVE  TypedItems(sc.services, is)
<1>1. PICK q \in OwnedWalks(sc.services) : is = [j \in DOMAIN q |-> q[j].item]
  BY Zenon DEF OwnedList
<1>2. q \in Walks(OwnedItems(sc.services)) /\ IsFiniteSet(OwnedItems(sc.services))
  BY AScenario, Zenon DEF OwnedWalks
<1>3. Listed(q) /\ Range(q) = OwnedItems(sc.services)
  BY <1>2, WalkOf, Zenon
<1>4. Listed(is) /\ DOMAIN is = DOMAIN q
  BY <1>1, <1>3, ListedImage, Zenon
<1>5. \A j \in DOMAIN q : q[j].item.service \in DOMAIN sc.services
  BY <1>3, OwnedItemOf, Zenon DEF Range
<1>6. Len(sc.services) \in Nat /\ DOMAIN sc.services = 1..Len(sc.services)
  BY AScenario, Zenon
<1> QED
  BY <1>1, <1>4, <1>5, <1>6 DEF TypedItems

LEMMA TypedMapped ==
  ASSUME NEW sc \in Scenarios, NEW copied, NEW data, NEW is, MappedList(sc, copied, data, is)
  PROVE  TypedItems(sc.services, is) /\ \A j \in DOMAIN is : is[j].service = 0
<1>1. PICK ns \in Walks(DOMAIN sc.mappings) :
        is = [j \in DOMAIN ns |-> MappedItem(sc, copied, data, ns[j])]
  BY Zenon DEF MappedList
<1>2. Listed(ns)
  BY AScenario, WalkOf, Zenon
<1>3. Listed(is) /\ DOMAIN is = DOMAIN ns
  BY <1>1, <1>2, ListedImage, Zenon
<1>4. \A j \in DOMAIN is : is[j].service = 0
  BY <1>1, <1>3, Zenon DEF MappedItem, Item
<1>5. 0 \in 0..Len(sc.services)
  BY AScenario
<1> QED
  BY <1>3, <1>4, <1>5, Zenon DEF TypedItems

LEMMA TypedBuilt ==
  ASSUME NEW sc \in Scenarios, NEW copied, NEW bs, NEW is
  PROVE  /\ Gathered(sc.services, copied, is) => TypedItems(sc.services, is)
         /\ Built(sc, copied, bs, is) => TypedItems(sc.services, is)
<1>1. \A g : Gathered(sc.services, copied, g) => TypedItems(sc.services, g)
  <2> SUFFICES ASSUME NEW g, Gathered(sc.services, copied, g) PROVE TypedItems(sc.services, g)
    BY Zenon
  <2>1. PICK a, o : /\ Annotated(sc.services, Definitions(sc.services), copied, a)
                    /\ OwnedList(sc.services, o) /\ Joins(g, a, o)
    BY Zenon DEF Gathered
  <2>2. TypedItems(sc.services, a) /\ TypedItems(sc.services, o)
    BY <2>1, TypedAnnotated, TypedOwned, Zenon
  <2> QED
    BY <2>1, <2>2, TypedJoin, Zenon
<1>2. ASSUME Built(sc, copied, bs, is) PROVE TypedItems(sc.services, is)
  <2>1. PICK g, m : /\ Gathered(sc.services, copied, g)
                    /\ MappedList(sc, copied, bindingItemMap(bs, g), m) /\ Joins(is, g, m)
    BY <1>2, Zenon DEF Built
  <2>2. TypedItems(sc.services, g) /\ TypedItems(sc.services, m)
    BY <1>1, <2>1, TypedMapped, Zenon
  <2> QED
    BY <2>1, <2>2, TypedJoin, Zenon
<1> QED
  BY <1>1, <1>2, Zenon

LEMMA TypedRenamed ==
  ASSUME NEW sc, NEW is, TypedItems(sc.services, is)
  PROVE  /\ TypedItems(sc.services, Renamed(sc, is)) /\ DOMAIN Renamed(sc, is) = DOMAIN is
         /\ \A j \in DOMAIN is : /\ Renamed(sc, is)[j].service = is[j].service
                                 /\ Renamed(sc, is)[j].value = is[j].value
<1> DEFINE r == Renamed(sc, is)
<1>1. \A j \in DOMAIN is : r[j] = Rename(sc, is[j])
  BY Zenon DEF Renamed
<1>2. r = [j \in DOMAIN is |-> r[j]]
  BY Zenon DEF Renamed
<1>3. \A x : Rename(sc, x).service = x.service /\ Rename(sc, x).value = x.value
  BY DEF Rename
<1> HIDE DEF r
<1>4. Listed(r) /\ DOMAIN r = DOMAIN is
  BY <1>2, ListedImage, Zenon DEF TypedItems
<1> QED
  BY <1>1, <1>3, <1>4, Zenon DEF TypedItems, r

LEMMA TypedOfBindings ==
  ASSUME NEW sc, NEW on, NEW bs, NEW L, BindingsOf(sc, on, bs, L)
  PROVE  TypedBindings(sc.services, bs)
<1>1. DOMAIN bs = DOMAIN L
  <2>1. Listed(bs) /\ Listed(L) /\ Len(bs) = Len(L)
    BY Zenon DEF BindingsOf
  <2>2. DOMAIN bs = 1..Len(bs) /\ DOMAIN L = 1..Len(L)
    BY <2>1, ListedAs, Zenon
  <2> QED
    BY <2>1, <2>2, Zenon
<1>2. \A j \in DOMAIN L : bs[j].service = L[j].service /\ bs[j].secret = L[j].secret
  <2> TAKE j \in DOMAIN L
  <2>1. BindingOf(sc, on, bs[j], L[j])
    BY Zenon DEF BindingsOf
  <2> QED
    BY <2>1 DEF BindingOf
<1> QED
  BY <1>1, <1>2, Zenon DEF BindingsOf, TypedBindings

LEMMA RenamedBindings ==
  ASSUME NEW sc, NEW bs, NEW L, BindingsOf(sc, FALSE, bs, L), NEW cs,
         cs = [b \in DOMAIN bs |-> [bs[b] EXCEPT !.items = Renamed(sc, @)]]
  PROVE  BindingsOf(sc, TRUE, cs, L)
<1>1. Listed(bs) /\ Listed(L) /\ Len(bs) = Len(L)
  BY Zenon DEF BindingsOf
<1>2. DOMAIN bs = 1..Len(bs) /\ DOMAIN L = 1..Len(L) /\ Len(bs) \in Nat
  BY <1>1, ListedAs, Zenon
<1>3. Listed(cs) /\ Len(cs) = Len(bs)
  <2>1. cs = [b \in 1..Len(bs) |-> cs[b]]
    BY <1>2, Zenon
  <2> QED
    BY <1>2, <2>1, ListedFunction, Zenon
<1>4. ASSUME NEW j \in DOMAIN L PROVE BindingOf(sc, TRUE, cs[j], L[j])
  <2>1. PICK ks \in Walks(Keys(L[j].secret)) :
          bs[j] = [secret |-> L[j].secret, service |-> L[j].service,
                   items |-> Called(sc, FALSE, SecretBindings(L[j].secret, L[j].service, ks).items)]
    BY <1>4, Zenon DEF BindingsOf, BindingOf
  <2>2. cs[j] = [bs[j] EXCEPT !.items = Renamed(sc, bs[j].items)]
    BY <1>1, <1>2, Zenon
  <2>3. cs[j] = [secret |-> L[j].secret, service |-> L[j].service,
                 items |-> Called(sc, TRUE, SecretBindings(L[j].secret, L[j].service, ks).items)]
    BY <2>1, <2>2 DEF Called
  <2> QED
    BY <2>3, Zenon DEF BindingOf
<1> QED
  BY <1>1, <1>3, <1>4, Zenon DEF BindingsOf

\* The secrets when the handler h is next; done if the flow has come to its
\* end.
BindingStage(sc, h, done, bs) ==
  /\ h \in {"PreFlight", "ProvisionedService"} => bs = <<>>
  /\ h = "DirectSecretReference" => BindingsOf(sc, FALSE, bs, NamedSecrets(sc.services))
  /\ h \in {"BindingDefinitions", "BindingItems", "OwnedResources", "Mapping", "Naming"} =>
       BindingsOf(sc, FALSE, bs, BoundSecrets(sc.services))
  /\ h = "Persist" \/ done => BindingsOf(sc, sc.flow = DefaultFlow, bs, BoundSecrets(sc.services))

\* The items when the handler h is next, and the definitions in todo are
\* still to be applied.
ItemStage(sc, copied, h, done, todo, bs, is) ==
  LET ds == Definitions(sc.services)
  IN  /\ h \in {"PreFlight", "ProvisionedService", "DirectSecretReference", "BindingDefinitions"} => is = <<>>
      /\ h = "BindingItems" => /\ Annotated(sc.services, ds \ todo, copied, is)
                               /\ \A j \in DOMAIN is, p \in todo : is[j].service =< p[1]
      /\ h = "OwnedResources" => Annotated(sc.services, ds, copied, is)
      /\ h = "Mapping" => Gathered(sc.services, copied, is)
      /\ h = "Naming" => Built(sc, copied, bs, is)
      /\ h = "Persist" \/ done => Final(sc, copied, is)

\* What the handlers up to the one that runs next have put into the lists.
Data ==
  /\ TypedBindings(services, bindings) /\ TypedItems(services, items)
  /\ BindingStage(scenario, pc, Collected, bindings)
  /\ ItemStage(scenario, seen, pc, Collected, pending, bindings, items)
  /\ Collected => result = bindingSecretName(services, bindings, items)

LEMMA FirstStage ==
  ASSUME NEW sc, NEW copied, NEW todo
  PROVE  /\ BindingStage(sc, "PreFlight", FALSE, <<>>)
         /\ ItemStage(sc, copied, "PreFlight", FALSE, todo, <<>>, <<>>)
         /\ TypedBindings(sc.services, <<>>) /\ TypedItems(sc.services, <<>>)
BY ListedEmpty, Zenon DEF BindingStage, ItemStage, TypedBindings, TypedItems

LEMMA StoppedStage ==
  ASSUME NEW sc, NEW copied, NEW todo, NEW bs, NEW is
  PROVE  BindingStage(sc, "closed", FALSE, bs) /\ ItemStage(sc, copied, "closed", FALSE, todo, bs, is)
BY Zenon DEF BindingStage, ItemStage

LEMMA SomeServices ==
  ASSUME NEW sc \in Scenarios, NEW S, S \subseteq DOMAIN sc.services
  PROVE  S \subseteq Nat /\ IsFiniteSet(S)
<1>1. DOMAIN sc.services = 1..Len(sc.services) /\ Len(sc.services) \in Nat
  BY AScenario, Zenon
<1>2. IsFiniteSet(1..Len(sc.services))
  BY <1>1, FS_Interval
<1> QED
  BY <1>1, <1>2, FS_Subset

LEMMA InitData == Init => Data
<1> SUFFICES ASSUME Init PROVE Data
  BY Zenon
<1>1. /\ scenario \in Scenarios /\ pc = "PreFlight" /\ bindings = <<>> /\ items = <<>>
      /\ services = scenario.services
  BY AScenario, Handlers, Zenon DEF Init, Flow, services
<1>2. Collected = FALSE
  BY <1>1, Zenon DEF Collected
<1> QED
  BY <1>1, <1>2, FirstStage, Zenon DEF Data

LEMMA SecretsAdded ==
  ASSUME scenario \in Scenarios, NEW S, S \subseteq DOMAIN services, NEW f,
         \A i \in S : SecretOf(f[i]) \in Readable, AddBindings(S, f)
  PROVE  \E bs : bindings' = bindings \o bs /\ BindingsOf(scenario, FALSE, bs, Loop(S, f))
<1>1. PICK is \in InOrder(S) : \E ks \in [DOMAIN is -> UNION {Walks(Keys(f[i])) : i \in S}] :
        /\ \A j \in DOMAIN is : ks[j] \in Walks(Keys(f[is[j]]))
        /\ bindings' = bindings \o [j \in DOMAIN is |-> SecretBindings(f[is[j]], is[j], ks[j])]
  BY Zenon DEF AddBindings
<1>5. PICK ks \in [DOMAIN is -> UNION {Walks(Keys(f[i])) : i \in S}] :
        /\ \A j \in DOMAIN is : ks[j] \in Walks(Keys(f[is[j]]))
        /\ bindings' = bindings \o [j \in DOMAIN is |-> SecretBindings(f[is[j]], is[j], ks[j])]
  BY <1>1, Zenon
<1>2. \A i \in S : SecretOf(f[i]) \in DOMAIN Objects
  BY Zenon DEF Readable, ObjectsIn
<1>3. S \subseteq DOMAIN scenario.services /\ S \subseteq Nat /\ IsFiniteSet(S)
  BY SomeServices, Zenon DEF services
<1>4. BindingsOf(scenario, FALSE, [j \in DOMAIN is |-> SecretBindings(f[is[j]], is[j], ks[j])], Loop(S, f))
  BY <1>5, <1>2, <1>3, AddedBindings, Zenon
<1> QED
  BY <1>5, <1>4, Zenon

LEMMA StepData == Control /\ Data /\ [Next]_vars => Data'
<1> SUFFICES ASSUME Control, Data, [Next]_vars PROVE Data'
  BY Zenon
<1>sc. scenario \in Scenarios /\ Flow \in {DefaultFlow, SpecFlow} /\ services = scenario.services
  BY AScenario, Zenon DEF Control, Flow, services
<1>stop. ASSUME pc' = "closed", flow'.stop, UNCHANGED <<scenario, bindings, items>> PROVE Data'
  <2>1. Collected' = FALSE /\ services' = services
    BY <1>stop, Zenon DEF Collected, services
  <2> QED
    BY <1>stop, <2>1, StoppedStage, Zenon DEF Data
<1>retry. ASSUME RequestRetry PROVE Data'
  <2>1. pc' = "closed" /\ flow'.stop /\ UNCHANGED <<scenario, bindings, items>>
    BY <1>retry, Zenon DEF RequestRetry, Leave, Retry
  <2> QED
    BY <1>stop, <2>1, Zenon
\* The handler is left for one that is not the end.
<1>on. ASSUME pc' # "closed", UNCHANGED scenario,
              TypedBindings(services, bindings'), TypedItems(services, items'),
              BindingStage(scenario, pc', FALSE, bindings'),
              ItemStage(scenario, seen', pc', FALSE, pending', bindings', items')
       PROVE  Data'
  <2>1. Collected' = FALSE /\ services' = services
    BY <1>on, Zenon DEF Collected, services
  <2> QED
    BY <1>on, <2>1, Zenon DEF Data
<1>data. /\ TypedBindings(services, bindings) /\ TypedItems(services, items)
         /\ BindingStage(scenario, pc, Collected, bindings)
         /\ ItemStage(scenario, seen, pc, Collected, pending, bindings, items)
  BY Zenon DEF Data
<1>1. CASE PreFlight
  <2>1. pc = "PreFlight" /\ ~flow.stop /\ UNCHANGED <<scenario, bindings, items>>
    BY <1>1, Zenon DEF PreFlight, Control
  <2>2. pc' = "ProvisionedService"
    BY <1>1, <1>sc, <2>1, NextHandler, Zenon DEF PreFlight, Leave
  <2>3. bindings = <<>> /\ items = <<>>
    BY <1>data, <2>1, Zenon DEF BindingStage, ItemStage
  <2>4. /\ BindingStage(scenario, "ProvisionedService", FALSE, <<>>)
        /\ ItemStage(scenario, seen', "ProvisionedService", FALSE, pending', <<>>, <<>>)
    BY Zenon DEF BindingStage, ItemStage
  <2> QED
    BY <1>data, <1>on, <2>1, <2>2, <2>3, <2>4, Zenon
<1>2. CASE ProvisionedService
  <2> DEFINE f == [i \in DOMAIN services |-> services[i].binding]
             S == Provisioned(services)
  <2>1. CASE RequestRetry
    BY <1>retry, <2>1, Zenon
  <2>2. CASE /\ \A i \in S : SecretOf(services[i].binding) \in Readable
             /\ AddBindings(S, f) /\ Leave(flow) /\ Reads /\ UNCHANGED <<pending, items>>
    <3>1. pc = "ProvisionedService" /\ ~flow.stop /\ UNCHANGED <<scenario, items>>
      BY <1>2, <2>2, Zenon DEF ProvisionedService, Control, Reads
    <3>2. pc' = "DirectSecretReference"
      BY <1>sc, <2>2, <3>1, NextHandler, Zenon DEF Leave
    <3>3. bindings = <<>> /\ items = <<>>
      BY <1>data, <3>1, Zenon DEF BindingStage, ItemStage
    <3>4. S \subseteq DOMAIN services /\ \A i \in S : f[i] = services[i].binding
      BY Zenon DEF Provisioned
    <3>5. \A i \in S : SecretOf(f[i]) \in Readable
      BY <2>2, <3>4, Zenon
    <3>6. NamedSecrets(services) = Loop(S, f)
      BY Zenon DEF NamedSecrets
    <3> HIDE DEF f, S
    <3>7. PICK bs : bindings' = bindings \o bs /\ BindingsOf(scenario, FALSE, bs, Loop(S, f))
      BY <1>sc, <2>2, <3>4, <3>5, SecretsAdded, Zenon
    <3>8. Listed(bs)
      BY <3>7, Zenon DEF BindingsOf
    <3>9. bindings' = bs
      BY <3>3, <3>7, <3>8, ConcatEmptySeq, Zenon DEF Listed
    <3>10. BindingsOf(scenario, FALSE, bindings', NamedSecrets(services))
      BY <3>6, <3>7, <3>9, Zenon
    <3>11. TypedBindings(services, bindings')
      BY <1>sc, <3>10, TypedOfBindings, Zenon
    <3>12. /\ BindingStage(scenario, "DirectSecretReference", FALSE, bindings')
           /\ ItemStage(scenario, seen', "DirectSecretReference", FALSE, pending', bindings', <<>>)
      BY <1>sc, <3>10, Zenon DEF BindingStage, ItemStage
    <3> QED
      BY <1>data, <1>on, <3>1, <3>2, <3>3, <3>11, <3>12, Zenon
  <2> QED
    BY <1>2, <2>1, <2>2, Zenon DEF ProvisionedService
<1>3. CASE DirectSecretReference
  <2> DEFINE f == [i \in DOMAIN services |-> services[i].secret]
             S == DirectSecrets(services)
  <2>1. CASE RequestRetry
    BY <1>retry, <2>1, Zenon
  <2>2. CASE /\ \A i \in S : SecretOf(services[i].secret) \in Readable
             /\ AddBindings(S, f) /\ Leave(flow) /\ Reads /\ UNCHANGED <<pending, items>>
    <3>1. pc = "DirectSecretReference" /\ ~flow.stop /\ UNCHANGED <<scenario, items>>
      BY <1>3, <2>2, Zenon DEF DirectSecretReference, Control, Reads
    <3>2. pc' = "BindingDefinitions"
      BY <1>sc, <2>2, <3>1, NextHandler, Zenon DEF Leave
    <3>3. BindingsOf(scenario, FALSE, bindings, NamedSecrets(services)) /\ items = <<>>
      BY <1>sc, <1>data, <3>1, Zenon DEF BindingStage, ItemStage
    <3>4. S \subseteq DOMAIN services /\ \A i \in S : f[i] = services[i].secret
      BY Zenon DEF DirectSecrets
    <3>5. \A i \in S : SecretOf(f[i]) \in Readable
      BY <2>2, <3>4, Zenon
    <3>6. BoundSecrets(services) = NamedSecrets(services) \o Loop(S, f)
      BY Zenon DEF BoundSecrets
    <3> HIDE DEF f, S
    <3>7. PICK bs : bindings' = bindings \o bs /\ BindingsOf(scenario, FALSE, bs, Loop(S, f))
      BY <1>sc, <2>2, <3>4, <3>5, SecretsAdded, Zenon
    <3>8. BindingsOf(scenario, FALSE, bindings \o bs, NamedSecrets(services) \o Loop(S, f))
      BY <3>3, <3>7, JoinedBindings, Zenon
    <3>10. BindingsOf(scenario, FALSE, bindings', BoundSecrets(services))
      BY <3>6, <3>7, <3>8, Zenon
    <3>11. TypedBindings(services, bindings')
      BY <1>sc, <3>10, TypedOfBindings, Zenon
    <3>12. /\ BindingStage(scenario, "BindingDefinitions", FALSE, bindings')
           /\ ItemStage(scenario, seen', "BindingDefinitions", FALSE, pending', bindings', <<>>)
      BY <1>sc, <3>10, Zenon DEF BindingStage, ItemStage
    <3> QED
      BY <1>data, <1>on, <3>1, <3>2, <3>3, <3>11, <3>12, Zenon
  <2> QED
    BY <1>3, <2>1, <2>2, Zenon DEF DirectSecretReference
<1>4. CASE BindingDefinitions
  <2>1. pc = "BindingDefinitions" /\ ~flow.stop /\ UNCHANGED <<scenario, bindings, items>>
    BY <1>4, Zenon DEF BindingDefinitions, Control, Reads
  <2>2. CASE flow'.stop
    <3>1. pc' = "closed"
      BY <1>4, <2>2, Zenon DEF BindingDefinitions, Leave
    <3> QED
      BY <1>stop, <2>1, <2>2, <3>1, Zenon
  <2>3. CASE ~flow'.stop
    <3>1. pc' = "BindingItems" /\ pending' = Definitions(services)
      BY <1>4, <1>sc, <2>1, <2>3, NextHandler, Zenon DEF BindingDefinitions, Leave
    <3>2. items = <<>> /\ BindingsOf(scenario, FALSE, bindings, BoundSecrets(services))
      BY <1>data, <1>sc, <2>1, Zenon DEF BindingStage, ItemStage
    <3>3. Annotated(services, Definitions(services) \ Definitions(services), seen', <<>>)
      <4>1. Definitions(services) \ Definitions(services) = {}
        BY Zenon
      <4> QED
        BY <4>1, NothingAnnotated, Zenon
    <3>4. BindingStage(scenario, "BindingItems", FALSE, bindings)
      BY <1>sc, <3>2, Zenon DEF BindingStage
    <3>5. ItemStage(scenario, seen', "BindingItems", FALSE, Definitions(services), bindings, <<>>)
      BY <1>sc, <3>3, ListedEmpty, Zenon DEF ItemStage
    <3> QED
      BY <1>data, <1>on, <2>1, <3>1, <3>2, <3>4, <3>5, Zenon
  <2> QED
    BY <2>2, <2>3, Zenon
<1>5. CASE ApplyDefinition
  <2>1. PICK p \in pending :
          /\ \A q \in pending : p[1] <= q[1]
          /\ LET v == ValueOf(services, p, seen, ready)
             IN  \/ v.status = "error" /\ RequestRetry /\ UNCHANGED faults
                 \/ /\ v.status = "absent" /\ pending' = pending \ {p}
                    /\ Reads /\ UNCHANGED <<pc, bindings, items, flow>>
                 \/ v.status = "found" /\ CollectItems(p[1], v.of, pending \ {p})
    BY <1>5, Zenon DEF ApplyDefinition
  <2> DEFINE v == ValueOf(services, p, seen, ready)
             ds == Definitions(services)
  <2>2. pc = "BindingItems" /\ pending \subseteq ds
    BY <1>5, Zenon DEF ApplyDefinition, Control
  <2>3. /\ BindingsOf(scenario, FALSE, bindings, BoundSecrets(services))
        /\ Annotated(services, ds \ pending, seen, items)
        /\ \A j \in DOMAIN items, q \in pending : items[j].service =< q[1]
    BY <1>data, <1>sc, <2>2, Zenon DEF BindingStage, ItemStage
  <2>4. BindingStage(scenario, "BindingItems", FALSE, bindings)
    BY <1>sc, <2>3, Zenon DEF BindingStage
  <2>5. p \in ds /\ ds \ (pending \ {p}) = (ds \ pending) \cup {p}
    BY <2>2, Zenon
  <2>6. \A q \in ds : q[1] \in Nat
    BY <1>sc, DefinitionService, AScenario
  <2>7. \A j \in DOMAIN items : items[j].service \in Nat /\ items[j].service =< p[1]
    BY <1>sc, <2>3, TypedAnnotated, Zenon
  <2>added. ASSUME NEW q, Listed(q), Range(q) = DefinitionItems(services, p, seen),
                   items' = items \o q, pending' = pending \ {p}, UNCHANGED <<scenario, seen, pc, bindings>>
            PROVE  Data'
    <3>1. /\ Annotated(services, (ds \ pending) \cup {p}, seen, items \o q)
          /\ \A j \in DOMAIN (items \o q) : (items \o q)[j].service \in Nat /\ (items \o q)[j].service =< p[1]
      BY <2>3, <2>5, <2>6, <2>7, <2>added, AnnotatedNext, Zenon
    <3>2. /\ Annotated(services, ds \ pending', seen', items')
          /\ \A j \in DOMAIN items' : items'[j].service \in Nat /\ items'[j].service =< p[1]
      BY <2>5, <2>added, <3>1, Zenon
    <3>3. \A j \in DOMAIN items', r \in pending' : items'[j].service =< r[1]
      BY <2>1, <2>2, <2>6, <2>added, <3>2
    <3>4. TypedItems(services, items')
      BY <1>sc, <3>2, TypedAnnotated, Zenon
    <3>5. ItemStage(scenario, seen', "BindingItems", FALSE, pending', bindings', items')
      BY <1>sc, <3>2, <3>3, Zenon DEF ItemStage
    <3> QED
      BY <1>data, <1>on, <2>2, <2>4, <2>added, <3>4, <3>5, Zenon
  <2>8. CASE RequestRetry
    BY <1>retry, <2>8, Zenon
  <2>9. CASE v.status = "absent" /\ pending' = pending \ {p} /\ Reads /\ UNCHANGED <<pc, bindings, items, flow>>
    <3>1. Missing(services, p, seen)
      BY <2>9, FoundInTheEnd, Zenon
    <3>2. DefinitionItems(services, p, seen) = {} /\ Range(<<>>) = {}
      BY <3>1, ListedEmpty, Zenon DEF DefinitionItems, Range
    <3>3. items' = items \o <<>>
      BY <2>9, <1>data, ConcatEmptySeq, Zenon DEF TypedItems, Listed
    <3> QED
      BY <2>9, <2>added, <3>2, <3>3, ListedEmpty, Zenon DEF Reads
  <2>10. CASE v.status = "found" /\ CollectItems(p[1], v.of, pending \ {p})
    <3>1. FinalValue(services, p) = v /\ ~Missing(services, p, seen)
      BY <2>10, FoundInTheEnd, Zenon
    <3> HIDE DEF v
    <3>2. CASE RequestRetry
      BY <1>retry, <3>2, Zenon
    <3>3. CASE /\ \E q \in Walks(EntryItems(p[1], v.of)) : items' = items \o q
               /\ pending' = pending \ {p} /\ Reads /\ UNCHANGED <<pc, bindings>>
      <4>1. PICK q \in Walks(EntryItems(p[1], v.of)) : items' = items \o q
        BY <3>3, Zenon
      <4>2. IsFiniteSet(EntryItems(p[1], v.of))
        BY <1>sc, <2>5, <2>10, <3>1, AScenario, Zenon
      <4>3. Listed(q) /\ Range(q) = EntryItems(p[1], v.of)
        BY <4>2, WalkOf, Zenon
      <4>4. Range(q) = DefinitionItems(services, p, seen)
        BY <2>10, <3>1, <4>3, Zenon DEF DefinitionItems
      <4> QED
        BY <2>added, <3>3, <4>1, <4>3, <4>4, Zenon DEF Reads
    <3> QED
      BY <2>10, <3>2, <3>3, Zenon DEF CollectItems
  <2> QED
    BY <2>1, <2>8, <2>9, <2>10, Zenon
<1>6. CASE BindingItems
  <2>1. /\ pc = "BindingItems" /\ pending = {} /\ flow' = flow
        /\ UNCHANGED <<scenario, seen, bindings, pending, items>>
    BY <1>6, Zenon DEF BindingItems, Leave, Reads
  <2>2. /\ BindingsOf(scenario, FALSE, bindings, BoundSecrets(services))
        /\ Annotated(services, Definitions(services) \ pending, seen, items)
    BY <1>data, <1>sc, <2>1, Zenon DEF BindingStage, ItemStage
  <2>3. Annotated(services, Definitions(services), seen, items)
    <3>1. Definitions(services) \ pending = Definitions(services)
      BY <2>1, Zenon
    <3> QED
      BY <2>2, <3>1, Zenon
  <2>4. CASE flow.stop
    <3>1. pc' = "closed"
      BY <1>6, <2>4, Zenon DEF BindingItems, Leave
    <3> QED
      BY <1>stop, <2>1, <2>4, <3>1, Zenon
  <2>5. CASE ~flow.stop /\ Flow = DefaultFlow
    <3>1. pc' = "OwnedResources"
      BY <1>6, <2>1, <2>5, NextHandler, Zenon DEF BindingItems, Leave
    <3>2. BindingStage(scenario, "OwnedResources", FALSE, bindings)
      BY <1>sc, <2>2, Zenon DEF BindingStage
    <3>3. ItemStage(scenario, seen, "OwnedResources", FALSE, pending, bindings, items)
      BY <1>sc, <2>3, Zenon DEF ItemStage
    <3> QED
      BY <1>data, <1>on, <2>1, <3>1, <3>2, <3>3, Zenon
  <2>6. CASE ~flow.stop /\ Flow = SpecFlow
    <3>1. pc' = "Persist"
      BY <1>6, <2>1, <2>6, NextHandler, Zenon DEF BindingItems, Leave
    <3>2. (scenario.flow = DefaultFlow) = FALSE
      BY <2>6, Handlers, Zenon DEF Flow
    <3>3. BindingStage(scenario, "Persist", FALSE, bindings)
      BY <1>sc, <2>2, <3>2, Zenon DEF BindingStage
    <3>4. Final(scenario, seen, items)
      BY <1>sc, <2>3, <3>2, Zenon DEF Final
    <3>5. ItemStage(scenario, seen, "Persist", FALSE, pending, bindings, items)
      BY <3>4, Zenon DEF ItemStage
    <3> QED
      BY <1>data, <1>on, <2>1, <3>1, <3>3, <3>5, Zenon
  <2> QED
    BY <1>sc, <2>4, <2>5, <2>6, Zenon
<1>default. pc \in {"OwnedResources", "Mapping", "Naming"} => Flow = DefaultFlow
  BY <1>sc, Handlers, Zenon DEF Control
<1>7. CASE OwnedResources
  <2>1. CASE RequestRetry
    BY <1>retry, <2>1, Zenon
  <2>2. CASE /\ \E q \in OwnedWalks(services) : items' = items \o [j \in DOMAIN q |-> q[j].item]
             /\ Leave(flow) /\ Reads /\ UNCHANGED <<bindings, pending>>
    <3>1. pc = "OwnedResources" /\ ~flow.stop /\ UNCHANGED <<scenario, seen, bindings, pending>>
      BY <1>7, <2>2, Zenon DEF OwnedResources, Control, Reads
    <3>2. pc' = "Mapping"
      BY <1>default, <2>2, <3>1, NextHandler, Zenon DEF Leave
    <3>3. /\ BindingsOf(scenario, FALSE, bindings, BoundSecrets(services))
          /\ Annotated(services, Definitions(services), seen, items)
      BY <1>data, <1>sc, <3>1, Zenon DEF BindingStage, ItemStage
    <3>4. PICK o : OwnedList(services, o) /\ items' = items \o o
      BY <2>2, Zenon DEF OwnedList
    <3>5. TypedItems(services, o)
      BY <1>sc, <3>4, TypedOwned, Zenon
    <3>6. Joins(items', items, o)
      BY <1>data, <3>4, <3>5, Zenon DEF Joins, TypedItems
    <3>7. Gathered(services, seen, items')
      BY <3>3, <3>4, <3>6, Zenon DEF Gathered
    <3>8. TypedItems(services, items')
      BY <1>data, <3>5, <3>6, TypedJoin, Zenon
    <3>9. BindingStage(scenario, "Mapping", FALSE, bindings)
      BY <1>sc, <3>3, Zenon DEF BindingStage
    <3>10. ItemStage(scenario, seen, "Mapping", FALSE, pending, bindings, items')
      BY <1>sc, <3>7, Zenon DEF ItemStage
    <3> QED
      BY <1>data, <1>on, <3>1, <3>2, <3>8, <3>9, <3>10, Zenon
  <2> QED
    BY <1>7, <2>1, <2>2, Zenon DEF OwnedResources
<1>8. CASE Mapping
  <2> DEFINE data == bindingItemMap(bindings, items)
  <2>1. pc = "Mapping" /\ ~flow.stop /\ UNCHANGED <<scenario, seen, bindings, pending>>
    BY <1>8, Zenon DEF Mapping, Control, Reads
  <2>2. CASE Leave(Stop(flow)) /\ UNCHANGED items
    <3>1. flow'.stop /\ pc' = "closed"
      BY <2>2, Zenon DEF Leave, Stop, Control
    <3> QED
      BY <1>stop, <2>1, <2>2, <3>1, Zenon
  <2>3. CASE /\ \E ns \in Walks(DOMAIN scenario.mappings) :
                  items' = items \o [j \in DOMAIN ns |-> MappedItem(scenario, seen, data, ns[j])]
             /\ Leave(flow)
    <3>1. pc' = "Naming"
      BY <1>default, <2>1, <2>3, NextHandler, Zenon DEF Leave
    <3>2. /\ BindingsOf(scenario, FALSE, bindings, BoundSecrets(services))
          /\ Gathered(services, seen, items)
      BY <1>data, <1>sc, <2>1, Zenon DEF BindingStage, ItemStage
    <3>3. PICK m : MappedList(scenario, seen, data, m) /\ items' = items \o m
      BY <2>3, Zenon DEF MappedList
    <3>4. TypedItems(services, m)
      BY <1>sc, <3>3, TypedMapped, Zenon
    <3>5. Joins(items', items, m)
      BY <1>data, <3>3, <3>4, Zenon DEF Joins, TypedItems
    <3>6. Built(scenario, seen, bindings, items')
      BY <1>sc, <3>2, <3>3, <3>5, Zenon DEF Built
    <3>7. TypedItems(services, items')
      BY <1>data, <3>4, <3>5, TypedJoin, Zenon
    <3>8. BindingStage(scenario, "Naming", FALSE, bindings)
      BY <1>sc, <3>2, Zenon DEF BindingStage
    <3>9. ItemStage(scenario, seen, "Naming", FALSE, pending, bindings, items')
      BY <3>6, Zenon DEF ItemStage
    <3> QED
      BY <1>data, <1>on, <2>1, <3>1, <3>7, <3>8, <3>9, Zenon
  <2> QED
    BY <1>8, <2>2, <2>3, Zenon DEF Mapping
<1>9. CASE Naming
  <2>1. pc = "Naming" /\ ~flow.stop /\ UNCHANGED <<scenario, seen, pending>>
    BY <1>9, Zenon DEF Naming, Control, Reads
  <2>2. CASE Leave(Stop(flow)) /\ UNCHANGED <<bindings, items>>
    <3>1. flow'.stop /\ pc' = "closed"
      BY <2>2, Zenon DEF Leave, Stop, Control
    <3> QED
      BY <1>stop, <2>1, <2>2, <3>1, Zenon
  <2>3. CASE /\ items' = Renamed(scenario, items)
             /\ bindings' = [b \in DOMAIN bindings |-> [bindings[b] EXCEPT !.items = Renamed(scenario, @)]]
             /\ Leave(flow)
    <3>1. pc' = "Persist" /\ (scenario.flow = DefaultFlow) = TRUE
      BY <1>default, <2>1, <2>3, NextHandler, Zenon DEF Leave, Flow
    <3>2. /\ BindingsOf(scenario, FALSE, bindings, BoundSecrets(services))
          /\ Built(scenario, seen, bindings, items)
      BY <1>data, <1>sc, <2>1, Zenon DEF BindingStage, ItemStage
    <3>3. BindingsOf(scenario, TRUE, bindings', BoundSecrets(services))
      BY <2>3, <3>2, RenamedBindings, Zenon
    <3>4. Final(scenario, seen, items')
      BY <1>sc, <2>3, <3>1, <3>2, Zenon DEF Final
    <3>5. TypedBindings(services, bindings') /\ TypedItems(services, items')
      BY <1>data, <1>sc, <2>3, <3>3, TypedOfBindings, TypedRenamed, Zenon
    <3>6. BindingStage(scenario, "Persist", FALSE, bindings')
      BY <1>sc, <3>1, <3>3, Zenon DEF BindingStage
    <3>7. ItemStage(scenario, seen, "Persist", FALSE, pending, bindings', items')
      BY <3>4, Zenon DEF ItemStage
    <3> QED
      BY <1>on, <2>1, <3>1, <3>5, <3>6, <3>7, Zenon
  <2> QED
    BY <1>9, <2>2, <2>3, Zenon DEF Naming
<1>10. CASE Persist
  <2>1. /\ pc = "Persist" /\ ~flow.stop /\ UNCHANGED <<scenario, seen, bindings, pending, items>>
        /\ result' = bindingSecretName(services, bindings, items)
    BY <1>10, Zenon DEF Persist, Control
  <2>2. pc' = "closed" /\ flow' = flow /\ services' = services
    BY <1>10, <1>sc, <2>1, NextHandler, Zenon DEF Persist, Leave, services
  <2>3. /\ BindingsOf(scenario, scenario.flow = DefaultFlow, bindings, BoundSecrets(services))
        /\ Final(scenario, seen, items)
    BY <1>data, <1>sc, <2>1, Zenon DEF BindingStage, ItemStage
  <2>4. BindingStage(scenario, "closed", Collected', bindings)
    BY <1>sc, <2>3, Zenon DEF BindingStage
  <2>5. ItemStage(scenario, seen, "closed", Collected', pending, bindings, items)
    BY <2>3, Zenon DEF ItemStage
  <2> QED
    BY <1>data, <2>1, <2>2, <2>4, <2>5, Zenon DEF Data
<1>11. CASE CallFails
  BY <1>11, <1>retry, Zenon DEF CallFails
<1>12. CASE Again
  <2>1. pc' = "PreFlight" /\ bindings' = <<>> /\ items' = <<>> /\ UNCHANGED scenario
    BY <1>12, <1>sc, Handlers, Zenon DEF Again
  <2> QED
    BY <1>on, <1>sc, <2>1, FirstStage, Zenon
<1>13. CASE UNCHANGED <<scenario, pc, seen, bindings, pending, items, flow, result>>
  BY <1>13, Zenon DEF Data, Collected, services
<1> QED
  BY <1>1, <1>2, <1>3, <1>4, <1>5, <1>6, <1>7, <1>8, <1>9, <1>10, <1>11, <1>12, <1>13, Zenon
     DEF Next, Handle, Appear, vars

\* Past BindingDefinitions, in a flow that has not been stopped: nothing is
\* malformed, and every definition that was applied had a value, or is optional
\* and the copy of its service has none.
Applied ==
  ~flow.stop /\ pc \notin {"PreFlight", "ProvisionedService", "DirectSecretReference", "BindingDefinitions"} =>
    /\ pc # "BindingItems" => pending = {}
    /\ \A i \in DOMAIN services : ~Malformed(services[i])
    /\ \A p \in Definitions(services) \ pending :
         Missing(services, p, seen) \/ FinalValue(services, p).status = "found"

LEMMA StepApplied == Control /\ Applied /\ [Next]_vars => Applied'
<1> SUFFICES ASSUME Control, Applied, [Next]_vars PROVE Applied'
  BY Zenon
<1> DEFINE Early == {"PreFlight", "ProvisionedService", "DirectSecretReference", "BindingDefinitions"}
<1>sc. scenario \in Scenarios /\ Flow \in {DefaultFlow, SpecFlow} /\ services = scenario.services
  BY AScenario, Zenon DEF Control, Flow, services
<1>early. ASSUME pc' \in Early PROVE Applied'
  BY <1>early, Zenon DEF Applied
<1>stop. ASSUME flow'.stop PROVE Applied'
  BY <1>stop, Zenon DEF Applied
<1>retry. ASSUME RequestRetry PROVE Applied'
  BY <1>retry, <1>stop, Zenon DEF RequestRetry, Leave, Retry
\* A handler that leaves the definitions alone.
<1>on. ASSUME UNCHANGED <<scenario, seen, pending>>, pc \notin Early, ~flow.stop,
              pc # "BindingItems" \/ pending = {}
       PROVE  Applied'
  BY <1>on, Zenon DEF Applied, services
<1>1. CASE PreFlight \/ ProvisionedService \/ DirectSecretReference
  <2>1. pc \in {"PreFlight", "ProvisionedService", "DirectSecretReference"} /\ ~flow.stop
    BY <1>1, Zenon DEF PreFlight, ProvisionedService, DirectSecretReference, Control
  <2>2. Leave(flow) \/ RequestRetry
    BY <1>1, Zenon DEF PreFlight, ProvisionedService, DirectSecretReference
  <2>3. CASE Leave(flow)
    <3>1. pc' = After(pc)
      BY <2>1, <2>3, Zenon DEF Leave
    <3> QED
      BY <1>early, <1>sc, <2>1, <3>1, NextHandler, Zenon
  <2> QED
    BY <1>retry, <2>2, <2>3, Zenon
<1>2. CASE BindingDefinitions
  <2>1. /\ pending' = Definitions(services) /\ UNCHANGED scenario /\ pc = "BindingDefinitions"
        /\ Leave(IF \E i \in DOMAIN services : Malformed(services[i]) THEN Stop(flow) ELSE flow)
    BY <1>2, Zenon DEF BindingDefinitions, Reads
  <2>2. CASE \E i \in DOMAIN services : Malformed(services[i])
    BY <1>stop, <2>1, <2>2, Zenon DEF Leave, Stop, Control
  <2>3. CASE ~flow.stop /\ ~\E i \in DOMAIN services : Malformed(services[i])
    <3>1. pc' = "BindingItems"
      BY <1>sc, <2>1, <2>3, NextHandler, Zenon DEF Leave
    <3>2. services' = services /\ Definitions(services) \ pending' = {}
      BY <2>1, Zenon DEF services
    <3> QED
      BY <2>3, <3>1, <3>2, Zenon DEF Applied
  <2> QED
    BY <2>1, <2>2, <2>3, Zenon DEF Control
<1>3. CASE ApplyDefinition
  <2>1. PICK p \in pending :
          LET v == ValueOf(services, p, seen, ready)
          IN  \/ v.status = "error" /\ RequestRetry /\ UNCHANGED faults
              \/ /\ v.status = "absent" /\ pending' = pending \ {p}
                 /\ Reads /\ UNCHANGED <<pc, bindings, items, flow>>
              \/ v.status = "found" /\ CollectItems(p[1], v.of, pending \ {p})
    BY <1>3, Zenon DEF ApplyDefinition
  <2> DEFINE v == ValueOf(services, p, seen, ready)
  <2>2. pc = "BindingItems"
    BY <1>3, Zenon DEF ApplyDefinition
  <2>3. ASSUME v.status \in {"absent", "found"}, pending' = pending \ {p}, ~flow.stop,
               UNCHANGED <<scenario, seen, pc>>
        PROVE  Applied'
    <3>1. Missing(services, p, seen) \/ FinalValue(services, p).status = "found"
      BY <2>3, FoundInTheEnd, Zenon
    <3>2. /\ \A i \in DOMAIN services : ~Malformed(services[i])
          /\ \A q \in Definitions(services) \ pending :
               Missing(services, q, seen) \/ FinalValue(services, q).status = "found"
      BY <2>2, <2>3, Zenon DEF Applied
    <3>3. \A q \in Definitions(services) \ pending' :
            Missing(services, q, seen) \/ FinalValue(services, q).status = "found"
      BY <2>3, <3>1, <3>2, Zenon
    <3>4. services' = services
      BY <2>3, Zenon DEF services
    <3> QED
      BY <2>2, <2>3, <3>2, <3>3, <3>4, Zenon DEF Applied
  <2>4. CASE RequestRetry
    BY <1>retry, <2>4, Zenon
  <2>5. CASE v.status = "absent" /\ pending' = pending \ {p} /\ Reads /\ UNCHANGED <<pc, bindings, items, flow>>
    BY <1>stop, <2>3, <2>5, Zenon DEF Reads
  <2>6. CASE v.status = "found" /\ CollectItems(p[1], v.of, pending \ {p})
    <3> HIDE DEF v
    <3>1. RequestRetry \/ (/\ pending' = pending \ {p} /\ Reads /\ UNCHANGED pc
                           /\ flow' = flow \/ flow' = Stop(flow))
      BY <2>6, Zenon DEF CollectItems
    <3>2. CASE flow' = Stop(flow)
      BY <1>stop, <3>2, Zenon DEF Stop, Control
    <3> QED
      BY <1>retry, <1>stop, <2>3, <2>6, <3>1, <3>2, Zenon DEF Reads
  <2> QED
    BY <2>1, <2>4, <2>5, <2>6, Zenon
<1>4. CASE BindingItems
  <2>1. flow' = flow /\ pc = "BindingItems" /\ pending = {} /\ UNCHANGED <<scenario, seen, pending>>
    BY <1>4, Zenon DEF BindingItems, Leave, Reads
  <2> QED
    BY <1>on, <1>stop, <2>1, Zenon
<1>5. CASE OwnedResources \/ Mapping \/ Naming \/ Persist
  <2>1. pc \in {"OwnedResources", "Mapping", "Naming", "Persist"} /\ ~flow.stop
    BY <1>5, Zenon DEF OwnedResources, Mapping, Naming, Persist, Control
  <2>2. RequestRetry \/ UNCHANGED <<scenario, seen, pending>>
    BY <1>5, Zenon DEF OwnedResources, Mapping, Naming, Persist, Reads
  <2> QED
    BY <1>on, <1>retry, <2>1, <2>2, Zenon
<1>6. CASE CallFails
  BY <1>6, <1>retry, Zenon DEF CallFails
<1>7. CASE Again
  BY <1>7, <1>early, <1>sc, Handlers, Zenon DEF Again
<1>8. CASE UNCHANGED <<scenario, pc, seen, pending, flow>>
  BY <1>8, Zenon DEF Applied, services
<1> QED
  BY <1>1, <1>2, <1>3, <1>4, <1>5, <1>6, <1>7, <1>8, Zenon DEF Next, Handle, Appear, vars

\* Between any two handlers an attempt is at a handler of its flow, holds what
\* the handlers before it collected from the services of the scenario and
\* nothing else, and has applied every annotation and mapping that it passed.
THEOREM CollectionInvariant == Spec => [](Control /\ Data /\ Applied)
<1>1. Init => Control /\ Data /\ Applied
  <2>1. Init => pc = "PreFlight"
    BY AScenario, Handlers, Zenon DEF Init, Flow
  <2> QED
    BY <2>1, InitControl, InitData, Zenon DEF Applied
<1>2. Control /\ Data /\ Applied /\ [Next]_vars => (Control /\ Data /\ Applied)'
  BY StepControl, StepData, StepApplied, Zenon
<1> QED
  BY <1>1, <1>2, PTL DEF Spec

\* Every variable has its type in every reachable state, and nothing is
\* collected by a flow that a handler has stopped.
THEOREM CollectionTyped == Spec => []TypeOK
<1>1. Control /\ Data => TypeOK
  <2> SUFFICES ASSUME Control, Data PROVE TypeOK
    BY Zenon
  <2>1. \A p \in pending : p[1] \in DOMAIN services
    BY DefinitionService, Zenon DEF Control
  <2> QED
    BY <2>1, Zenon DEF Control, Data, TypedBindings, TypedItems, TypeOK
<1> QED
  BY <1>1, CollectionInvariant, PTL

\* Reconcile gives a binding up only for what no later attempt can get past or
\* for a template that cannot be executed on what the services have, for any
\* services and any calls that fail.
THEOREM GivenUpOnlyForGood == Spec => []GivesUpOnlyForGood
<1>1. Control => GivesUpOnlyForGood
  BY Zenon DEF Control, GivesUpOnlyForGood
<1> QED
  BY <1>1, CollectionInvariant, PTL

=============================================================================
