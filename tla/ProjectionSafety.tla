-------------------------- MODULE ProjectionSafety --------------------------
(***************************************************************************)
(* What the projection of bindings into one workload keeps, for any set of *)
(* bindings, containers, secrets and cases: no entry is there twice, what  *)
(* a binding projects is in every container it names, unbinding leaves     *)
(* nothing of it, projecting again changes nothing, and neither binding    *)
(* nor unbinding touches what others put there.  Each theorem names the    *)
(* cases it is about in its assumptions.                                   *)
(*                                                                         *)
(* First comes what a step changes, in three parts: what the operations of *)
(* PodLists do to the elements of a list, what binding and unbinding do to *)
(* one container, and what each action does to the workload.  The loop     *)
(* over the variables of a binding, and the search for the first entry of  *)
(* a name, go by the least number that would be a counterexample.          *)
(***************************************************************************)
EXTENDS WorkloadProjection, SequenceTheorems, WellFoundedInduction, TLAPS

(***************************************************************************)
(* Lists                                                                   *)
(***************************************************************************)

LEMMA Least ==
  ASSUME NEW T, T \subseteq Nat, T # {}
  PROVE  \E n \in T : \A m \in T : n =< m
<1> DEFINE Less == OpToRel(<, Nat)
<1>1. \E n \in T : \A m \in T : ~(<<m, n>> \in Less)
  BY NatLessThanWellFounded, WFMin, Zenon
<1>2. \A m, n \in Nat : m < n => <<m, n>> \in Less
  BY Zenon DEF OpToRel
<1> HIDE DEF Less
<1>3. PICK n \in T : \A m \in T : ~(<<m, n>> \in Less)
  BY <1>1, Zenon
<1>4. \A m \in T : ~(m < n)
  BY <1>2, <1>3, Zenon
<1> QED
  BY <1>3, <1>4

LEMMA ListedIn ==
  ASSUME NEW S, NEW s \in Seq(S)
  PROVE  Listed(s)
BY DEF Listed, Range

LEMMA LeastIn ==
  ASSUME NEW S, NEW s \in Seq(S), NEW P, P \subseteq 1..Len(s), P # {}
  PROVE  Min(P) \in P
<1>1. \E n \in P : \A m \in P : n =< m
  <2>1. P \subseteq Nat
    OBVIOUS
  <2> QED
    BY <2>1, Least, Zenon
<1> QED
  BY <1>1, Zenon DEF Min

LEMMA RemovedAt ==
  ASSUME NEW S, NEW s \in Seq(S), NEW i \in 1..Len(s)
  PROVE  /\ RemoveAt(s, i) \in Seq(S) /\ Len(RemoveAt(s, i)) = Len(s) - 1
         /\ \A j \in 1..(Len(s) - 1) :
              RemoveAt(s, i)[j] = IF j < i THEN s[j] ELSE s[j + 1]
<1> DEFINE a == SubSeq(s, 1, i - 1)
           z == SubSeq(s, i + 1, Len(s))
<1>1. a \in Seq(S) /\ Len(a) = i - 1 /\ \A j \in 1..(i - 1) : a[j] = s[j]
  OBVIOUS
<1>2. z \in Seq(S) /\ Len(z) = Len(s) - i /\ \A j \in 1..(Len(s) - i) : z[j] = s[j + i]
  OBVIOUS
<1>3. RemoveAt(s, i) = a \o z
  BY Zenon DEF RemoveAt
<1> HIDE DEF a, z
<1>4. a \o z \in Seq(S) /\ Len(a \o z) = Len(s) - 1
  <2>1. a \o z \in Seq(S) /\ Len(a \o z) = Len(a) + Len(z)
    BY <1>1, <1>2, ConcatProperties, Zenon
  <2> QED
    BY <1>1, <1>2, <2>1
<1>5. ASSUME NEW j \in 1..(Len(s) - 1)
      PROVE  (a \o z)[j] = IF j < i THEN s[j] ELSE s[j + 1]
  <2>1. CASE j < i
    BY <1>1, <1>2, <2>1
  <2>2. CASE ~(j < i)
    <3>1. j - (i - 1) \in 1..(Len(s) - i)
      BY <2>2
    <3>2. (a \o z)[j] = z[j - (i - 1)]
      BY <1>1, <1>2, <2>2
    <3>3. z[j - (i - 1)] = s[(j - (i - 1)) + i] /\ (j - (i - 1)) + i = j + 1
      BY <1>2, <3>1
    <3> QED
      BY <2>2, <3>2, <3>3, Zenon
  <2> QED
    BY <2>1, <2>2, Zenon
<1> QED
  BY <1>3, <1>4, <1>5, Zenon

LEMMA RemovedNamed ==
  ASSUME NEW S, NEW s \in Seq(S), NEW n
  PROVE  /\ ~HasName(s, n) => RemoveNamed(s, n) = s
         /\ HasName(s, n) => \E i \in 1..Len(s) :
              s[i].name = n /\ RemoveNamed(s, n) = RemoveAt(s, i)
<1> DEFINE P == {i \in DOMAIN s : s[i].name = n}
<1>1. HasName(s, n) <=> P # {}
  BY Zenon DEF HasName
<1>2. P # {} => Min(P) \in P
  BY LeastIn
<1>3. RemoveNamed(s, n) = IF HasName(s, n) THEN RemoveAt(s, Min(P)) ELSE s
  BY Zenon DEF RemoveNamed, FirstOf
<1>4. \A i \in P : i \in 1..Len(s) /\ s[i].name = n
  OBVIOUS
<1> HIDE DEF P
<1> QED
  BY <1>1, <1>2, <1>3, <1>4, Zenon

\* What taking one element away does to the elements of a list.
LEMMA ElementRemoved ==
  ASSUME NEW s, Listed(s), NEW i \in 1..Len(s)
  PROVE  /\ Listed(RemoveAt(s, i)) /\ Range(RemoveAt(s, i)) \subseteq Range(s)
         /\ \A x \in Range(s) : x # s[i] => x \in Range(RemoveAt(s, i))
         /\ \A j, k \in DOMAIN RemoveAt(s, i) : j # k =>
              \E m, n \in DOMAIN s : /\ m # n /\ m # i /\ n # i
                                     /\ RemoveAt(s, i)[j] = s[m] /\ RemoveAt(s, i)[k] = s[n]
         /\ \A j \in DOMAIN RemoveAt(s, i) :
              \E m \in DOMAIN s : m # i /\ RemoveAt(s, i)[j] = s[m]
<1> DEFINE r == RemoveAt(s, i)
           At(j) == IF j < i THEN j ELSE j + 1
<1>1. /\ r \in Seq(Range(s)) /\ Len(r) = Len(s) - 1
      /\ \A j \in 1..(Len(s) - 1) : r[j] = IF j < i THEN s[j] ELSE s[j + 1]
  BY RemovedAt, Zenon DEF Listed
<1> HIDE DEF r
<1>2. Listed(r)
  BY <1>1, ListedIn, Zenon
<1>3. DOMAIN r = 1..(Len(s) - 1) /\ DOMAIN s = 1..Len(s) /\ Len(s) \in Nat
  BY <1>1 DEF Listed
<1>4. \A j \in DOMAIN r : At(j) \in DOMAIN s /\ At(j) # i /\ r[j] = s[At(j)]
  BY <1>1, <1>3
<1>5. \A j, k \in DOMAIN r : j # k => At(j) # At(k)
  BY <1>3
<1>6. ASSUME NEW x \in Range(s), x # s[i] PROVE x \in Range(r)
  <2>1. PICK m \in DOMAIN s : x = s[m]
    BY Zenon DEF Range
  <2>2. CASE m < i
    <3>1. m \in DOMAIN r /\ r[m] = x
      BY <1>1, <1>3, <2>1, <2>2
    <3> QED
      BY <3>1, Zenon DEF Range
  <2>3. CASE m > i
    <3>1. (m - 1) \in DOMAIN r /\ r[m - 1] = x
      BY <1>1, <1>3, <2>1, <2>3
    <3> QED
      BY <3>1, Zenon DEF Range
  <2> QED
    BY <1>3, <1>6, <2>1, <2>2, <2>3
<1>7. Range(r) \subseteq Range(s)
  BY <1>4, Zenon DEF Range
<1> HIDE DEF At
<1>8. \A j, k \in DOMAIN r : j # k =>
        \E m, n \in DOMAIN s : m # n /\ m # i /\ n # i /\ r[j] = s[m] /\ r[k] = s[n]
  BY <1>4, <1>5, Zenon
<1>9. \A j \in DOMAIN r : \E m \in DOMAIN s : m # i /\ r[j] = s[m]
  BY <1>4, Zenon
<1> QED
  BY <1>2, <1>6, <1>7, <1>8, <1>9 DEF r

LEMMA NameIn ==
  ASSUME NEW s, NEW n
  PROVE  HasName(s, n) <=> \E x \in Range(s) : x.name = n
BY Zenon DEF HasName, Range

\* RemoveNamed takes what has the name away, and nothing else.
LEMMA NamedRemoved ==
  ASSUME NEW s, Listed(s), NEW n
  PROVE  /\ Listed(RemoveNamed(s, n)) /\ Range(RemoveNamed(s, n)) \subseteq Range(s)
         /\ \A x \in Range(s) : x.name # n => x \in Range(RemoveNamed(s, n))
         /\ Distinct(s) => Distinct(RemoveNamed(s, n)) /\ ~HasName(RemoveNamed(s, n), n)
<1>1. CASE ~HasName(s, n)
  BY <1>1, RemovedNamed, Zenon DEF Listed
<1>2. CASE HasName(s, n)
  <2>1. PICK i \in 1..Len(s) : s[i].name = n /\ RemoveNamed(s, n) = RemoveAt(s, i)
    BY <1>2, RemovedNamed, Zenon DEF Listed
  <2> DEFINE r == RemoveAt(s, i)
  <2>2. /\ Listed(r) /\ Range(r) \subseteq Range(s)
        /\ \A x \in Range(s) : x # s[i] => x \in Range(r)
    BY ElementRemoved, Zenon
  <2>3. \A j, k \in DOMAIN r : j # k =>
          \E m, l \in DOMAIN s : m # l /\ m # i /\ l # i /\ r[j] = s[m] /\ r[k] = s[l]
    BY ElementRemoved
  <2>4. \A j \in DOMAIN r : \E m \in DOMAIN s : m # i /\ r[j] = s[m]
    BY ElementRemoved
  <2> HIDE DEF r
  <2>5. i \in DOMAIN s
    BY DEF Listed
  <2>6. Distinct(s) => Distinct(r)
    BY <2>3 DEF Distinct
  <2>7. Distinct(s) => ~HasName(r, n)
    BY <2>1, <2>4, <2>5 DEF Distinct, HasName
  <2> QED
    BY <2>1, <2>2, <2>6, <2>7, Zenon DEF r
<1> QED
  BY <1>1, <1>2, Zenon

\* RemoveSource, on the secrets of envFrom.
LEMMA RemovedSource ==
  ASSUME NEW s, Listed(s), NEW e
  PROVE  /\ e \notin Range(s) => RemoveSource(s, e) = s
         /\ e \in Range(s) => \E i \in 1..Len(s) : s[i] = e /\ RemoveSource(s, e) = RemoveAt(s, i)
<1> DEFINE P == {i \in DOMAIN s : s[i] = e}
<1>1. e \in Range(s) <=> P # {}
  BY Zenon DEF Range
<1>2. RemoveSource(s, e) = IF e \in Range(s) THEN RemoveAt(s, Min(P)) ELSE s
  BY Zenon DEF RemoveSource
<1>3. P # {} => Min(P) \in P
  <2>1. s \in Seq(Range(s))
    BY Zenon DEF Listed
  <2>2. P \subseteq 1..Len(s)
    BY <2>1
  <2> HIDE DEF P
  <2> QED
    BY <2>1, <2>2, LeastIn, Zenon
<1>4. \A i \in P : i \in 1..Len(s) /\ s[i] = e
  BY DEF Listed
<1> HIDE DEF P
<1> QED
  BY <1>1, <1>2, <1>3, <1>4, Zenon

LEMMA SourceRemoved ==
  ASSUME NEW s, Listed(s), NEW e
  PROVE  /\ Listed(RemoveSource(s, e)) /\ Range(RemoveSource(s, e)) \subseteq Range(s)
         /\ \A x \in Range(s) : x # e => x \in Range(RemoveSource(s, e))
         /\ IsInjective(s) => IsInjective(RemoveSource(s, e)) /\ e \notin Range(RemoveSource(s, e))
<1>2. CASE e \notin Range(s)
  BY <1>2, RemovedSource, Zenon
<1>3. CASE e \in Range(s)
  <2>1. PICK i \in 1..Len(s) : s[i] = e /\ RemoveSource(s, e) = RemoveAt(s, i)
    BY <1>3, RemovedSource, Zenon
  <2> DEFINE r == RemoveAt(s, i)
  <2>2. /\ Listed(r) /\ Range(r) \subseteq Range(s)
        /\ \A x \in Range(s) : x # s[i] => x \in Range(r)
    BY ElementRemoved, Zenon
  <2>3. \A j, k \in DOMAIN r : j # k =>
          \E m, l \in DOMAIN s : m # l /\ m # i /\ l # i /\ r[j] = s[m] /\ r[k] = s[l]
    BY ElementRemoved
  <2>4. \A j \in DOMAIN r : \E m \in DOMAIN s : m # i /\ r[j] = s[m]
    BY ElementRemoved
  <2> HIDE DEF r
  <2>5. i \in DOMAIN s
    BY DEF Listed
  <2>6. IsInjective(s) => IsInjective(r)
    BY <2>3 DEF IsInjective
  <2>7. IsInjective(s) => e \notin Range(r)
    BY <2>1, <2>4, <2>5 DEF IsInjective, Range
  <2> QED
    BY <2>1, <2>2, <2>6, <2>7, Zenon DEF r
<1> QED
  BY <1>2, <1>3, Zenon

LEMMA Appended ==
  ASSUME NEW s, Listed(s), NEW x
  PROVE  /\ Listed(Append(s, x)) /\ Range(Append(s, x)) = Range(s) \cup {x}
         /\ Distinct(s) /\ ~HasName(s, x.name) => Distinct(Append(s, x))
         /\ IsInjective(s) /\ x \notin Range(s) => IsInjective(Append(s, x))
<1> DEFINE r == Append(s, x)
           S == Range(s) \cup {x}
<1>1. Len(s) \in Nat /\ DOMAIN s = 1..Len(s) /\ \A i \in 1..Len(s) : s[i] \in S
  BY DEF Listed, Range
<1>2. /\ Len(r) = Len(s) + 1 /\ DOMAIN r = 1..(Len(s) + 1)
      /\ \A i \in 1..Len(s) : r[i] = s[i]
      /\ r[Len(s) + 1] = x
  BY DEF Listed
<1>3. s \in Seq(S) /\ r \in Seq(S)
  BY <1>1 DEF Listed
<1>4. Listed(r)
  BY <1>3, ListedIn, Zenon
<1> HIDE DEF r
<1>5. \A i \in DOMAIN r : \/ i \in DOMAIN s /\ r[i] = s[i]
                          \/ i = Len(s) + 1 /\ r[i] = x
  BY <1>1, <1>2
<1>6. Range(r) = Range(s) \cup {x}
  <2>1. Range(r) \subseteq Range(s) \cup {x}
    BY <1>5, Zenon DEF Range
  <2>2. Range(s) \subseteq Range(r)
    BY <1>1, <1>2 DEF Range
  <2>3. x \in Range(r)
    BY <1>1, <1>2 DEF Range
  <2> QED
    BY <2>1, <2>2, <2>3, Zenon
<1>7. Distinct(s) /\ ~HasName(s, x.name) => Distinct(r)
  BY <1>5, Zenon DEF Distinct, HasName
<1>8. IsInjective(s) /\ x \notin Range(s) => IsInjective(r)
  BY <1>5, Zenon DEF IsInjective, Range
<1> QED
  BY <1>4, <1>6, <1>7, <1>8, Zenon DEF r

LEMMA Joined ==
  ASSUME NEW s, Listed(s), NEW t, Listed(t)
  PROVE  /\ Listed(s \o t) /\ Range(s \o t) = Range(s) \cup Range(t)
         /\ Distinct(s) /\ Distinct(t) /\ (\A x \in Range(t) : ~HasName(s, x.name))
              => Distinct(s \o t)
<1> DEFINE r == s \o t
           S == Range(s) \cup Range(t)
<1>1. /\ Len(s) \in Nat /\ DOMAIN s = 1..Len(s) /\ \A i \in 1..Len(s) : s[i] \in S
      /\ Len(t) \in Nat /\ DOMAIN t = 1..Len(t) /\ \A i \in 1..Len(t) : t[i] \in S
  BY DEF Listed, Range
<1>2. s \in Seq(S) /\ t \in Seq(S)
  BY <1>1 DEF Listed
<1>3. r \in Seq(S) /\ Len(r) = Len(s) + Len(t)
  BY <1>2, ConcatProperties, Zenon
<1>4. \A i \in 1..(Len(s) + Len(t)) : r[i] = IF i =< Len(s) THEN s[i] ELSE t[i - Len(s)]
  BY <1>2, ConcatProperties, Zenon
<1>5. Listed(r)
  BY <1>3, ListedIn, Zenon
<1>6. DOMAIN r = 1..(Len(s) + Len(t))
  BY <1>3
<1> HIDE DEF r
<1>7. \A i \in DOMAIN r : \/ i \in DOMAIN s /\ r[i] = s[i]
                          \/ i > Len(s) /\ (i - Len(s)) \in DOMAIN t /\ r[i] = t[i - Len(s)]
  BY <1>1, <1>4, <1>6
<1>8. Range(r) = Range(s) \cup Range(t)
  <2>1. Range(r) \subseteq Range(s) \cup Range(t)
    BY <1>7, Zenon DEF Range
  <2>2. ASSUME NEW i \in DOMAIN s PROVE s[i] \in Range(r)
    <3>1. i \in DOMAIN r /\ r[i] = s[i]
      BY <1>1, <1>4, <1>6
    <3> QED
      BY <3>1, Zenon DEF Range
  <2>3. ASSUME NEW i \in DOMAIN t PROVE t[i] \in Range(r)
    <3>1. (i + Len(s)) \in DOMAIN r /\ r[i + Len(s)] = t[i]
      BY <1>1, <1>4, <1>6
    <3> QED
      BY <3>1, Zenon DEF Range
  <2> QED
    BY <2>1, <2>2, <2>3, Zenon DEF Range
<1>9. ASSUME Distinct(s), Distinct(t), \A x \in Range(t) : ~HasName(s, x.name)
      PROVE  Distinct(r)
  <2> SUFFICES ASSUME NEW i \in DOMAIN r, NEW j \in DOMAIN r, i # j
               PROVE  r[i].name # r[j].name
    BY Zenon DEF Distinct
  <2>1. \A m \in DOMAIN s, n \in DOMAIN t : s[m].name # t[n].name
    BY <1>9, Zenon DEF HasName, Range
  <2>2. i \in Int /\ j \in Int /\ Len(s) \in Int
    BY <1>1, <1>6
  <2>3. i > Len(s) /\ j > Len(s) => i - Len(s) # j - Len(s)
    BY <2>2
  <2> QED
    BY <1>7, <1>9, <2>1, <2>3 DEF Distinct
<1> QED
  BY <1>5, <1>8, <1>9, Zenon DEF r

\* Replace: the volume or mount of that name is the new one, the others stay.
LEMMA Replaced ==
  ASSUME NEW s, Listed(s), NEW x
  PROVE  /\ Listed(Replace(s, x)) /\ x \in Range(Replace(s, x))
         /\ Range(Replace(s, x)) \subseteq Range(s) \cup {x}
         /\ \A y \in Range(s) : y.name # x.name => y \in Range(Replace(s, x))
         /\ Distinct(s) => Distinct(Replace(s, x))
         /\ Distinct(s) /\ x \in Range(s) => Replace(s, x) = s
<1>1. CASE ~HasName(s, x.name)
  <2>1. Replace(s, x) = Append(s, x)
    BY <1>1, Zenon DEF Replace, HasName
  <2>2. x \notin Range(s)
    BY <1>1, NameIn, Zenon
  <2> QED
    BY <1>1, <2>1, <2>2, Appended
<1>2. CASE HasName(s, x.name)
  <2> DEFINE r == [i \in DOMAIN s |-> IF s[i].name = x.name THEN x ELSE s[i]]
             S == Range(s) \cup {x}
  <2>1. Replace(s, x) = r
    BY <1>2, Zenon DEF Replace, HasName
  <2>2. DOMAIN s = 1..Len(s) /\ Len(s) \in Nat /\ \A i \in 1..Len(s) : s[i] \in S
    BY DEF Listed, Range
  <2>3. r \in Seq(S)
    BY <2>2
  <2>4. Listed(r)
    BY <2>3, ListedIn, Zenon
  <2>5. /\ DOMAIN r = DOMAIN s
        /\ \A i \in DOMAIN s : r[i] = IF s[i].name = x.name THEN x ELSE s[i]
    BY Zenon
  <2>6. Distinct(s) /\ x \in Range(s) => r = s
    <3>1. Distinct(s) /\ x \in Range(s) => \A i \in DOMAIN s : s[i].name = x.name => s[i] = x
      BY Zenon DEF Distinct, Range
    <3>2. s = [i \in DOMAIN s |-> s[i]]
      BY DEF Listed
    <3> QED
      BY <3>1, <3>2, Zenon
  <2> HIDE DEF r
  <2>7. x \in Range(r)
    BY <1>2, <2>5, Zenon DEF HasName, Range
  <2>8. Range(r) \subseteq Range(s) \cup {x}
    BY <2>5, Zenon DEF Range
  <2>9. \A y \in Range(s) : y.name # x.name => y \in Range(r)
    BY <2>5, Zenon DEF Range
  <2>10. Distinct(s) => Distinct(r)
    BY <2>5, Zenon DEF Distinct
  <2> QED
    BY <2>1, <2>4, <2>6, <2>7, <2>8, <2>9, <2>10, Zenon
<1> QED
  BY <1>1, <1>2, Zenon

\* The rounds of RemoveEach.
LEMMA EachRounds ==
  ASSUME NEW s, NEW names, Listed(names)
  PROVE  \E f : /\ f[0] = s /\ RemoveEach(s, names) = f[Len(names)]
                /\ \A k \in 1..Len(names) : f[k] = RemoveNamed(f[k - 1], names[k])
<1> DEFINE Rounds(f, m) ==
             f = [k \in 0..m |-> IF k = 0 THEN s ELSE RemoveNamed(f[k - 1], names[k])]
           Left == CHOOSE f : Rounds(f, Len(names))
<1>1. \A m \in Nat : \E f : Rounds(f, m)
  <2> DEFINE T == {m \in Nat : ~\E f : Rounds(f, m)}
  <2> SUFFICES ASSUME T # {} PROVE FALSE
    BY Zenon
  <2>1. PICK m \in T : \A n \in T : m =< n
    <3>1. T \subseteq Nat
      BY Zenon
    <3> HIDE DEF T
    <3> QED
      BY <3>1, Least, Zenon
  <2>2. m # 0
    <3>1. Rounds([k \in 0..0 |-> s], 0)
      OBVIOUS
    <3> QED
      BY <3>1, Zenon
  <2>3. (m - 1) \in Nat /\ (m - 1) \notin T
    BY <2>1, <2>2
  <2>4. PICK f : Rounds(f, m - 1)
    BY <2>3, Zenon
  <2> DEFINE g == [k \in 0..m |-> IF k = m THEN RemoveNamed(f[m - 1], names[m]) ELSE f[k]]
  <2>5. \A k \in 0..m : g[k] = IF k = 0 THEN s ELSE RemoveNamed(g[k - 1], names[k])
    <3> SUFFICES ASSUME NEW k \in 0..m
                 PROVE  g[k] = IF k = 0 THEN s ELSE RemoveNamed(g[k - 1], names[k])
      BY Zenon
    <3>1. m \in Nat /\ \A i \in 0..(m - 1) : g[i] = f[i]
      OBVIOUS
    <3>2. CASE k = m
      <4>1. g[k] = RemoveNamed(f[m - 1], names[m])
        BY <3>2, Zenon
      <4>2. g[m - 1] = f[m - 1]
        BY <2>3, <3>1
      <4> QED
        BY <2>2, <3>2, <4>1, <4>2, Zenon
    <3>3. CASE k # m
      <4>1. k \in 0..(m - 1) /\ g[k] = f[k]
        BY <3>1, <3>3
      <4>2. f[k] = IF k = 0 THEN s ELSE RemoveNamed(f[k - 1], names[k])
        BY <2>4, <4>1, Zenon
      <4>3. k # 0 => g[k - 1] = f[k - 1]
        BY <3>1, <4>1
      <4> HIDE DEF g
      <4> QED
        BY <4>1, <4>2, <4>3, Zenon
    <3> QED
      BY <3>2, <3>3, Zenon
  <2>6. Rounds(g, m)
    <3>1. g = [k \in 0..m |-> g[k]]
      BY Zenon
    <3> HIDE DEF g
    <3> QED
      BY <2>5, <3>1, Zenon
  <2> QED
    BY <2>1, <2>6, Zenon
<1>2. Len(names) \in Nat /\ DOMAIN names = 1..Len(names)
  BY DEF Listed
<1>3. RemoveEach(s, names) = Left[Len(names)]
  BY Zenon DEF RemoveEach
<1>4. Rounds(Left, Len(names))
  BY <1>1, <1>2, Zenon
<1>5. \A k \in 0..Len(names) : Left[k] = IF k = 0 THEN s ELSE RemoveNamed(Left[k - 1], names[k])
  BY <1>4, Zenon
<1> HIDE DEF Rounds, Left
<1>6. Left[0] = s /\ \A k \in 1..Len(names) : Left[k] = RemoveNamed(Left[k - 1], names[k])
  BY <1>2, <1>5
<1> QED
  BY <1>3, <1>6, Zenon

\* RemoveEach, by the least number of rounds that would be a counterexample.
LEMMA EachRemoved ==
  ASSUME NEW s, Listed(s), NEW names, Listed(names)
  PROVE  /\ Listed(RemoveEach(s, names)) /\ Range(RemoveEach(s, names)) \subseteq Range(s)
         /\ \A x \in Range(s) : x.name \notin Range(names) => x \in Range(RemoveEach(s, names))
         /\ Distinct(s) => /\ Distinct(RemoveEach(s, names))
                           /\ \A n \in Range(names) : ~HasName(RemoveEach(s, names), n)
         /\ names = <<>> => RemoveEach(s, names) = s
<1>2. Len(names) \in Nat /\ DOMAIN names = 1..Len(names)
  BY DEF Listed
<1>3. PICK Left : /\ Left[0] = s /\ RemoveEach(s, names) = Left[Len(names)]
                  /\ \A k \in 1..Len(names) : Left[k] = RemoveNamed(Left[k - 1], names[k])
  BY EachRounds
<1>5. Left[0] = s /\ \A k \in 1..Len(names) : Left[k] = RemoveNamed(Left[k - 1], names[k])
  BY <1>3, Zenon
<1> DEFINE Others(k) ==
             \A x \in Range(s) : (\A i \in 1..k : x.name # names[i]) => x \in Range(Left[k])
           Gone(k) == /\ Distinct(Left[k])
                      /\ \A i \in 1..k : ~HasName(Left[k], names[i])
           Good(k) == /\ Listed(Left[k]) /\ Range(Left[k]) \subseteq Range(s)
                      /\ Others(k) /\ (Distinct(s) => Gone(k))
<1>6. Good(0)
  BY <1>2, <1>5
<1>7. ASSUME NEW k \in 1..Len(names), Good(k - 1)
      PROVE  Good(k)
  <2> DEFINE l == Left[k - 1]
             m == Left[k]
  <2>1. m = RemoveNamed(l, names[k])
    BY <1>5, Zenon
  <2>2. Listed(l) /\ Range(l) \subseteq Range(s)
    BY <1>7, Zenon
  <2>3. Others(k - 1) /\ (Distinct(s) => Gone(k - 1))
    BY <1>7, Zenon
  <2>4. /\ Listed(m) /\ Range(m) \subseteq Range(l)
        /\ \A x \in Range(l) : x.name # names[k] => x \in Range(m)
        /\ Distinct(l) => Distinct(m) /\ ~HasName(m, names[k])
    BY <2>1, <2>2, NamedRemoved, Zenon
  <2>5. 1..k = 1..(k - 1) \cup {k}
    OBVIOUS
  <2>6. Others(k)
    BY <2>3, <2>4, <2>5, Zenon
  <2>7. ASSUME Distinct(s) PROVE Gone(k)
    <3>1. Distinct(m) /\ ~HasName(m, names[k])
      BY <2>3, <2>4, <2>7, Zenon
    <3>2. \A i \in 1..(k - 1) : ~HasName(m, names[i])
      BY <2>3, <2>4, <2>7, NameIn, Zenon
    <3> QED
      BY <2>5, <3>1, <3>2, Zenon
  <2> QED
    BY <2>2, <2>4, <2>6, <2>7, Zenon
<1> HIDE DEF Good
<1>8. Good(Len(names))
  <2> DEFINE T == {k \in 0..Len(names) : ~Good(k)}
  <2> SUFFICES ASSUME T # {} PROVE FALSE
    BY <1>2
  <2>1. PICK k \in T : \A n \in T : k =< n
    <3>1. T \subseteq Nat
      BY <1>2
    <3> HIDE DEF T
    <3> QED
      BY <3>1, Least, Zenon
  <2>2. k # 0
    BY <1>6, Zenon
  <2>3. k \in 1..Len(names) /\ (k - 1) \in 0..Len(names) /\ (k - 1) \notin T
    BY <1>2, <2>1, <2>2
  <2> QED
    BY <1>7, <2>1, <2>3, Zenon
<1>9. \A n \in Range(names) : \E i \in 1..Len(names) : n = names[i]
  BY <1>2, Zenon DEF Range
<1>10. \A i \in 1..Len(names) : names[i] \in Range(names)
  BY <1>2, Zenon DEF Range
<1>11. names = <<>> => Left[Len(names)] = s
  BY <1>2, <1>5, Zenon
<1> QED
  BY <1>3, <1>8, <1>9, <1>10, <1>11, Zenon DEF Good

LEMMA VarsAdded ==
  ASSUME NEW env, Listed(env), NEW new, Listed(new)
  PROVE  /\ Listed(AddEnvVars(env, new))
         /\ Range(AddEnvVars(env, new)) \subseteq Range(env) \cup Range(new)
         /\ Range(new) \subseteq Range(AddEnvVars(env, new))
         /\ \A x \in Range(env) : ~HasName(new, x.name) => x \in Range(AddEnvVars(env, new))
         /\ Distinct(env) /\ Distinct(new) => Distinct(AddEnvVars(env, new))
         /\ new = <<>> => AddEnvVars(env, new) = env
<1> DEFINE names == [i \in DOMAIN new |-> new[i].name]
           left == RemoveEach(env, names)
<1>1. Len(new) \in Nat /\ DOMAIN new = 1..Len(new)
  BY DEF Listed
<1>2. Listed(names)
  <2>1. names \in Seq({new[i].name : i \in DOMAIN new})
    BY <1>1
  <2> QED
    BY <2>1, ListedIn, Zenon
<1>3. \A n : n \in Range(names) <=> HasName(new, n)
  BY Zenon DEF Range, HasName
<1>4. new = <<>> => names = <<>>
  OBVIOUS
<1> HIDE DEF names
<1>5. /\ Listed(left) /\ Range(left) \subseteq Range(env)
      /\ \A x \in Range(env) : x.name \notin Range(names) => x \in Range(left)
      /\ Distinct(env) => Distinct(left) /\ \A n \in Range(names) : ~HasName(left, n)
      /\ names = <<>> => left = env
  BY <1>2, EachRemoved, Zenon
<1>6. AddEnvVars(env, new) = left \o new
  BY Zenon DEF AddEnvVars, names
<1> HIDE DEF left
<1>7. /\ Listed(left \o new) /\ Range(left \o new) = Range(left) \cup Range(new)
      /\ Distinct(left) /\ Distinct(new) /\ (\A x \in Range(new) : ~HasName(left, x.name))
           => Distinct(left \o new)
  BY <1>5, Joined, Zenon
<1>8. \A x \in Range(new) : x.name \in Range(names)
  BY <1>3, NameIn, Zenon
<1>9. new = <<>> => left \o new = env
  <2>1. new = <<>> => left = env
    BY <1>4, <1>5, Zenon
  <2>2. env \o <<>> = env
    BY DEF Listed
  <2> QED
    BY <2>1, <2>2, Zenon
<1> QED
  BY <1>3, <1>5, <1>6, <1>7, <1>8, <1>9, Zenon

LEMMA SourceAdded ==
  ASSUME NEW from, Listed(from), NEW s
  PROVE  /\ Listed(AddEnvFromVar(from, s)) /\ Range(AddEnvFromVar(from, s)) = Range(from) \cup {s}
         /\ IsInjective(from) => IsInjective(AddEnvFromVar(from, s))
<1> DEFINE left == RemoveSource(from, s)
<1>1. /\ Listed(left) /\ Range(left) \subseteq Range(from)
      /\ \A x \in Range(from) : x # s => x \in Range(left)
      /\ IsInjective(from) => IsInjective(left) /\ s \notin Range(left)
  BY SourceRemoved, Zenon
<1>2. AddEnvFromVar(from, s) = Append(left, s)
  BY Zenon DEF AddEnvFromVar
<1> HIDE DEF left
<1>3. /\ Listed(Append(left, s)) /\ Range(Append(left, s)) = Range(left) \cup {s}
      /\ IsInjective(left) /\ s \notin Range(left) => IsInjective(Append(left, s))
  BY <1>1, Appended, Zenon
<1> QED
  BY <1>1, <1>2, <1>3, Zenon


(***************************************************************************)
(* Binding and unbinding one container                                     *)
(***************************************************************************)

Default == EnvVar(BindingRoot, NoSecret, "/bindings")

LEMMA VarsOf ==
  ASSUME setup \in Setups, NEW b \in Bindings, NEW s
  PROVE  /\ Listed(EnvBindings(b, s)) /\ Listed(Keys(b))
         /\ \A n : HasName(EnvBindings(b, s), n) <=> \E e \in Range(Config[b].env) : e.var = n
         /\ \A n : n \in Range(Keys(b)) <=> \E e \in Range(Config[b].env) : e.key = n
         /\ \A x \in Range(EnvBindings(b, s)) :
              x.from = s /\ \E e \in Range(Config[b].env) : x.name = e.var
         /\ Config[b].env = <<>> => EnvBindings(b, s) = <<>>
<1> DEFINE env == Config[b].env
<1>1. env \in Seq([var : STRING, key : STRING])
  BY SetupsAssumption, Zenon DEF Config
<1>2. Len(env) \in Nat /\ DOMAIN env = 1..Len(env)
  BY <1>1
<1> HIDE DEF env
<1>3. Listed([i \in DOMAIN env |-> EnvVar(env[i].var, s, env[i].key)])
  <2>1. [i \in DOMAIN env |-> EnvVar(env[i].var, s, env[i].key)]
          \in Seq({EnvVar(env[i].var, s, env[i].key) : i \in DOMAIN env})
    BY <1>2
  <2> QED
    BY <2>1, ListedIn, Zenon
<1>4. Listed([i \in DOMAIN env |-> env[i].key])
  <2>1. [i \in DOMAIN env |-> env[i].key] \in Seq({env[i].key : i \in DOMAIN env})
    BY <1>2
  <2> QED
    BY <2>1, ListedIn, Zenon
<1>5. /\ EnvBindings(b, s) = [i \in DOMAIN env |-> EnvVar(env[i].var, s, env[i].key)]
      /\ Keys(b) = [i \in DOMAIN env |-> env[i].key]
  BY Zenon DEF EnvBindings, Keys, env
<1>6. \A i \in DOMAIN env : EnvVar(env[i].var, s, env[i].key).name = env[i].var
                            /\ EnvVar(env[i].var, s, env[i].key).from = s
  BY Zenon DEF EnvVar
<1>7. \A n : HasName(EnvBindings(b, s), n) <=> \E e \in Range(env) : e.var = n
  BY <1>5, <1>6 DEF HasName, Range
<1>8. \A n : n \in Range(Keys(b)) <=> \E e \in Range(env) : e.key = n
  BY <1>5 DEF Range
<1>9. \A x \in Range(EnvBindings(b, s)) : x.from = s /\ \E e \in Range(env) : x.name = e.var
  BY <1>5, <1>6 DEF Range
<1>10. env = <<>> => EnvBindings(b, s) = <<>>
  BY <1>5
<1> QED
  BY <1>3, <1>4, <1>5, <1>7, <1>8, <1>9, <1>10, Zenon DEF env

\* The lists of a container.
Three(l) ==
  /\ l = [env |-> l.env, envFrom |-> l.envFrom, mounts |-> l.mounts]
  /\ Listed(l.env) /\ Listed(l.envFrom) /\ Listed(l.mounts)

After(b, s, l) == BindAsFiles(b, BindAsEnv(b, s, l))

LEMMA AfterFields ==
  ASSUME NEW b, NEW s, NEW l, Three(l)
  PROVE  LET env == AddEnvVars(l.env, EnvBindings(b, s)) IN
         After(b, s, l) =
           [env |-> IF Config[b].files THEN WithRoot(env) ELSE env,
            envFrom |-> IF Config[b].files THEN l.envFrom ELSE AddEnvFromVar(l.envFrom, s),
            mounts |-> IF Config[b].files
                       THEN Replace(l.mounts, [name |-> Config[b].name, root |-> RootOf(env)])
                       ELSE l.mounts]
<1> DEFINE env == AddEnvVars(l.env, EnvBindings(b, s))
           from == IF Config[b].files THEN l.envFrom ELSE AddEnvFromVar(l.envFrom, s)
           m == [env |-> env, envFrom |-> from, mounts |-> l.mounts]
<1>1. BindAsEnv(b, s, l) = m
  <2>1. PICK e, f, g : l = [env |-> e, envFrom |-> f, mounts |-> g]
    BY Zenon DEF Three
  <2>2. l.env = e /\ l.envFrom = f /\ l.mounts = g
    BY <2>1, Zenon
  <2>3. BindAsEnv(b, s, l) =
          [[l EXCEPT !.envFrom = from] EXCEPT !.env = env]
    BY <2>1, <2>2, Zenon DEF BindAsEnv
  <2> HIDE DEF env, from
  <2> QED
    BY <2>1, <2>2, <2>3, Zenon
<1> HIDE DEF env, from
<1>2. BindAsFiles(b, m) =
        [env |-> IF Config[b].files THEN WithRoot(env) ELSE env, envFrom |-> from,
         mounts |-> IF Config[b].files
                    THEN Replace(l.mounts, [name |-> Config[b].name, root |-> RootOf(env)])
                    ELSE l.mounts]
  <2>1. m.env = env /\ m.envFrom = from /\ m.mounts = l.mounts
    BY Zenon
  <2>2. CASE ~Config[b].files
    BY <2>2, Zenon DEF BindAsFiles
  <2>3. CASE Config[b].files
    BY <2>1, <2>3, Zenon DEF BindAsFiles
  <2> QED
    BY <2>2, <2>3, Zenon
<1> QED
  BY <1>1, <1>2, Zenon DEF After, env, from

LEMMA RootAdded ==
  ASSUME NEW env, Listed(env)
  PROVE  /\ Listed(WithRoot(env)) /\ Range(env) \subseteq Range(WithRoot(env))
         /\ Range(WithRoot(env)) \subseteq Range(env) \cup {Default}
         /\ Distinct(env) => Distinct(WithRoot(env))
<1>1. Default.name = BindingRoot
  BY Zenon DEF Default, EnvVar
<1>2. WithRoot(env) = IF HasName(env, BindingRoot) THEN env ELSE Append(env, Default)
  BY Zenon DEF WithRoot, HasRoot, HasName, Default
<1> QED
  BY <1>1, <1>2, Appended

\* No name or secret twice in a container.
Single(l) == Distinct(l.env) /\ Distinct(l.mounts) /\ IsInjective(l.envFrom)

\* m is container l after binding b with secret s.
Added(b, s, l, m) ==
  /\ Three(m)
  /\ \A x \in Range(m.mounts) : x \in Range(l.mounts)
                                \/ (Config[b].files /\ x.name = Config[b].name)
  /\ \A x \in Range(l.mounts) : x.name # Config[b].name => x \in Range(m.mounts)
  /\ Config[b].files => HasName(m.mounts, Config[b].name)
  /\ Range(m.envFrom) = Range(l.envFrom) \cup (IF Config[b].files THEN {} ELSE {s})
  /\ Range(m.env) \subseteq Range(l.env) \cup Range(EnvBindings(b, s)) \cup {Default}
  /\ Range(EnvBindings(b, s)) \subseteq Range(m.env)
  /\ \A x \in Range(l.env) : ~HasName(EnvBindings(b, s), x.name) => x \in Range(m.env)
  /\ Single(l) /\ Distinct(EnvBindings(b, s)) => Single(m)

LEMMA BindEffect ==
  ASSUME setup \in Setups, NEW b \in Bindings, NEW s, NEW l, Three(l)
  PROVE  Added(b, s, l, After(b, s, l))
<1> DEFINE mine == EnvBindings(b, s)
           env == AddEnvVars(l.env, mine)
           mount == [name |-> Config[b].name, root |-> RootOf(env)]
           m == After(b, s, l)
<1>1. /\ Listed(env) /\ Range(env) \subseteq Range(l.env) \cup Range(mine)
      /\ Range(mine) \subseteq Range(env)
      /\ \A x \in Range(l.env) : ~HasName(mine, x.name) => x \in Range(env)
      /\ Distinct(l.env) /\ Distinct(mine) => Distinct(env)
  BY VarsOf, VarsAdded, Zenon DEF Three
<1>2. mount.name = Config[b].name
  BY Zenon
<1>3. m = [env |-> IF Config[b].files THEN WithRoot(env) ELSE env,
           envFrom |-> IF Config[b].files THEN l.envFrom ELSE AddEnvFromVar(l.envFrom, s),
           mounts |-> IF Config[b].files THEN Replace(l.mounts, mount) ELSE l.mounts]
  BY AfterFields
<1> HIDE DEF mine, env, mount, m
<1>4. /\ m = [env |-> m.env, envFrom |-> m.envFrom, mounts |-> m.mounts]
      /\ m.env = IF Config[b].files THEN WithRoot(env) ELSE env
      /\ m.envFrom = IF Config[b].files THEN l.envFrom ELSE AddEnvFromVar(l.envFrom, s)
      /\ m.mounts = IF Config[b].files THEN Replace(l.mounts, mount) ELSE l.mounts
  BY <1>3, Zenon
<1>5. /\ Listed(m.env) /\ Range(env) \subseteq Range(m.env)
      /\ Range(m.env) \subseteq Range(env) \cup {Default}
      /\ Distinct(env) => Distinct(m.env)
  BY <1>1, <1>4, RootAdded, Zenon
<1>6. /\ Listed(m.envFrom)
      /\ Range(m.envFrom) = Range(l.envFrom) \cup (IF Config[b].files THEN {} ELSE {s})
      /\ IsInjective(l.envFrom) => IsInjective(m.envFrom)
  BY <1>4, SourceAdded, Zenon DEF Three
<1>7. /\ Listed(Replace(l.mounts, mount)) /\ mount \in Range(Replace(l.mounts, mount))
      /\ Range(Replace(l.mounts, mount)) \subseteq Range(l.mounts) \cup {mount}
      /\ \A y \in Range(l.mounts) : y.name # mount.name => y \in Range(Replace(l.mounts, mount))
      /\ Distinct(l.mounts) => Distinct(Replace(l.mounts, mount))
  BY Replaced, Zenon DEF Three
<1>8. /\ Listed(m.mounts)
      /\ \A x \in Range(m.mounts) : x \in Range(l.mounts)
                                    \/ (Config[b].files /\ x.name = Config[b].name)
      /\ \A x \in Range(l.mounts) : x.name # Config[b].name => x \in Range(m.mounts)
      /\ Distinct(l.mounts) => Distinct(m.mounts)
  BY <1>2, <1>4, <1>7, Zenon DEF Three
<1>9. Config[b].files => HasName(m.mounts, Config[b].name)
  BY <1>2, <1>4, <1>7, NameIn, Zenon
<1>10. Three(m)
  BY <1>4, <1>5, <1>6, <1>8, Zenon DEF Three
<1>11. /\ Range(m.env) \subseteq Range(l.env) \cup Range(mine) \cup {Default}
       /\ Range(mine) \subseteq Range(m.env)
       /\ \A x \in Range(l.env) : ~HasName(mine, x.name) => x \in Range(m.env)
  BY <1>1, <1>5, Zenon
<1>12. Single(l) /\ Distinct(mine) => Single(m)
  BY <1>1, <1>5, <1>6, <1>8, Zenon DEF Single
<1> QED
  BY <1>6, <1>8, <1>9, <1>10, <1>11, <1>12, Zenon DEF Added, m, mine

LEMMA UnbindFields ==
  ASSUME NEW b, NEW s, NEW l, Three(l)
  PROVE  LET m == UnbindContainer(b, s, l) IN
         /\ m = [env |-> m.env, envFrom |-> m.envFrom, mounts |-> m.mounts]
         /\ m.env = RemoveEach(l.env, Keys(b)) /\ m.envFrom = RemoveSource(l.envFrom, s)
         /\ m.mounts = RemoveNamed(l.mounts, Config[b].name)
<1> DEFINE m == UnbindContainer(b, s, l)
           env == RemoveEach(l.env, Keys(b))
           from == RemoveSource(l.envFrom, s)
           mounts == RemoveNamed(l.mounts, Config[b].name)
<1>1. /\ m = [env |-> m.env, envFrom |-> m.envFrom, mounts |-> m.mounts]
      /\ m.env = env /\ m.envFrom = from /\ m.mounts = mounts
  <2>1. PICK e, f, g : l = [env |-> e, envFrom |-> f, mounts |-> g]
    BY Zenon DEF Three
  <2>2. l.env = e /\ l.envFrom = f /\ l.mounts = g
    BY <2>1, Zenon
  <2>3. m = [[[l EXCEPT !.env = env] EXCEPT !.envFrom = from] EXCEPT !.mounts = mounts]
    BY <2>1, <2>2, Zenon DEF UnbindContainer
  <2> HIDE DEF env, from, mounts, m
  <2>4. m = [env |-> env, envFrom |-> from, mounts |-> mounts]
    BY <2>1, <2>2, <2>3, Zenon
  <2> QED
    BY <2>4, Zenon
<1> QED
  BY <1>1, Zenon

\* m is container l after unbinding b, which had secret s.
Taken(b, s, l, m) ==
  /\ Three(m)
  /\ Range(m.mounts) \subseteq Range(l.mounts)
  /\ \A x \in Range(l.mounts) : x.name # Config[b].name => x \in Range(m.mounts)
  /\ Range(m.envFrom) \subseteq Range(l.envFrom)
  /\ \A x \in Range(l.envFrom) : x # s => x \in Range(m.envFrom)
  /\ Range(m.env) \subseteq Range(l.env)
  /\ \A x \in Range(l.env) : x.name \notin Range(Keys(b)) => x \in Range(m.env)
  /\ Single(l) => /\ Single(m) /\ ~HasName(m.mounts, Config[b].name)
                  /\ s \notin Range(m.envFrom)
                  /\ \A n \in Range(Keys(b)) : ~HasName(m.env, n)

LEMMA UnbindEffect ==
  ASSUME setup \in Setups, NEW b \in Bindings, NEW s, NEW l, Three(l)
  PROVE  Taken(b, s, l, UnbindContainer(b, s, l))
<1> DEFINE m == UnbindContainer(b, s, l)
           env == RemoveEach(l.env, Keys(b))
           from == RemoveSource(l.envFrom, s)
           mounts == RemoveNamed(l.mounts, Config[b].name)
<1>1. /\ m = [env |-> m.env, envFrom |-> m.envFrom, mounts |-> m.mounts]
      /\ m.env = env /\ m.envFrom = from /\ m.mounts = mounts
  BY UnbindFields, Zenon
<1>2. /\ Listed(env) /\ Range(env) \subseteq Range(l.env)
      /\ \A x \in Range(l.env) : x.name \notin Range(Keys(b)) => x \in Range(env)
      /\ Distinct(l.env) => Distinct(env) /\ \A n \in Range(Keys(b)) : ~HasName(env, n)
  BY VarsOf, EachRemoved, Zenon DEF Three
<1>3. /\ Listed(from) /\ Range(from) \subseteq Range(l.envFrom)
      /\ \A x \in Range(l.envFrom) : x # s => x \in Range(from)
      /\ IsInjective(l.envFrom) => IsInjective(from) /\ s \notin Range(from)
  BY SourceRemoved, Zenon DEF Three
<1>4. /\ Listed(mounts) /\ Range(mounts) \subseteq Range(l.mounts)
      /\ \A x \in Range(l.mounts) : x.name # Config[b].name => x \in Range(mounts)
      /\ Distinct(l.mounts) => Distinct(mounts) /\ ~HasName(mounts, Config[b].name)
  BY NamedRemoved, Zenon DEF Three
<1> HIDE DEF m, env, from, mounts
<1> QED
  BY <1>1, <1>2, <1>3, <1>4, Zenon DEF Three, Single, Taken, m

(***************************************************************************)
(* What the steps change                                                   *)
(***************************************************************************)

LEMMA Updated ==
  ASSUME NEW l, Three(l), NEW e
  PROVE  /\ [l EXCEPT !.env = e] = [env |-> e, envFrom |-> l.envFrom, mounts |-> l.mounts]
         /\ [l EXCEPT !.envFrom = e] = [env |-> l.env, envFrom |-> e, mounts |-> l.mounts]
         /\ [l EXCEPT !.mounts = e] = [env |-> l.env, envFrom |-> l.envFrom, mounts |-> e]
<1>1. PICK f, g, h : l = [env |-> f, envFrom |-> g, mounts |-> h]
  BY Zenon DEF Three
<1>2. l.env = f /\ l.envFrom = g /\ l.mounts = h
  BY <1>1, Zenon
<1> QED
  BY <1>1, <1>2

LEMMA ShapesOf ==
  ASSUME Shapes
  PROVE  /\ setup \in Setups /\ Listed(volumes)
         /\ DOMAIN lists = Containers /\ \A c \in Containers : Three(lists[c])
<1>1. DOMAIN lists = Containers
  <2>1. lists = [c \in Containers |-> lists[c]]
    BY Zenon DEF Shapes
  <2>2. DOMAIN [c \in Containers |-> lists[c]] = Containers
    BY Zenon
  <2> QED
    BY <2>1, <2>2, Zenon
<1> QED
  BY <1>1, Zenon DEF Shapes, Three

\* The part of Shapes that a step on the manifest must show.
LEMMA ShapesKept ==
  ASSUME Shapes, UNCHANGED <<setup, scope>>,
         bound' \in [Bindings -> Secrets \cup {NoSecret}],
         \A b \in Bindings : bound'[b] # NoSecret => bound'[b] \in Config[b].secrets,
         Listed(volumes'), lists' = [c \in Containers |-> lists'[c]],
         \A c \in Containers : Three(lists'[c])
  PROVE  Shapes'
<1>1. \A c \in Containers :
        /\ lists'[c] = [env |-> lists'[c].env, envFrom |-> lists'[c].envFrom,
                        mounts |-> lists'[c].mounts]
        /\ Listed(lists'[c].env) /\ Listed(lists'[c].envFrom) /\ Listed(lists'[c].mounts)
  BY Zenon DEF Three
<1>2. setup' \in Setups /\ scope' \in [Bindings -> SUBSET Names] /\ Config' = Config
  BY Zenon DEF Shapes, Config
<1>3. \A b \in Bindings : bound'[b] # NoSecret => bound'[b] \in Config'[b].secrets
  BY <1>2, Zenon
<1> QED
  BY <1>1, <1>2, <1>3, Zenon DEF Shapes, Listed

LEMMA EditVarEffect ==
  ASSUME Shapes, UNCHANGED setup, NEW c \in Containers, NEW n, NEW w, EditVar(c, n, w)
  PROVE  /\ Shapes' /\ UNCHANGED <<volumes, secretRef, scope, bound>>
         /\ \A x \in Containers :
              /\ lists'[x].mounts = lists[x].mounts /\ lists'[x].envFrom = lists[x].envFrom
              /\ Range(lists'[x].env) \subseteq Range(lists[x].env) \cup {EnvVar(n, NoSecret, w)}
              /\ \A v \in Range(lists[x].env) : v.name # n => v \in Range(lists'[x].env)
              /\ Distinct(lists[x].env) => Distinct(lists'[x].env)
<1> DEFINE l == lists[c]
           new == EnvVar(n, NoSecret, w)
           env == IF HasName(l.env, n) THEN RemoveNamed(l.env, n) ELSE Append(l.env, new)
<1>1. DOMAIN lists = Containers /\ \A x \in Containers : Three(lists[x])
  BY ShapesOf, Zenon
<1>2. lists' = [lists EXCEPT ![c] = [l EXCEPT !.env = env]]
  BY Zenon DEF EditVar, HasName
<1>3. new.name = n
  BY Zenon DEF EnvVar
<1>4. /\ Listed(env) /\ Range(env) \subseteq Range(l.env) \cup {new}
      /\ \A v \in Range(l.env) : v.name # n => v \in Range(env)
      /\ Distinct(l.env) => Distinct(env)
  <2>1. Listed(l.env)
    BY <1>1, Zenon DEF Three
  <2> HIDE DEF l, new
  <2>2. CASE HasName(l.env, n)
    BY <2>1, <2>2, NamedRemoved, Zenon
  <2>3. CASE ~HasName(l.env, n)
    BY <1>3, <2>1, <2>3, Appended, Zenon
  <2> QED
    BY <2>2, <2>3, Zenon
<1>5. [l EXCEPT !.env = env] = [env |-> env, envFrom |-> l.envFrom, mounts |-> l.mounts]
  BY <1>1, Updated, Zenon
<1> HIDE DEF env, new
<1>6. /\ lists' = [x \in Containers |-> lists'[x]]
      /\ \A x \in Containers : x # c => lists'[x] = lists[x]
      /\ lists'[c] = [env |-> env, envFrom |-> l.envFrom, mounts |-> l.mounts]
  BY <1>1, <1>2, <1>5, Zenon
<1>7. lists'[c].env = env /\ lists'[c].envFrom = l.envFrom /\ lists'[c].mounts = l.mounts
  BY <1>6
<1>8. \A x \in Containers : Three(lists'[x])
  <2>1. Three(lists'[c])
    BY <1>1, <1>4, <1>6, <1>7, Zenon DEF Three
  <2> QED
    BY <1>1, <1>6, <2>1, Zenon
<1>9. UNCHANGED <<volumes, secretRef, scope, bound>>
  BY Zenon DEF EditVar
<1>10. Shapes'
  BY <1>6, <1>8, <1>9, ShapesKept, Zenon DEF Shapes
<1> QED
  BY <1>4, <1>6, <1>7, <1>9, <1>10, Zenon DEF new

LEMMA EditSourceEffect ==
  ASSUME Shapes, UNCHANGED setup, NEW c \in Containers, NEW s, EditSource(c, s)
  PROVE  /\ Shapes' /\ UNCHANGED <<volumes, secretRef, scope, bound>>
         /\ s \in Sources
         /\ \A x \in Containers :
              /\ lists'[x].mounts = lists[x].mounts /\ lists'[x].env = lists[x].env
              /\ Range(lists'[x].envFrom) \subseteq Range(lists[x].envFrom) \cup {s}
              /\ \A v \in Range(lists[x].envFrom) : v # s => v \in Range(lists'[x].envFrom)
              /\ IsInjective(lists[x].envFrom) => IsInjective(lists'[x].envFrom)
<1> DEFINE l == lists[c]
           from == IF s \in Range(l.envFrom) THEN RemoveSource(l.envFrom, s)
                   ELSE Append(l.envFrom, s)
<1>1. DOMAIN lists = Containers /\ \A x \in Containers : Three(lists[x])
  BY ShapesOf, Zenon
<1>2. lists' = [lists EXCEPT ![c] = [l EXCEPT !.envFrom = from]]
  BY Zenon DEF EditSource
<1>3. /\ Listed(from) /\ Range(from) \subseteq Range(l.envFrom) \cup {s}
      /\ \A v \in Range(l.envFrom) : v # s => v \in Range(from)
      /\ IsInjective(l.envFrom) => IsInjective(from)
  <2>1. Listed(l.envFrom)
    BY <1>1, Zenon DEF Three
  <2> HIDE DEF l
  <2>3. CASE s \in Range(l.envFrom)
    BY <2>1, <2>3, SourceRemoved, Zenon
  <2>4. CASE s \notin Range(l.envFrom)
    BY <2>1, <2>4, Appended, Zenon
  <2> QED
    BY <2>3, <2>4, Zenon
<1>5. [l EXCEPT !.envFrom = from] = [env |-> l.env, envFrom |-> from, mounts |-> l.mounts]
  BY <1>1, Updated, Zenon
<1> HIDE DEF from
<1>6. /\ lists' = [x \in Containers |-> lists'[x]]
      /\ \A x \in Containers : x # c => lists'[x] = lists[x]
      /\ lists'[c] = [env |-> l.env, envFrom |-> from, mounts |-> l.mounts]
  BY <1>1, <1>2, <1>5, Zenon
<1>7. lists'[c].env = l.env /\ lists'[c].envFrom = from /\ lists'[c].mounts = l.mounts
  BY <1>6
<1>8. \A x \in Containers : Three(lists'[x])
  <2>1. Three(lists'[c])
    BY <1>1, <1>3, <1>6, <1>7, Zenon DEF Three
  <2> QED
    BY <1>1, <1>6, <2>1, Zenon
<1>9. UNCHANGED <<volumes, secretRef, scope, bound>> /\ s \in Sources
  BY Zenon DEF EditSource
<1>10. Shapes'
  BY <1>6, <1>8, <1>9, ShapesKept, Zenon DEF Shapes
<1> QED
  BY <1>3, <1>6, <1>7, <1>9, <1>10, Zenon

\* Of the list new, nothing but entries of that name has come or gone.
Alike(old, new, name) ==
  /\ \A x \in Range(new) : x \in Range(old) \/ x.name = name
  /\ \A x \in Range(old) : x.name # name => x \in Range(new)

LEMMA EditVolumeEffect ==
  ASSUME Shapes, UNCHANGED setup, NEW c \in Containers, EditVolume(c)
  PROVE  /\ Shapes' /\ UNCHANGED <<secretRef, scope, bound>>
         /\ Alike(volumes, volumes', OwnVolume) /\ (Distinct(volumes) => Distinct(volumes'))
         /\ \A x \in Containers :
              /\ lists'[x].env = lists[x].env /\ lists'[x].envFrom = lists[x].envFrom
              /\ Alike(lists[x].mounts, lists'[x].mounts, OwnVolume)
         /\ OwnMounts /\ (\A x \in Containers : Distinct(lists[x].mounts)) =>
              OwnMounts' /\ \A x \in Containers : Distinct(lists'[x].mounts)
<1>1. /\ Listed(volumes)
      /\ DOMAIN lists = Containers /\ \A x \in Containers : Three(lists[x])
  BY ShapesOf, Zenon
<1>2. UNCHANGED <<secretRef, scope, bound>>
  BY Zenon DEF EditVolume
<1>3. CASE HasName(volumes, OwnVolume)
  <2> DEFINE left(x) == RemoveNamed(lists[x].mounts, OwnVolume)
  <2>1. /\ volumes' = RemoveNamed(volumes, OwnVolume)
        /\ lists' = [x \in Containers |-> [lists[x] EXCEPT !.mounts = left(x)]]
    BY <1>3, Zenon DEF EditVolume, HasName
  <2>2. /\ Listed(volumes') /\ Alike(volumes, volumes', OwnVolume)
        /\ Distinct(volumes) => Distinct(volumes')
    BY <1>1, <2>1, NamedRemoved, Zenon DEF Alike
  <2>3. \A x \in Containers :
          /\ Listed(left(x)) /\ Alike(lists[x].mounts, left(x), OwnVolume)
          /\ Distinct(lists[x].mounts) => Distinct(left(x)) /\ ~HasName(left(x), OwnVolume)
    BY <1>1, NamedRemoved, Zenon DEF Alike, Three
  <2>4. \A x \in Containers : [lists[x] EXCEPT !.mounts = left(x)] =
          [env |-> lists[x].env, envFrom |-> lists[x].envFrom, mounts |-> left(x)]
    BY <1>1, Updated, Zenon
  <2> HIDE DEF left
  <2>5. lists' = [x \in Containers |-> lists'[x]] /\ \A x \in Containers : lists'[x] =
          [env |-> lists[x].env, envFrom |-> lists[x].envFrom, mounts |-> left(x)]
    BY <2>1, <2>4, Zenon
  <2>6. \A x \in Containers : /\ lists'[x].env = lists[x].env
                              /\ lists'[x].envFrom = lists[x].envFrom
                              /\ lists'[x].mounts = left(x)
    BY <2>5
  <2>7. \A x \in Containers : Three(lists'[x])
    BY <1>1, <2>3, <2>5, <2>6, Zenon DEF Three
  <2>8. Shapes'
    BY <1>2, <2>2, <2>5, <2>7, ShapesKept, Zenon DEF Shapes
  <2>9. (\A x \in Containers : Distinct(lists[x].mounts)) =>
          OwnMounts' /\ \A x \in Containers : Distinct(lists'[x].mounts)
    BY <2>3, <2>6, Zenon DEF OwnMounts, HasName
  <2> QED
    BY <1>2, <2>2, <2>3, <2>6, <2>8, <2>9, Zenon
<1>4. CASE ~HasName(volumes, OwnVolume)
  <2> DEFINE l == lists[c]
             volume == [name |-> OwnVolume, secret |-> NoSecret]
             mount == [name |-> OwnVolume, root |-> "/custom"]
             mounts == Append(l.mounts, mount)
  <2>1. /\ volumes' = Append(volumes, volume)
        /\ lists' = [lists EXCEPT ![c] = [l EXCEPT !.mounts = mounts]]
    BY <1>4, Zenon DEF EditVolume, HasName
  <2>2. volume.name = OwnVolume /\ mount.name = OwnVolume
    BY Zenon
  <2>3. [l EXCEPT !.mounts = mounts] = [env |-> l.env, envFrom |-> l.envFrom, mounts |-> mounts]
    BY <1>1, Updated, Zenon
  <2> HIDE DEF volume, mount
  <2>4. /\ Listed(volumes') /\ Range(volumes') = Range(volumes) \cup {volume}
        /\ Distinct(volumes) => Distinct(volumes')
    BY <1>1, <1>4, <2>1, <2>2, Appended, Zenon
  <2>5. /\ Listed(mounts) /\ Range(mounts) = Range(l.mounts) \cup {mount}
        /\ Distinct(l.mounts) /\ ~HasName(l.mounts, OwnVolume) => Distinct(mounts)
    BY <1>1, <2>2, Appended, Zenon DEF Three
  <2> HIDE DEF mounts
  <2>6. /\ lists' = [x \in Containers |-> lists'[x]]
        /\ \A x \in Containers : x # c => lists'[x] = lists[x]
        /\ lists'[c] = [env |-> l.env, envFrom |-> l.envFrom, mounts |-> mounts]
    BY <1>1, <2>1, <2>3, Zenon
  <2>7. lists'[c].env = l.env /\ lists'[c].envFrom = l.envFrom /\ lists'[c].mounts = mounts
    BY <2>6
  <2>8. \A x \in Containers : Three(lists'[x])
    <3>1. Three(lists'[c])
      BY <1>1, <2>5, <2>6, <2>7, Zenon DEF Three
    <3> QED
      BY <1>1, <2>6, <3>1, Zenon
  <2>9. Shapes'
    BY <1>2, <2>4, <2>6, <2>8, ShapesKept, Zenon DEF Shapes
  <2>10. Alike(volumes, volumes', OwnVolume) /\ \A x \in Containers :
           /\ lists'[x].env = lists[x].env /\ lists'[x].envFrom = lists[x].envFrom
           /\ Alike(lists[x].mounts, lists'[x].mounts, OwnVolume)
    BY <2>2, <2>4, <2>5, <2>6, <2>7, Zenon DEF Alike
  <2>11. HasName(volumes', OwnVolume)
    BY <2>2, <2>4, NameIn, Zenon
  <2>12. OwnMounts => ~HasName(l.mounts, OwnVolume)
    BY <1>4, Zenon DEF OwnMounts
  <2>13. OwnMounts'
    BY <2>11, Zenon DEF OwnMounts, HasName
  <2> QED
    BY <1>2, <2>4, <2>5, <2>6, <2>7, <2>9, <2>10, <2>12, <2>13, Zenon
<1> QED
  BY <1>3, <1>4, Zenon

LEMMA BindStep ==
  ASSUME Shapes, UNCHANGED setup, NEW b \in Bindings, NEW s, Bind(b, s)
  PROVE  /\ Shapes' /\ UNCHANGED scope
         /\ s \in Config[b].secrets /\ s \in Secrets
         /\ bound'[b] = s /\ \A a \in Bindings : a # b => bound'[a] = bound[a]
         /\ Bindable(b) \subseteq Containers /\ (Bindable(b) = {} => Config[b].secretPath)
         /\ secretRef' = IF Config[b].secretPath THEN s ELSE secretRef
         /\ volumes' = IF Config[b].files /\ Bindable(b) # {}
                       THEN Replace(volumes, [name |-> Config[b].name, secret |-> s])
                       ELSE volumes
         /\ lists' = [c \in Containers |-> lists'[c]]
         /\ \A c \in Containers :
              lists'[c] = IF c \in Bindable(b) THEN After(b, s, lists[c]) ELSE lists[c]
         /\ \A c \in Containers : IF c \in Bindable(b) THEN Added(b, s, lists[c], lists'[c])
                                  ELSE lists'[c] = lists[c]
<1>1. /\ setup \in Setups /\ Listed(volumes)
      /\ DOMAIN lists = Containers /\ \A c \in Containers : Three(lists[c])
  BY ShapesOf, Zenon
<1>2. s \in Config[b].secrets /\ s \in Secrets
  BY <1>1, SetupsAssumption, Zenon DEF Bind, Config
<1>3. bound \in [Bindings -> Secrets \cup {NoSecret}]
  BY Zenon DEF Shapes
<1>4. bound' = [bound EXCEPT ![b] = s]
  BY Zenon DEF Bind
<1>5. /\ bound' \in [Bindings -> Secrets \cup {NoSecret}]
      /\ bound'[b] = s /\ \A a \in Bindings : a # b => bound'[a] = bound[a]
  BY <1>2, <1>3, <1>4, Zenon
<1>6. Bindable(b) \subseteq Containers
  BY Zenon DEF Bindable
<1>7. \A c \in Containers : Binds(b, c) <=> c \in Bindable(b)
  BY Zenon DEF Bind, Binds, Unreadable
<1>8. /\ lists' = [c \in Containers |-> lists'[c]]
      /\ \A c \in Containers :
           lists'[c] = IF c \in Bindable(b) THEN After(b, s, lists[c]) ELSE lists[c]
  BY <1>7, Zenon DEF Bind, After
<1>9. \A c \in Containers : IF c \in Bindable(b) THEN Added(b, s, lists[c], lists'[c])
                            ELSE lists'[c] = lists[c]
  BY <1>1, <1>8, BindEffect
<1>10. /\ volumes' = IF Config[b].files /\ Bindable(b) # {}
                     THEN Replace(volumes, [name |-> Config[b].name, secret |-> s])
                     ELSE volumes
       /\ secretRef' = IF Config[b].secretPath THEN s ELSE secretRef
       /\ UNCHANGED scope /\ (Bindable(b) = {} => Config[b].secretPath)
  BY Zenon DEF Bind
<1>11. Listed(volumes')
  BY <1>1, <1>10, Replaced, Zenon
<1>12. \A a \in Bindings : bound'[a] # NoSecret => bound'[a] \in Config[a].secrets
  BY <1>2, <1>5, Zenon DEF Shapes
<1>13. \A c \in Containers : Three(lists'[c])
  BY <1>1, <1>9, Zenon DEF Added
<1>14. Shapes'
  BY <1>5, <1>8, <1>10, <1>11, <1>12, <1>13, ShapesKept, Zenon
<1> QED
  BY <1>2, <1>5, <1>6, <1>8, <1>9, <1>10, <1>14, Zenon

LEMMA UnbindStep ==
  ASSUME Shapes, UNCHANGED setup, NEW b \in Bindings, Unbind(b)
  PROVE  /\ Shapes' /\ UNCHANGED <<scope, secretRef>> /\ bound[b] \in Config[b].secrets
         /\ bound'[b] = NoSecret /\ \A a \in Bindings : a # b => bound'[a] = bound[a]
         /\ volumes' = RemoveNamed(volumes, Config[b].name)
         /\ lists' = [c \in Containers |-> lists'[c]]
         /\ \A c \in Containers :
              lists'[c] = IF c \in Bindable(b) THEN UnbindContainer(b, bound[b], lists[c])
                          ELSE lists[c]
         /\ \A c \in Containers : IF c \in Bindable(b) THEN Taken(b, bound[b], lists[c], lists'[c])
                                  ELSE lists'[c] = lists[c]
<1>1. /\ setup \in Setups /\ Listed(volumes)
      /\ DOMAIN lists = Containers /\ \A c \in Containers : Three(lists[c])
  BY ShapesOf, Zenon
<1>2. bound \in [Bindings -> Secrets \cup {NoSecret}]
  BY Zenon DEF Shapes
<1>3. bound' = [bound EXCEPT ![b] = NoSecret]
  BY Zenon DEF Unbind
<1>4. /\ bound' \in [Bindings -> Secrets \cup {NoSecret}]
      /\ bound'[b] = NoSecret /\ \A a \in Bindings : a # b => bound'[a] = bound[a]
  BY <1>2, <1>3, Zenon
<1>5. \A c \in Containers : Binds(b, c) <=> c \in Bindable(b)
  BY Zenon DEF Unbind, Binds, Unreadable
<1>6. /\ lists' = [c \in Containers |-> lists'[c]]
      /\ \A c \in Containers :
           lists'[c] = IF c \in Bindable(b) THEN UnbindContainer(b, bound[b], lists[c])
                       ELSE lists[c]
  BY <1>5, Zenon DEF Unbind
<1>7. \A c \in Containers : IF c \in Bindable(b) THEN Taken(b, bound[b], lists[c], lists'[c])
                            ELSE lists'[c] = lists[c]
  BY <1>1, <1>6, UnbindEffect
<1>8. /\ volumes' = RemoveNamed(volumes, Config[b].name) /\ UNCHANGED <<scope, secretRef>>
      /\ bound[b] # NoSecret
  BY Zenon DEF Unbind
<1>9. Listed(volumes')
  BY <1>1, <1>8, NamedRemoved, Zenon
<1>10. \A a \in Bindings : bound'[a] # NoSecret => bound'[a] \in Config[a].secrets
  BY <1>4, Zenon DEF Shapes
<1>11. \A c \in Containers : Three(lists'[c])
  BY <1>1, <1>7, Zenon DEF Taken
<1>12. Shapes'
  BY <1>4, <1>6, <1>8, <1>9, <1>10, <1>11, ShapesKept, Zenon
<1> QED
  BY <1>4, <1>6, <1>7, <1>8, <1>12, Zenon DEF Shapes

LEMMA RescopeStep ==
  ASSUME Shapes, UNCHANGED setup, NEW b \in Bindings, NEW cs \in SUBSET Names, Rescope(b, cs)
  PROVE  /\ Shapes' /\ UNCHANGED <<volumes, lists, secretRef, bound>>
         /\ bound[b] # NoSecret => b \in Rescoped
         /\ \A a \in Bindings : a # b => scope'[a] = scope[a]
<1>1. scope' = [scope EXCEPT ![b] = cs] /\ scope \in [Bindings -> SUBSET Names]
  BY Zenon DEF Rescope, Shapes
<1>2. scope' \in [Bindings -> SUBSET Names] /\ \A a \in Bindings : a # b => scope'[a] = scope[a]
  BY <1>1, Zenon
<1>3. UNCHANGED <<volumes, lists, secretRef, bound>> /\ (bound[b] # NoSecret => b \in Rescoped)
  BY Zenon DEF Rescope
<1>4. Shapes'
  BY <1>2, <1>3, Zenon DEF Shapes, Config, Listed
<1> QED
  BY <1>2, <1>3, <1>4, Zenon

(***************************************************************************)
(* No entry twice                                                          *)
(***************************************************************************)

\* The volume of a binding is not named as one of the workload's own.
OwnNames == \A u \in Setups, b \in Bindings : u.config[b].name # OwnVolume

\* A spec does not name a variable twice.
DistinctVars ==
  \A u \in Setups, b \in Bindings : \A i, j \in DOMAIN u.config[b].env :
    i # j => u.config[b].env[i].var # u.config[b].env[j].var

LEMMA InitShapes == Init => Shapes /\ NoDuplicates /\ OwnMounts
<1> SUFFICES ASSUME Init PROVE Shapes /\ NoDuplicates /\ OwnMounts
  BY Zenon
<1>1. \A c \in Containers : lists[c] = [env |-> <<>>, envFrom |-> <<>>, mounts |-> <<>>]
  BY Zenon DEF Init
<1>2. \A c \in Containers :
        lists[c].env = <<>> /\ lists[c].envFrom = <<>> /\ lists[c].mounts = <<>>
  BY <1>1
<1>3. Listed(<<>>)
  BY DEF Listed
<1>4. Shapes
  BY <1>1, <1>2, <1>3, Zenon DEF Init, Shapes
<1>5. NoDuplicates /\ OwnMounts
  BY <1>2 DEF Init, NoDuplicates, OwnMounts, Distinct, HasName, IsInjective
<1> QED
  BY <1>4, <1>5, Zenon

LEMMA OwnVars ==
  ASSUME DistinctVars, setup \in Setups, NEW b \in Bindings, NEW s
  PROVE  Distinct(EnvBindings(b, s))
<1>1. \A i, j \in DOMAIN Config[b].env : i # j => Config[b].env[i].var # Config[b].env[j].var
  BY Zenon DEF DistinctVars, Config
<1> QED
  BY <1>1, Zenon DEF Distinct, EnvBindings, EnvVar

LEMMA SingleStep ==
  ASSUME OwnNames, DistinctVars, Shapes, NoDuplicates, OwnMounts, [Next]_vars
  PROVE  Shapes' /\ NoDuplicates' /\ OwnMounts'
<1>1. /\ setup \in Setups /\ Listed(volumes)
      /\ \A c \in Containers : Three(lists[c]) /\ Single(lists[c])
      /\ Distinct(volumes)
  BY ShapesOf, Zenon DEF NoDuplicates, Single
<1>2. \A b \in Bindings : Config[b].name # OwnVolume
  BY <1>1, Zenon DEF OwnNames, Config
<1>3. (Distinct(volumes') /\ \A c \in Containers : Single(lists'[c])) => NoDuplicates'
  BY Zenon DEF NoDuplicates, Single, Distinct
<1>4. ASSUME UNCHANGED setup, NEW b \in Bindings, NEW s \in Secrets, Bind(b, s)
      PROVE  Shapes' /\ NoDuplicates' /\ OwnMounts'
  <2> DEFINE volume == [name |-> Config[b].name, secret |-> s]
  <2>1. /\ Shapes'
        /\ volumes' = IF Config[b].files /\ Bindable(b) # {}
                      THEN Replace(volumes, volume) ELSE volumes
        /\ \A c \in Containers : IF c \in Bindable(b) THEN Added(b, s, lists[c], lists'[c])
                                 ELSE lists'[c] = lists[c]
    BY <1>4, BindStep, Zenon
  <2>2. volume.name = Config[b].name
    BY Zenon
  <2> HIDE DEF volume
  <2>3. /\ Distinct(volumes')
        /\ HasName(volumes, OwnVolume) => HasName(volumes', OwnVolume)
    BY <1>1, <1>2, <2>1, <2>2, Replaced, NameIn, Zenon
  <2>4. \A c \in Containers : /\ Single(lists'[c])
                              /\ HasName(lists'[c].mounts, OwnVolume)
                                   => HasName(lists[c].mounts, OwnVolume)
    <3> SUFFICES ASSUME NEW c \in Containers
                 PROVE  /\ Single(lists'[c])
                        /\ HasName(lists'[c].mounts, OwnVolume)
                             => HasName(lists[c].mounts, OwnVolume)
      BY Zenon
    <3>1. CASE c \notin Bindable(b)
      BY <1>1, <2>1, <3>1, Zenon
    <3>2. CASE c \in Bindable(b)
      <4>1. Added(b, s, lists[c], lists'[c])
        BY <2>1, <3>2, Zenon
      <4>2. /\ \A x \in Range(lists'[c].mounts) :
                 x \in Range(lists[c].mounts) \/ (Config[b].files /\ x.name = Config[b].name)
            /\ Single(lists[c]) /\ Distinct(EnvBindings(b, s)) => Single(lists'[c])
        BY <1>1, <4>1, Zenon DEF Added
      <4>3. Single(lists'[c])
        BY <1>1, <4>2, OwnVars, Zenon
      <4> QED
        BY <1>2, <4>2, <4>3, NameIn, Zenon
    <3> QED
      BY <3>1, <3>2, Zenon
  <2>5. OwnMounts'
    BY <2>3, <2>4, Zenon DEF OwnMounts, HasName
  <2> QED
    BY <1>3, <2>1, <2>3, <2>4, <2>5, Zenon
<1>5. ASSUME UNCHANGED setup, NEW b \in Bindings, Unbind(b)
      PROVE  Shapes' /\ NoDuplicates' /\ OwnMounts'
  <2>1. /\ Shapes' /\ volumes' = RemoveNamed(volumes, Config[b].name)
        /\ \A c \in Containers : IF c \in Bindable(b)
                                 THEN Taken(b, bound[b], lists[c], lists'[c])
                                 ELSE lists'[c] = lists[c]
    BY <1>5, UnbindStep, Zenon
  <2>2. /\ Distinct(volumes')
        /\ HasName(volumes, OwnVolume) => HasName(volumes', OwnVolume)
    BY <1>1, <1>2, <2>1, NamedRemoved, NameIn, Zenon
  <2>3. \A c \in Containers : /\ Single(lists'[c])
                              /\ HasName(lists'[c].mounts, OwnVolume)
                                   => HasName(lists[c].mounts, OwnVolume)
    BY <1>1, <2>1, NameIn, Zenon DEF Taken
  <2>4. OwnMounts'
    BY <2>2, <2>3, Zenon DEF OwnMounts, HasName
  <2> QED
    BY <1>3, <2>1, <2>2, <2>3, <2>4, Zenon
<1>6. ASSUME UNCHANGED setup, NEW c \in Containers, NEW n, NEW w, EditVar(c, n, w)
      PROVE  Shapes' /\ NoDuplicates' /\ OwnMounts'
  <2>1. /\ Shapes' /\ UNCHANGED volumes
        /\ \A x \in Containers :
             /\ lists'[x].mounts = lists[x].mounts /\ lists'[x].envFrom = lists[x].envFrom
             /\ Distinct(lists[x].env) => Distinct(lists'[x].env)
    BY <1>6, EditVarEffect, Zenon
  <2>2. \A x \in Containers : Single(lists'[x])
    BY <1>1, <2>1, Zenon DEF Single
  <2> QED
    BY <1>1, <1>3, <2>1, <2>2, Zenon DEF OwnMounts, HasName
<1>7. ASSUME UNCHANGED setup, NEW c \in Containers, NEW s, EditSource(c, s)
      PROVE  Shapes' /\ NoDuplicates' /\ OwnMounts'
  <2>1. /\ Shapes' /\ UNCHANGED volumes
        /\ \A x \in Containers :
             /\ lists'[x].mounts = lists[x].mounts /\ lists'[x].env = lists[x].env
             /\ IsInjective(lists[x].envFrom) => IsInjective(lists'[x].envFrom)
    BY <1>7, EditSourceEffect, Zenon
  <2>2. \A x \in Containers : Single(lists'[x])
    BY <1>1, <2>1, Zenon DEF Single
  <2> QED
    BY <1>1, <1>3, <2>1, <2>2, Zenon DEF OwnMounts, HasName
<1>8. ASSUME UNCHANGED setup, NEW c \in Containers, EditVolume(c)
      PROVE  Shapes' /\ NoDuplicates' /\ OwnMounts'
  <2>1. \A x \in Containers : Distinct(lists[x].mounts)
    BY <1>1, Zenon DEF Single
  <2>2. /\ Shapes' /\ (Distinct(volumes) => Distinct(volumes'))
        /\ \A x \in Containers :
             lists'[x].env = lists[x].env /\ lists'[x].envFrom = lists[x].envFrom
        /\ OwnMounts /\ (\A x \in Containers : Distinct(lists[x].mounts)) =>
             OwnMounts' /\ \A x \in Containers : Distinct(lists'[x].mounts)
    BY <1>8, EditVolumeEffect, Zenon
  <2>3. OwnMounts' /\ \A x \in Containers : Distinct(lists'[x].mounts)
    BY <2>1, <2>2, Zenon
  <2>4. \A x \in Containers : Single(lists'[x])
    BY <1>1, <2>2, <2>3, Zenon DEF Single
  <2> QED
    BY <1>1, <1>3, <2>2, <2>3, <2>4, Zenon
<1>9. ASSUME UNCHANGED setup, NEW b \in Bindings, NEW cs \in SUBSET Names, Rescope(b, cs)
      PROVE  Shapes' /\ NoDuplicates' /\ OwnMounts'
  <2>1. Shapes' /\ UNCHANGED <<volumes, lists>>
    BY <1>9, RescopeStep, Zenon
  <2> QED
    BY <1>1, <1>3, <2>1, Zenon DEF OwnMounts, HasName
<1>10. CASE UNCHANGED vars
  BY <1>1, <1>3, <1>10, Zenon DEF vars, OwnMounts, HasName, Shapes, Config, Listed
<1> QED
  BY <1>4, <1>5, <1>6, <1>7, <1>8, <1>9, <1>10, Zenon DEF Next, Operator

\* However bindings are projected, with whichever secrets, no list gets two
\* entries of one name and no secret twice: AddEnvVars, AddEnvFromVar,
\* AddVolume and AddVolumeMount replace what is there.
THEOREM EntriesSingle ==
  ASSUME OwnNames, DistinctVars
  PROVE  Spec => []NoDuplicates
<1> DEFINE Inv == Shapes /\ NoDuplicates /\ OwnMounts
<1>1. Init => Inv
  BY InitShapes, Zenon
<1>2. Inv /\ [Next]_vars => Inv'
  BY SingleStep, Zenon
<1> QED
  BY <1>1, <1>2, PTL DEF Spec


(***************************************************************************)
(* Unbinding leaves nothing                                                *)
(***************************************************************************)

\* A binding that is projected as variables keeps its secret.
OneSource ==
  \A u \in Setups, b \in Bindings :
    u.config[b].files \/ \A s, t \in u.config[b].secrets : s = t

\* The volume names of two bindings differ, and nobody else refers to what is
\* private to a binding.
LEMMA Apart ==
  ASSUME setup \in Setups, NEW a \in Bindings
  PROVE  /\ Private(a) \subseteq Config[a].secrets
         /\ Config[a].secrets \subseteq Secrets /\ NoSecret \notin Config[a].secrets
         /\ Private(a) \cap Sources = {}
         /\ \A b \in Bindings : a # b =>
              /\ Config[a].name # Config[b].name
              /\ Private(a) \cap Config[b].secrets = {}
BY SetupsAssumption, Zenon DEF Config, Private

\* A step that adds nothing of binding a.
LEMMA TracesKept ==
  ASSUME NEW a \in Bindings, TracesOf(a), UNCHANGED setup,
         scope'[a] = scope[a], bound'[a] = bound[a],
         secretRef' \notin Private(a),
         HasName(volumes', Config[a].name) => HasName(volumes, Config[a].name),
         \A c \in Containers :
           /\ HasName(lists'[c].mounts, Config[a].name) => HasName(lists[c].mounts, Config[a].name)
           /\ Range(lists'[c].envFrom) \cap Private(a) \subseteq Range(lists[c].envFrom)
           /\ \A v \in Range(lists'[c].env) :
                v.from \in Private(a) => v \in Range(lists[c].env)
  PROVE  TracesOf(a)'
<1>1. Config' = Config /\ Private(a)' = Private(a) /\ Bindable(a)' = Bindable(a)
  BY Zenon DEF Config, Private, Sources, Bindable
<1> QED
  BY <1>1 DEF TracesOf, HasName, Range

LEMMA TracesStep ==
  ASSUME OneSource, Shapes, NoDuplicates, NEW a \in Bindings, a \notin Rescoped,
         Config[a].name # OwnVolume, Undone(a), TracesOf(a), UNCHANGED setup, Next
  PROVE  TracesOf(a)'
<1>1. /\ setup \in Setups /\ Listed(volumes) /\ Distinct(volumes)
      /\ \A c \in Containers : Three(lists[c]) /\ Single(lists[c])
  BY ShapesOf, Zenon DEF NoDuplicates, Single
<1>2. /\ Private(a) \subseteq Config[a].secrets /\ NoSecret \notin Config[a].secrets
      /\ Private(a) \cap Sources = {}
      /\ \A b \in Bindings : a # b =>
           /\ Config[a].name # Config[b].name
           /\ Private(a) \cap Config[b].secrets = {}
  BY <1>1, Apart, Zenon
<1>3. Config' = Config /\ Private(a)' = Private(a) /\ secretRef \notin Private(a)
  BY Zenon DEF Config, Private, Sources, TracesOf
<1>4. ASSUME NEW s \in Secrets, Bind(a, s) PROVE TracesOf(a)'
  <2>1. /\ UNCHANGED scope /\ s \in Config[a].secrets /\ bound'[a] = s
        /\ secretRef' = IF Config[a].secretPath THEN s ELSE secretRef
        /\ \A c \in Containers : IF c \in Bindable(a) THEN Added(a, s, lists[c], lists'[c])
                                 ELSE lists'[c] = lists[c]
    BY <1>4, BindStep, Zenon
  <2>2. Bindable(a)' = Bindable(a) /\ bound'[a] # NoSecret
    BY <1>2, <2>1, Zenon DEF Bindable
  <2>3. secretRef' \notin Private(a)
    BY <1>3, <2>1, Zenon DEF Undone
  <2>4. ASSUME NEW c \in Containers, c \notin Bindable(a)
        PROVE  /\ ~HasName(lists'[c].mounts, Config[a].name)
               /\ Range(lists'[c].envFrom) \cap Private(a) = {}
               /\ \A v \in Range(lists'[c].env) : v.from \notin Private(a)
    <3>1. lists'[c] = lists[c]
      BY <2>1, <2>4, Zenon
    <3> QED
      BY <2>4, <3>1, Zenon DEF TracesOf
  <2>5. ASSUME NEW c \in Containers, c \in Bindable(a)
        PROVE  /\ \A t \in Range(lists'[c].envFrom) \cap Private(a) :
                    ~Config[a].files /\ t = s
               /\ \A v \in Range(lists'[c].env) : v.from \in Private(a) =>
                    \E e \in Range(Config[a].env) : v.name = e.key
    <3> DEFINE mine == EnvBindings(a, s)
    <3>1. Added(a, s, lists[c], lists'[c])
      BY <2>1, <2>5, Zenon
    <3>2. /\ Range(lists'[c].envFrom) =
               Range(lists[c].envFrom) \cup (IF Config[a].files THEN {} ELSE {s})
          /\ Range(lists'[c].env) \subseteq Range(lists[c].env) \cup Range(mine) \cup {Default}
      BY <1>1, <3>1, Zenon DEF Added
    <3>3. \A t \in Range(lists[c].envFrom) \cap Private(a) : ~Config[a].files
      BY Zenon DEF TracesOf
    <3>4. Config[a].files \/ \A t, r \in Config[a].secrets : t = r
      BY <1>1, Zenon DEF OneSource, Config
    <3>5. \A t \in Range(lists'[c].envFrom) \cap Private(a) : ~Config[a].files /\ t = s
      BY <1>2, <2>1, <3>2, <3>3, <3>4, Zenon
    <3>6. \A v \in Range(mine) : \E e \in Range(Config[a].env) : v.name = e.key
      BY <1>1, VarsOf DEF Undone
    <3>7. Default.from \notin Private(a)
      BY <1>2, Zenon DEF Default, EnvVar
    <3>8. \A v \in Range(lists[c].env) : v.from \in Private(a) =>
            \E e \in Range(Config[a].env) : v.name = e.key
      BY Zenon DEF TracesOf
    <3> QED
      BY <3>2, <3>5, <3>6, <3>7, <3>8, Zenon
  <2> QED
    BY <1>3, <2>1, <2>2, <2>3, <2>4, <2>5, Zenon DEF TracesOf
<1>5. ASSUME NEW b \in Bindings, b # a, NEW s \in Secrets, Bind(b, s) PROVE TracesOf(a)'
  <2> DEFINE volume == [name |-> Config[b].name, secret |-> s]
  <2>1. /\ UNCHANGED scope /\ s \in Config[b].secrets /\ bound'[a] = bound[a]
        /\ secretRef' = IF Config[b].secretPath THEN s ELSE secretRef
        /\ volumes' = IF Config[b].files /\ Bindable(b) # {}
                      THEN Replace(volumes, volume) ELSE volumes
        /\ \A c \in Containers : IF c \in Bindable(b) THEN Added(b, s, lists[c], lists'[c])
                                 ELSE lists'[c] = lists[c]
    BY <1>5, BindStep, Zenon
  <2>2. s \notin Private(a) /\ Config[a].name # Config[b].name
    BY <1>2, <1>5, <2>1, Zenon
  <2>3. secretRef' \notin Private(a)
    BY <1>3, <2>1, <2>2, Zenon
  <2>4. volume.name = Config[b].name
    BY Zenon
  <2> HIDE DEF volume
  <2>5. HasName(volumes', Config[a].name) => HasName(volumes, Config[a].name)
    BY <1>1, <2>1, <2>2, <2>4, Replaced, NameIn
  <2>6. ASSUME NEW c \in Containers
        PROVE  /\ HasName(lists'[c].mounts, Config[a].name)
                    => HasName(lists[c].mounts, Config[a].name)
               /\ Range(lists'[c].envFrom) \cap Private(a) \subseteq Range(lists[c].envFrom)
               /\ \A v \in Range(lists'[c].env) :
                    v.from \in Private(a) => v \in Range(lists[c].env)
    <3>1. CASE c \notin Bindable(b)
      BY <2>1, <3>1, Zenon
    <3>2. CASE c \in Bindable(b)
      <4>1. Added(b, s, lists[c], lists'[c])
        BY <2>1, <3>2, Zenon
      <4>2. /\ \A x \in Range(lists'[c].mounts) :
                 x \in Range(lists[c].mounts) \/ (Config[b].files /\ x.name = Config[b].name)
            /\ Range(lists'[c].envFrom) =
                 Range(lists[c].envFrom) \cup (IF Config[b].files THEN {} ELSE {s})
            /\ Range(lists'[c].env) \subseteq
                 Range(lists[c].env) \cup Range(EnvBindings(b, s)) \cup {Default}
        BY <1>1, <4>1, Zenon DEF Added
      <4>3. \A v \in Range(EnvBindings(b, s)) : v.from = s
        BY <1>1, VarsOf
      <4>4. Default.from \notin Private(a)
        BY <1>2, Zenon DEF Default, EnvVar
      <4>5. HasName(lists'[c].mounts, Config[a].name) => HasName(lists[c].mounts, Config[a].name)
        BY <2>2, <4>2, NameIn, Zenon
      <4> QED
        BY <2>2, <4>2, <4>3, <4>4, <4>5, Zenon
    <3> QED
      BY <3>1, <3>2, Zenon
  <2> QED
    BY <2>1, <2>3, <2>5, <2>6, TracesKept, Zenon
<1>6. ASSUME Unbind(a) PROVE TracesOf(a)'
  <2>1. /\ UNCHANGED <<scope, secretRef>> /\ bound'[a] = NoSecret
        /\ volumes' = RemoveNamed(volumes, Config[a].name)
        /\ \A c \in Containers : IF c \in Bindable(a)
                                 THEN Taken(a, bound[a], lists[c], lists'[c])
                                 ELSE lists'[c] = lists[c]
    BY <1>6, UnbindStep, Zenon
  <2>2. ~HasName(volumes', Config[a].name)
    BY <1>1, <2>1, NamedRemoved, Zenon
  <2>3. ASSUME NEW c \in Containers
        PROVE  /\ ~HasName(lists'[c].mounts, Config[a].name)
               /\ Range(lists'[c].envFrom) \cap Private(a) = {}
               /\ \A v \in Range(lists'[c].env) : v.from \notin Private(a)
    <3>1. CASE c \notin Bindable(a)
      BY <2>1, <3>1, Zenon DEF TracesOf
    <3>2. CASE c \in Bindable(a)
      <4>1. Taken(a, bound[a], lists[c], lists'[c])
        BY <2>1, <3>2, Zenon
      <4>2. /\ Range(lists'[c].envFrom) \subseteq Range(lists[c].envFrom)
            /\ Range(lists'[c].env) \subseteq Range(lists[c].env)
            /\ ~HasName(lists'[c].mounts, Config[a].name) /\ bound[a] \notin Range(lists'[c].envFrom)
            /\ \A n \in Range(Keys(a)) : ~HasName(lists'[c].env, n)
        BY <1>1, <4>1, Zenon DEF Taken
      <4>3. Range(lists'[c].envFrom) \cap Private(a) = {}
        BY <4>2, Zenon DEF TracesOf
      <4>4. ASSUME NEW v \in Range(lists'[c].env), v.from \in Private(a) PROVE FALSE
        <5>1. PICK e \in Range(Config[a].env) : v.name = e.key
          BY <4>2, <4>4, Zenon DEF TracesOf
        <5>2. v.name \in Range(Keys(a))
          BY <1>1, <5>1, VarsOf, Zenon
        <5> QED
          BY <4>2, <5>2, NameIn, Zenon
      <4> QED
        BY <4>2, <4>3, <4>4, Zenon
    <3> QED
      BY <3>1, <3>2, Zenon
  <2> QED
    BY <1>3, <2>1, <2>2, <2>3, Zenon DEF TracesOf
<1>7. ASSUME NEW b \in Bindings, b # a, Unbind(b) PROVE TracesOf(a)'
  <2>1. /\ UNCHANGED <<scope, secretRef>> /\ bound'[a] = bound[a]
        /\ volumes' = RemoveNamed(volumes, Config[b].name)
        /\ \A c \in Containers : IF c \in Bindable(b)
                                 THEN Taken(b, bound[b], lists[c], lists'[c])
                                 ELSE lists'[c] = lists[c]
    BY <1>7, UnbindStep, Zenon
  <2>2. Range(volumes') \subseteq Range(volumes)
    BY <1>1, <2>1, NamedRemoved, Zenon
  <2>3. ASSUME NEW c \in Containers
        PROVE  /\ Range(lists'[c].mounts) \subseteq Range(lists[c].mounts)
               /\ Range(lists'[c].envFrom) \subseteq Range(lists[c].envFrom)
               /\ Range(lists'[c].env) \subseteq Range(lists[c].env)
    <3>1. CASE c \notin Bindable(b)
      BY <2>1, <3>1, Zenon
    <3>2. CASE c \in Bindable(b)
      <4>1. Taken(b, bound[b], lists[c], lists'[c])
        BY <2>1, <3>2, Zenon
      <4> QED
        BY <1>1, <4>1, Zenon DEF Taken
    <3> QED
      BY <3>1, <3>2, Zenon
  <2>4. HasName(volumes', Config[a].name) => HasName(volumes, Config[a].name)
    BY <2>2, NameIn, Zenon
  <2>5. \A c \in Containers :
          HasName(lists'[c].mounts, Config[a].name) => HasName(lists[c].mounts, Config[a].name)
    BY <2>3, NameIn, Zenon
  <2> QED
    BY <1>3, <2>1, <2>3, <2>4, <2>5, TracesKept, Zenon
<1>8. ASSUME NEW c \in Containers, NEW n, NEW w, EditVar(c, n, w) PROVE TracesOf(a)'
  <2>1. /\ UNCHANGED <<volumes, secretRef, scope, bound>>
        /\ \A x \in Containers :
             /\ lists'[x].mounts = lists[x].mounts /\ lists'[x].envFrom = lists[x].envFrom
             /\ Range(lists'[x].env) \subseteq Range(lists[x].env) \cup {EnvVar(n, NoSecret, w)}
    BY <1>8, EditVarEffect, Zenon
  <2>2. EnvVar(n, NoSecret, w).from \notin Private(a)
    BY <1>2, Zenon DEF EnvVar
  <2> QED
    BY <1>3, <2>1, <2>2, TracesKept, Zenon
<1>9. ASSUME NEW c \in Containers, NEW s, EditSource(c, s) PROVE TracesOf(a)'
  <2>1. /\ UNCHANGED <<volumes, secretRef, scope, bound>> /\ s \in Sources
        /\ \A x \in Containers :
             /\ lists'[x].mounts = lists[x].mounts /\ lists'[x].env = lists[x].env
             /\ Range(lists'[x].envFrom) \subseteq Range(lists[x].envFrom) \cup {s}
    BY <1>9, EditSourceEffect, Zenon
  <2> QED
    BY <1>2, <1>3, <2>1, TracesKept, Zenon
<1>10. ASSUME NEW c \in Containers, EditVolume(c) PROVE TracesOf(a)'
  <2>1. /\ UNCHANGED <<secretRef, scope, bound>> /\ Alike(volumes, volumes', OwnVolume)
        /\ \A x \in Containers :
             /\ lists'[x].env = lists[x].env /\ lists'[x].envFrom = lists[x].envFrom
             /\ Alike(lists[x].mounts, lists'[x].mounts, OwnVolume)
    BY <1>10, EditVolumeEffect, Zenon
  <2>2. HasName(volumes', Config[a].name) => HasName(volumes, Config[a].name)
    BY <2>1, NameIn, Zenon DEF Alike
  <2>3. \A x \in Containers :
          HasName(lists'[x].mounts, Config[a].name) => HasName(lists[x].mounts, Config[a].name)
    BY <2>1, NameIn, Zenon DEF Alike
  <2> QED
    BY <1>3, <2>1, <2>2, <2>3, TracesKept, Zenon
<1>11. ASSUME NEW b \in Bindings, NEW cs \in SUBSET Names, Rescope(b, cs) PROVE TracesOf(a)'
  <2>1. /\ UNCHANGED <<volumes, lists, secretRef, bound>>
        /\ bound[b] # NoSecret => b \in Rescoped
        /\ \A d \in Bindings : d # b => scope'[d] = scope[d]
    BY <1>11, RescopeStep, Zenon
  <2>2. CASE a # b
    BY <1>3, <2>1, <2>2, TracesKept, Zenon
  <2>3. CASE a = b
    <3>1. bound[a] = NoSecret
      BY <2>1, <2>3, Zenon
    <3> QED
      BY <1>2, <1>3, <2>1, <3>1, Zenon DEF TracesOf
  <2> QED
    BY <2>2, <2>3, Zenon
<1> QED
  BY <1>4, <1>5, <1>6, <1>7, <1>8, <1>9, <1>10, <1>11, Zenon DEF Next, Operator

\* Unbind leaves nothing of the binding in the workload: no volume or mount, and
\* no source or variable of a secret that it has to itself, in whatever order
\* bindings come and go, unless its spec was edited to name other containers, or
\* has what Unbind does not undo.
THEOREM UnbindLeavesNothing ==
  ASSUME OwnNames, DistinctVars, OneSource
  PROVE  Spec => []UnbindRemoves
<1> DEFINE Inv == Shapes /\ NoDuplicates /\ OwnMounts /\ Traceable
<1>1. Init => Inv
  <2> SUFFICES ASSUME Init PROVE Inv
    BY Zenon
  <2>1. Shapes /\ NoDuplicates /\ OwnMounts
    BY InitShapes, Zenon
  <2>2. volumes = <<>> /\ secretRef = NoSecret /\ \A c \in Containers :
          lists[c].env = <<>> /\ lists[c].envFrom = <<>> /\ lists[c].mounts = <<>>
    BY Zenon DEF Init
  <2>3. \A a \in Bindings : NoSecret \notin Private(a)
    BY <2>1, Apart, Zenon DEF Shapes
  <2>4. \A a \in Bindings : TracesOf(a)
    BY <2>2, <2>3 DEF TracesOf, HasName, Range
  <2> QED
    BY <2>1, <2>4, Zenon DEF Traceable
<1>2. Inv /\ [Next]_vars => Inv'
  <2> SUFFICES ASSUME Inv, [Next]_vars PROVE Inv'
    BY Zenon
  <2>1. Shapes' /\ NoDuplicates' /\ OwnMounts'
    BY SingleStep, Zenon
  <2>2. CASE UNCHANGED vars
    <3>1. UNCHANGED <<setup, volumes, lists, secretRef, scope, bound>>
      BY <2>2, Zenon DEF vars
    <3>2. UNCHANGED Traceable
      BY <3>1 DEF Traceable, Undone, TracesOf, Private, Sources, Config, Rescoped, Bindable
    <3> QED
      BY <2>1, <3>2, Zenon
  <2>3. CASE Next
    <3>1. UNCHANGED setup
      BY <2>3, Zenon DEF Next
    <3>2. Rescoped' = Rescoped /\ Config' = Config
      BY <3>1, Zenon DEF Rescoped, Config
    <3>3. ASSUME NEW a \in Bindings, a \notin Rescoped, Undone(a) PROVE TracesOf(a)'
      <4>1. TracesOf(a) /\ Config[a].name # OwnVolume
        BY <3>3, Zenon DEF Traceable, OwnNames, Shapes, Config
      <4> QED
        BY <2>3, <3>1, <3>3, <4>1, TracesStep, Zenon
    <3>4. \A a \in Bindings : Undone(a)' => Undone(a)
      BY <3>2, Zenon DEF Undone
    <3> QED
      BY <2>1, <3>2, <3>3, <3>4, Zenon DEF Traceable
  <2> QED
    BY <2>2, <2>3, Zenon
<1>3. Inv => UnbindRemoves
  <2> SUFFICES ASSUME Inv, NEW b \in Bindings, b \notin Rescoped, Undone(b), bound[b] = NoSecret,
                      Traces(b)
               PROVE  FALSE
    BY Zenon DEF UnbindRemoves
  <2>1. TracesOf(b) /\ NoSecret \notin Private(b)
    BY Apart, Zenon DEF Traceable, Shapes
  <2> QED
    BY <2>1, Zenon DEF Traces, TracesOf
<1> QED
  BY <1>1, <1>2, <1>3, PTL DEF Spec

(***************************************************************************)
(* Bound in every container                                                *)
(***************************************************************************)

\* The variables of a binding are its own: neither another binding nor the
\* owner of the workload has one of that name.
SeparateVars ==
  \A u \in Setups, b \in Bindings : \A e \in Range(u.config[b].env) :
    /\ e.var \notin {OwnVar, BindingRoot}
    /\ \A c \in Bindings : c # b =>
         \A f \in Range(u.config[c].env) : e.var \notin {f.var, f.key}

\* What a container holds of binding b.
Holds(b, c) ==
  /\ IF Config[b].files THEN HasName(lists[c].mounts, Config[b].name)
     ELSE bound[b] \in Range(lists[c].envFrom)
  /\ Range(EnvBindings(b, bound[b])) \subseteq Range(lists[c].env)

\* A binding that unbinding another one, or an edit of the owner, leaves alone.
Safe(b) == Config[b].files \/ bound[b] \in Private(b)

\* What the workload holds of a binding whose secret is in its status.
Projected(b) ==
  bound[b] # NoSecret /\ Safe(b) =>
    /\ \A c \in Bindable(b) : Holds(b, c)
    /\ Config[b].files /\ Bindable(b) # {} =>
         [name |-> Config[b].name, secret |-> bound[b]] \in Range(volumes)

\* A step that takes nothing of binding a away.
LEMMA ProjectedKept ==
  ASSUME NEW a \in Bindings, Projected(a), UNCHANGED setup,
         scope'[a] = scope[a], bound'[a] = bound[a],
         \A x \in Range(volumes) : x.name = Config[a].name => x \in Range(volumes'),
         \A c \in Containers :
           /\ HasName(lists[c].mounts, Config[a].name) => HasName(lists'[c].mounts, Config[a].name)
           /\ bound[a] \in Private(a) \cap Range(lists[c].envFrom)
                => bound[a] \in Range(lists'[c].envFrom)
           /\ \A v \in Range(lists[c].env) :
                HasName(EnvBindings(a, bound[a]), v.name) => v \in Range(lists'[c].env)
  PROVE  Projected(a)'
<1>1. Config' = Config /\ Bindable(a)' = Bindable(a) /\ Bindable(a) \subseteq Containers
  BY Zenon DEF Config, Bindable
<1>2. EnvBindings(a, bound[a])' = EnvBindings(a, bound[a])
  BY <1>1, Zenon DEF EnvBindings
<1>3. \A v \in Range(EnvBindings(a, bound[a])) : HasName(EnvBindings(a, bound[a]), v.name)
  BY NameIn, Zenon
<1>0. Safe(a)' <=> Safe(a)
  BY <1>1, Zenon DEF Safe, Private, Sources
<1>4. bound[a] # NoSecret /\ Safe(a) => \A c \in Bindable(a) : Holds(a, c)'
  <2> SUFFICES ASSUME bound[a] # NoSecret, Safe(a), NEW c \in Bindable(a) PROVE Holds(a, c)'
    BY Zenon
  <2>1. Holds(a, c) /\ c \in Containers
    BY <1>1, Zenon DEF Projected
  <2>2. Range(EnvBindings(a, bound[a])) \subseteq Range(lists'[c].env)
    BY <1>3, <2>1, Zenon DEF Holds
  <2> QED
    BY <1>1, <1>2, <2>1, <2>2, Zenon DEF Holds, Safe, HasName, Range
<1>5. bound[a] # NoSecret /\ Safe(a) /\ Config[a].files /\ Bindable(a) # {} =>
        [name |-> Config[a].name, secret |-> bound[a]] \in Range(volumes')
  BY Zenon DEF Projected
<1> QED
  BY <1>0, <1>1, <1>4, <1>5, Zenon DEF Projected, Range

LEMMA ProjectedStep ==
  ASSUME SeparateVars, Shapes, NEW a \in Bindings, a \notin Rescoped,
         Config[a].name # OwnVolume, Projected(a), UNCHANGED setup, Next
  PROVE  Projected(a)'
<1> DEFINE Mine(n) == HasName(EnvBindings(a, bound[a]), n)
<1>1. setup \in Setups /\ Listed(volumes) /\ \A c \in Containers : Three(lists[c])
  BY ShapesOf, Zenon
<1>2. /\ Private(a) \cap Sources = {}
      /\ \A b \in Bindings : a # b =>
           /\ Config[a].name # Config[b].name
           /\ Private(a) \cap Config[b].secrets = {}
  BY <1>1, Apart, Zenon
<1>3. Config' = Config
  BY Zenon DEF Config
<1>4. \A n : Mine(n) => /\ n # OwnVar /\ n # BindingRoot
                        /\ \A b \in Bindings : \A f \in Range(Config[b].env) :
                             b # a => n # f.var /\ n # f.key
  <2> SUFFICES ASSUME NEW n, Mine(n)
               PROVE  /\ n # OwnVar /\ n # BindingRoot
                      /\ \A b \in Bindings : \A f \in Range(Config[b].env) :
                           b # a => n # f.var /\ n # f.key
    BY Zenon
  <2>1. PICK e \in Range(Config[a].env) : e.var = n
    BY <1>1, VarsOf
  <2> QED
    BY <1>1, <2>1, Zenon DEF SeparateVars, Config
<1> HIDE DEF Mine
<1>5. ASSUME NEW s \in Secrets, Bind(a, s) PROVE Projected(a)'
  <2> DEFINE volume == [name |-> Config[a].name, secret |-> s]
  <2>1. /\ UNCHANGED scope /\ bound'[a] = s /\ Bindable(a) \subseteq Containers
        /\ volumes' = IF Config[a].files /\ Bindable(a) # {}
                      THEN Replace(volumes, volume) ELSE volumes
        /\ \A c \in Containers : IF c \in Bindable(a) THEN Added(a, s, lists[c], lists'[c])
                                 ELSE lists'[c] = lists[c]
    BY <1>5, BindStep, Zenon
  <2>2. Bindable(a)' = Bindable(a) /\ EnvBindings(a, bound[a])' = EnvBindings(a, s)
    BY <1>3, <2>1, Zenon DEF Bindable, EnvBindings
  <2>3. Config[a].files /\ Bindable(a) # {} => volume \in Range(volumes')
    BY <1>1, <2>1, Replaced
  <2>4. ASSUME NEW c \in Bindable(a) PROVE Holds(a, c)'
    <3>1. Added(a, s, lists[c], lists'[c]) /\ Three(lists[c])
      BY <1>1, <2>1, <2>4, Zenon
    <3>2. /\ Config[a].files => HasName(lists'[c].mounts, Config[a].name)
          /\ Range(lists'[c].envFrom) =
               Range(lists[c].envFrom) \cup (IF Config[a].files THEN {} ELSE {s})
          /\ Range(EnvBindings(a, s)) \subseteq Range(lists'[c].env)
      BY <1>1, <3>1, Zenon DEF Added
    <3> QED
      BY <1>3, <2>1, <2>2, <3>2, Zenon DEF Holds, HasName, Range
  <2> QED
    BY <1>3, <2>1, <2>2, <2>3, <2>4, Zenon DEF Projected, Range
<1>6. ASSUME NEW b \in Bindings, b # a, NEW s \in Secrets, Bind(b, s) PROVE Projected(a)'
  <2> DEFINE volume == [name |-> Config[b].name, secret |-> s]
  <2>1. /\ UNCHANGED scope /\ bound'[a] = bound[a]
        /\ volumes' = IF Config[b].files /\ Bindable(b) # {}
                      THEN Replace(volumes, volume) ELSE volumes
        /\ \A c \in Containers : IF c \in Bindable(b) THEN Added(b, s, lists[c], lists'[c])
                                 ELSE lists'[c] = lists[c]
    BY <1>6, BindStep, Zenon
  <2>2. volume.name = Config[b].name /\ Config[a].name # Config[b].name
    BY <1>2, <1>6, Zenon
  <2> HIDE DEF volume
  <2>3. \A x \in Range(volumes) : x.name = Config[a].name => x \in Range(volumes')
    <3>1. CASE Config[b].files /\ Bindable(b) # {}
      <4>1. volumes' = Replace(volumes, volume)
        BY <2>1, <3>1, Zenon
      <4> QED
        BY <1>1, <2>2, <4>1, Replaced, SMTT(20)
    <3>2. CASE ~(Config[b].files /\ Bindable(b) # {})
      BY <2>1, <3>2, Zenon
    <3> QED
      BY <3>1, <3>2, Zenon
  <2>4. ASSUME NEW c \in Containers
        PROVE  /\ HasName(lists[c].mounts, Config[a].name)
                    => HasName(lists'[c].mounts, Config[a].name)
               /\ Range(lists[c].envFrom) \subseteq Range(lists'[c].envFrom)
               /\ \A v \in Range(lists[c].env) : Mine(v.name) => v \in Range(lists'[c].env)
    <3>1. CASE c \notin Bindable(b)
      BY <2>1, <3>1, Zenon
    <3>2. CASE c \in Bindable(b)
      <4>1. Added(b, s, lists[c], lists'[c])
        BY <2>1, <3>2, Zenon
      <4>2. /\ \A x \in Range(lists[c].mounts) :
                 x.name # Config[b].name => x \in Range(lists'[c].mounts)
            /\ Range(lists'[c].envFrom) =
                 Range(lists[c].envFrom) \cup (IF Config[b].files THEN {} ELSE {s})
            /\ \A x \in Range(lists[c].env) :
                 ~HasName(EnvBindings(b, s), x.name) => x \in Range(lists'[c].env)
        BY <1>1, <4>1, Zenon DEF Added
      <4>3. \A n : HasName(EnvBindings(b, s), n) => ~Mine(n)
        BY <1>1, <1>4, <1>6, VarsOf
      <4>4. HasName(lists[c].mounts, Config[a].name) => HasName(lists'[c].mounts, Config[a].name)
        BY <2>2, <4>2, NameIn, Zenon
      <4> QED
        BY <4>2, <4>3, <4>4, Zenon
    <3> QED
      BY <3>1, <3>2, Zenon
  <2> QED
    BY <2>1, <2>3, <2>4, ProjectedKept, Zenon DEF Mine
<1>7. ASSUME Unbind(a) PROVE Projected(a)'
  BY <1>7, UnbindStep, Zenon DEF Projected
<1>8. ASSUME NEW b \in Bindings, b # a, Unbind(b) PROVE Projected(a)'
  <2>1. /\ UNCHANGED scope /\ bound'[a] = bound[a] /\ bound[b] \in Config[b].secrets
        /\ volumes' = RemoveNamed(volumes, Config[b].name)
        /\ \A c \in Containers : IF c \in Bindable(b)
                                 THEN Taken(b, bound[b], lists[c], lists'[c])
                                 ELSE lists'[c] = lists[c]
    BY <1>8, UnbindStep, Zenon
  <2>2. /\ Config[a].name # Config[b].name /\ (bound[a] \in Private(a) => bound[a] # bound[b])
        /\ \A n \in Range(Keys(b)) : ~Mine(n)
    BY <1>1, <1>2, <1>3, <1>4, <1>8, <2>1, VarsOf, SMTT(20)
  <2>3. \A x \in Range(volumes) : x.name = Config[a].name => x \in Range(volumes')
    BY <1>1, <2>1, <2>2, NamedRemoved, Zenon
  <2>4. ASSUME NEW c \in Containers
        PROVE  /\ HasName(lists[c].mounts, Config[a].name)
                    => HasName(lists'[c].mounts, Config[a].name)
               /\ bound[a] \in Private(a) \cap Range(lists[c].envFrom)
                    => bound[a] \in Range(lists'[c].envFrom)
               /\ \A v \in Range(lists[c].env) : Mine(v.name) => v \in Range(lists'[c].env)
    <3>1. CASE c \notin Bindable(b)
      BY <2>1, <3>1, Zenon
    <3>2. CASE c \in Bindable(b)
      <4>1. Taken(b, bound[b], lists[c], lists'[c])
        BY <2>1, <3>2, Zenon
      <4>2. /\ \A x \in Range(lists[c].mounts) :
                 x.name # Config[b].name => x \in Range(lists'[c].mounts)
            /\ \A x \in Range(lists[c].envFrom) : x # bound[b] => x \in Range(lists'[c].envFrom)
            /\ \A x \in Range(lists[c].env) :
                 x.name \notin Range(Keys(b)) => x \in Range(lists'[c].env)
        BY <1>1, <4>1, Zenon DEF Taken
      <4>3. HasName(lists[c].mounts, Config[a].name) => HasName(lists'[c].mounts, Config[a].name)
        BY <2>2, <4>2, NameIn, Zenon
      <4> QED
        BY <2>2, <4>2, <4>3, Zenon
    <3> QED
      BY <3>1, <3>2, Zenon
  <2> QED
    BY <2>1, <2>3, <2>4, ProjectedKept, Zenon DEF Mine
<1>9. ASSUME NEW c \in Containers, NEW n \in {OwnVar, BindingRoot}, NEW w, EditVar(c, n, w)
      PROVE  Projected(a)'
  <2>1. /\ UNCHANGED <<volumes, scope, bound>>
        /\ \A x \in Containers :
             /\ lists'[x].mounts = lists[x].mounts /\ lists'[x].envFrom = lists[x].envFrom
             /\ \A v \in Range(lists[x].env) : v.name # n => v \in Range(lists'[x].env)
    BY <1>9, EditVarEffect, Zenon
  <2>2. ~Mine(n)
    BY <1>4, Zenon
  <2> QED
    BY <2>1, <2>2, ProjectedKept, Zenon DEF Mine
<1>10. ASSUME NEW c \in Containers, NEW s, EditSource(c, s) PROVE Projected(a)'
  <2>1. /\ UNCHANGED <<volumes, scope, bound>> /\ s \in Sources
        /\ \A x \in Containers :
             /\ lists'[x].mounts = lists[x].mounts /\ lists'[x].env = lists[x].env
             /\ \A v \in Range(lists[x].envFrom) : v # s => v \in Range(lists'[x].envFrom)
    BY <1>10, EditSourceEffect, Zenon
  <2> QED
    BY <1>2, <2>1, ProjectedKept, Zenon
<1>11. ASSUME NEW c \in Containers, EditVolume(c) PROVE Projected(a)'
  <2>1. /\ UNCHANGED <<scope, bound>> /\ Alike(volumes, volumes', OwnVolume)
        /\ \A x \in Containers :
             /\ lists'[x].env = lists[x].env /\ lists'[x].envFrom = lists[x].envFrom
             /\ Alike(lists[x].mounts, lists'[x].mounts, OwnVolume)
    BY <1>11, EditVolumeEffect, Zenon
  <2>2. \A x \in Range(volumes) : x.name = Config[a].name => x \in Range(volumes')
    BY <2>1, Zenon DEF Alike
  <2>3. \A x \in Containers :
          HasName(lists[x].mounts, Config[a].name) => HasName(lists'[x].mounts, Config[a].name)
    BY <2>1, NameIn, Zenon DEF Alike
  <2> QED
    BY <2>1, <2>2, <2>3, ProjectedKept, Zenon
<1>12. ASSUME NEW b \in Bindings, NEW cs \in SUBSET Names, Rescope(b, cs) PROVE Projected(a)'
  <2>1. /\ UNCHANGED <<volumes, lists, bound>> /\ (bound[b] # NoSecret => b \in Rescoped)
        /\ \A d \in Bindings : d # b => scope'[d] = scope[d]
    BY <1>12, RescopeStep, Zenon
  <2>2. CASE a # b
    BY <2>1, <2>2, ProjectedKept, Zenon
  <2>3. CASE a = b
    BY <2>1, <2>3, Zenon DEF Projected
  <2> QED
    BY <2>2, <2>3, Zenon
<1> QED
  BY <1>5, <1>6, <1>7, <1>8, <1>9, <1>10, <1>11, <1>12, Zenon DEF Next, Operator

LEMMA ShapesStep ==
  ASSUME Shapes, [Next]_vars
  PROVE  Shapes'
<1>1. CASE UNCHANGED vars
  BY <1>1, Zenon DEF vars, Shapes, Config, Listed
<1>2. CASE Next
  BY Zenon, <1>2, BindStep, UnbindStep, EditVarEffect, EditSourceEffect, EditVolumeEffect,
     RescopeStep,
     Zenon
     DEF Next, Operator
<1> QED
  BY <1>1, <1>2, Zenon

\* A binding whose secret is in its status is in every container it is for,
\* with that secret and all its variables, whatever other bindings and the
\* owner of the workload did after it; as variables, if nobody else refers to
\* that secret.
THEOREM ProjectedEverywhere ==
  ASSUME OwnNames, SeparateVars
  PROVE  Spec => []BoundEverywhere
<1> DEFINE Inv == Shapes /\ \A a \in Bindings : a \notin Rescoped => Projected(a)
<1>1. Init => Inv
  BY InitShapes, Zenon DEF Init, Projected
<1>2. Inv /\ [Next]_vars => Inv'
  <2> SUFFICES ASSUME Inv, [Next]_vars PROVE Inv'
    BY Zenon
  <2>1. Shapes'
    BY ShapesStep, Zenon
  <2>2. CASE UNCHANGED vars
    <3>1. UNCHANGED <<setup, volumes, lists, scope, bound>> /\ Rescoped' = Rescoped
      BY <2>2, Zenon DEF vars, Rescoped
    <3>2. ASSUME NEW a \in Bindings, a \notin Rescoped PROVE Projected(a)'
      BY <3>1, <3>2, ProjectedKept, Zenon
    <3> QED
      BY <2>1, <3>1, <3>2, Zenon
  <2>3. CASE Next
    <3>1. UNCHANGED setup
      BY <2>3, Zenon DEF Next
    <3>2. Rescoped' = Rescoped
      BY <3>1, Zenon DEF Rescoped
    <3>3. ASSUME NEW a \in Bindings, a \notin Rescoped PROVE Projected(a)'
      <4>1. Projected(a) /\ Config[a].name # OwnVolume
        BY <3>3, Zenon DEF OwnNames, Shapes, Config
      <4> QED
        BY <2>3, <3>1, <3>3, <4>1, ProjectedStep, Zenon
    <3> QED
      BY <2>1, <3>2, <3>3, Zenon
  <2> QED
    BY <2>2, <2>3, Zenon
<1>3. Inv => BoundEverywhere
  BY Zenon DEF BoundEverywhere, ProjectedInto, Projected, Safe, Holds
<1> QED
  BY <1>1, <1>2, <1>3, PTL DEF Spec

(***************************************************************************)
(* Projecting again changes nothing                                        *)
(***************************************************************************)

\* The spec of a binding that is projected both as files and into a field at
\* secretPath is not edited while it is bound.
PathsFixed ==
  \A u \in Setups, b \in Bindings :
    u.config[b].files /\ u.config[b].secretPath => b \notin u.rescoped

LEMMA VolumeStep ==
  ASSUME OwnNames, Shapes, VolumeCurrent, [Next]_vars
  PROVE  VolumeCurrent'
<1> DEFINE Volume(a, s) == [name |-> Config[a].name, secret |-> s]
           Due(a) == /\ Config[a].files /\ bound[a] # NoSecret
                     /\ Config[a].secretPath => a \notin Rescoped /\ Bindable(a) # {}
<1>1. setup \in Setups /\ Listed(volumes)
  BY ShapesOf, Zenon
<1>2. setup' = setup
  BY Zenon DEF Next, vars
<1>3. Config' = Config /\ Rescoped' = Rescoped
  BY <1>2, Zenon DEF Config, Rescoped
<1>4. \A a \in Bindings : Config[a].name # OwnVolume
  BY <1>1, Zenon DEF OwnNames, Config
<1>5. SUFFICES ASSUME NEW a \in Bindings, Due(a)'
               PROVE  Volume(a, bound'[a]) \in Range(volumes')
  BY <1>3, Zenon DEF VolumeCurrent, Range
<1>6. Due(a) => Volume(a, bound[a]) \in Range(volumes)
  BY Zenon DEF VolumeCurrent
<1>7. \A s : Volume(a, s).name = Config[a].name
  BY Zenon
<1>8. ASSUME Due(a), bound'[a] = bound[a],
             \A x \in Range(volumes) : x.name = Config[a].name => x \in Range(volumes')
      PROVE  Volume(a, bound'[a]) \in Range(volumes')
  BY <1>6, <1>7, <1>8, Zenon
<1>9. scope'[a] = scope[a] => Bindable(a)' = Bindable(a)
  BY Zenon DEF Bindable
<1>10. scope'[a] = scope[a] /\ bound'[a] = bound[a] => Due(a)
  BY <1>3, <1>5, <1>9, Zenon
<1>11. ASSUME NEW s \in Secrets, Bind(a, s) PROVE Volume(a, bound'[a]) \in Range(volumes')
  <2>1. /\ UNCHANGED scope /\ bound'[a] = s /\ (Bindable(a) = {} => Config[a].secretPath)
        /\ volumes' = IF Config[a].files /\ Bindable(a) # {}
                      THEN Replace(volumes, Volume(a, s)) ELSE volumes
    BY <1>2, <1>11, BindStep, Zenon
  <2>2. Config[a].files /\ Bindable(a) # {}
    BY <1>3, <1>5, <1>9, <2>1, Zenon
  <2> HIDE DEF Volume
  <2> QED
    BY <1>1, <2>1, <2>2, Replaced, Zenon
<1>12. ASSUME NEW b \in Bindings, b # a, NEW s \in Secrets, Bind(b, s)
       PROVE  Volume(a, bound'[a]) \in Range(volumes')
  <2>1. /\ UNCHANGED scope /\ bound'[a] = bound[a]
        /\ volumes' = IF Config[b].files /\ Bindable(b) # {}
                      THEN Replace(volumes, Volume(b, s)) ELSE volumes
    BY <1>2, <1>12, BindStep, Zenon
  <2>2. Volume(b, s).name # Config[a].name
    BY <1>1, <1>12, Apart, Zenon
  <2> HIDE DEF Volume
  <2>3. \A x \in Range(volumes) : x.name = Config[a].name => x \in Range(volumes')
    BY <1>1, <2>1, <2>2, Replaced, Zenon
  <2> QED
    BY <1>8, <1>10, <2>1, <2>3, Zenon
<1>13. ASSUME NEW b \in Bindings, Unbind(b) PROVE Volume(a, bound'[a]) \in Range(volumes')
  <2>1. /\ UNCHANGED scope /\ volumes' = RemoveNamed(volumes, Config[b].name)
        /\ bound'[b] = NoSecret /\ (a # b => bound'[a] = bound[a])
    BY <1>2, <1>13, UnbindStep, Zenon
  <2>2. a # b
    BY <1>5, <2>1, Zenon
  <2>3. \A x \in Range(volumes) : x.name = Config[a].name => x \in Range(volumes')
    BY <1>1, <2>1, <2>2, NamedRemoved, Apart, Zenon
  <2> QED
    BY <1>8, <1>10, <2>1, <2>2, <2>3, Zenon
<1>14. ASSUME NEW c \in Containers, EditVolume(c)
       PROVE  Volume(a, bound'[a]) \in Range(volumes')
  <2>1. UNCHANGED <<scope, bound>> /\ Alike(volumes, volumes', OwnVolume)
    BY <1>2, <1>14, EditVolumeEffect, Zenon
  <2> QED
    BY <1>4, <1>8, <1>10, <2>1, Zenon DEF Alike
<1>15. ASSUME UNCHANGED <<volumes, scope, bound>>
       PROVE  Volume(a, bound'[a]) \in Range(volumes')
  BY <1>8, <1>10, <1>15, Zenon
<1>16. ASSUME NEW b \in Bindings, NEW cs \in SUBSET Names, Rescope(b, cs)
       PROVE  Volume(a, bound'[a]) \in Range(volumes')
  <2>1. /\ UNCHANGED <<volumes, bound>> /\ (bound[b] # NoSecret => b \in Rescoped)
        /\ a # b => scope'[a] = scope[a]
    BY <1>2, <1>16, RescopeStep, Zenon
  <2>2. Due(a)
    BY <1>3, <1>5, <1>10, <2>1, Zenon
  <2> QED
    BY <1>8, <2>1, <2>2, Zenon
<1> HIDE DEF Volume, Due
<1>17. CASE UNCHANGED vars
  BY <1>15, <1>17, Zenon DEF vars
<1>18. CASE Next
  <2>1. \A c \in Containers : \A n, w : EditVar(c, n, w) => UNCHANGED <<volumes, scope, bound>>
    BY Zenon DEF EditVar
  <2>2. \A c \in Containers : \A s : EditSource(c, s) => UNCHANGED <<volumes, scope, bound>>
    BY Zenon DEF EditSource
  <2> QED
    BY <1>11, <1>12, <1>13, <1>14, <1>15, <1>16, <1>18, <2>1, <2>2, Zenon DEF Next, Operator
<1> QED
  BY <1>17, <1>18, Zenon

\* Binding a container again, where it already has the mount, leaves it alone.
LEMMA BoundAgain ==
  ASSUME setup \in Setups, NEW b \in Bindings, NEW s, NEW l, Three(l), Single(l),
         Config[b].files, Config[b].env = <<>>, HasRoot(l.env),
         [name |-> Config[b].name, root |-> RootOf(l.env)] \in Range(l.mounts)
  PROVE  After(b, s, l) = l
<1> DEFINE mount == [name |-> Config[b].name, root |-> RootOf(l.env)]
<1>1. Listed(l.env) /\ Listed(l.mounts) /\ Distinct(l.mounts)
  BY Zenon DEF Three, Single
<1>2. AddEnvVars(l.env, EnvBindings(b, s)) = l.env
  BY <1>1, VarsOf, VarsAdded, Zenon
<1>3. WithRoot(l.env) = l.env
  BY Zenon DEF WithRoot
<1> HIDE DEF mount
<1>4. Replace(l.mounts, mount) = l.mounts
  BY <1>1, Replaced DEF mount
<1>5. After(b, s, l) = [env |-> l.env, envFrom |-> l.envFrom, mounts |-> l.mounts]
  BY <1>2, <1>3, <1>4, AfterFields DEF mount
<1> QED
  BY <1>5, Zenon DEF Three

\* The periodic reprocessing of a ready binding does not touch the workload:
\* AddVolume, AddVolumeMount and MountPath give back the lists that they read.
THEOREM ReprojectionChangesNothing ==
  ASSUME OwnNames, DistinctVars, PathsFixed
  PROVE  Spec => ReprojectionIdle
<1> DEFINE Inv == Shapes /\ NoDuplicates /\ OwnMounts /\ VolumeCurrent
           Idle == \A b \in Bindings :
             /\ Config[b].files /\ Config[b].env = <<>>
             /\ \A c \in Bindable(b) :
                  HasRoot(lists[c].env) /\ [name |-> Config[b].name,
                    root |-> RootOf(lists[c].env)] \in Range(lists[c].mounts)
             /\ Bind(b, bound[b])
             => UNCHANGED <<volumes, lists>>
<1>1. Init => Inv
  BY InitShapes, Zenon DEF Init, VolumeCurrent
<1>2. Inv /\ [Next]_vars => Inv'
  BY SingleStep, VolumeStep, Zenon
<1>3. Inv /\ [Next]_vars => [Idle]_vars
  <2> SUFFICES ASSUME Inv, Next, NEW b \in Bindings,
                      Config[b].files, Config[b].env = <<>>,
                      \A c \in Bindable(b) :
                        HasRoot(lists[c].env) /\ [name |-> Config[b].name,
                          root |-> RootOf(lists[c].env)] \in Range(lists[c].mounts),
                      Bind(b, bound[b])
               PROVE  UNCHANGED <<volumes, lists>>
    BY Zenon
  <2> DEFINE volume == [name |-> Config[b].name, secret |-> bound[b]]
  <2>1. /\ setup \in Setups /\ Listed(volumes) /\ Distinct(volumes)
        /\ lists = [c \in Containers |-> lists[c]]
        /\ \A c \in Containers : Three(lists[c]) /\ Single(lists[c])
    BY ShapesOf, Zenon DEF NoDuplicates, Single, Shapes
  <2>2. UNCHANGED setup
    BY Zenon DEF Next
  <2>3. /\ bound[b] \in Config[b].secrets
        /\ volumes' = IF Config[b].files /\ Bindable(b) # {}
                      THEN Replace(volumes, volume) ELSE volumes
        /\ lists' = [c \in Containers |-> lists'[c]]
        /\ \A c \in Containers :
             lists'[c] = IF c \in Bindable(b) THEN After(b, bound[b], lists[c]) ELSE lists[c]
    BY <2>2, BindStep, Zenon
  <2>4. bound[b] # NoSecret /\ (Config[b].secretPath => b \notin Rescoped)
    BY <2>1, <2>3, Apart, Zenon DEF PathsFixed, Config, Rescoped
  <2>5. Bindable(b) # {} => volume \in Range(volumes)
    BY <2>4, Zenon DEF VolumeCurrent
  <2> HIDE DEF volume
  <2>6. volumes' = volumes
    BY <2>1, <2>3, <2>5, Replaced, Zenon
  <2>7. \A c \in Containers : lists'[c] = lists[c]
    BY <2>1, <2>3, BoundAgain, Zenon
  <2>8. lists' = lists
    BY <2>1, <2>3, <2>7, Zenon
  <2> QED
    BY <2>6, <2>8, Zenon
<1> QED
  BY <1>1, <1>2, <1>3, PTL DEF Spec, ReprojectionIdle

(***************************************************************************)
(* Binding and unbinding leave the others alone                            *)
(***************************************************************************)

LEMMA Climbs ==
  ASSUME NEW n \in Nat, NEW T, T \subseteq 0..n, 0 \in T,
         \A k \in 1..n : (k - 1) \in T => k \in T
  PROVE  T = 0..n
<1> DEFINE F == (0..n) \ T
<1> SUFFICES ASSUME F # {} PROVE FALSE
  BY Zenon
<1>1. PICK k \in F : \A m \in F : k =< m
  <2>1. F \subseteq Nat
    OBVIOUS
  <2> HIDE DEF F
  <2> QED
    BY <2>1, Least, Zenon
<1>2. k \in 1..n /\ (k - 1) \in 0..n /\ k \notin T
  BY <1>1
<1>3. (k - 1) \notin F
  BY <1>1, <1>2
<1> QED
  BY <1>2, <1>3, Zenon

\* f is the loop of Without over the first n entries of s.
Drops(s, D, n, f) ==
  /\ f[0] = <<>>
  /\ \A k \in 1..n : f[k] = IF s[k] \in D THEN f[k - 1] ELSE Append(f[k - 1], s[k])

LEMMA WithoutDrops ==
  ASSUME NEW s, Listed(s), NEW D
  PROVE  \E f : Drops(s, D, Len(s), f) /\ Without(s, D) = f[Len(s)]
<1> DEFINE Step(k, x) == IF s[k] \in D THEN x ELSE Append(x, s[k])
           Rounds(f, m) == f = [k \in 0..m |-> IF k = 0 THEN <<>> ELSE Step(k, f[k - 1])]
           Rest == CHOOSE f : Rounds(f, Len(s))
           T(n) == {m \in 0..n : \E f : Rounds(f, m)}
<1>1. Len(s) \in Nat
  BY DEF Listed
<1>2. Without(s, D) = Rest[Len(s)]
  BY Zenon DEF Without
<1>3. \A f, m : Rounds(f, m) <=>
        f = [k \in 0..m |-> IF k = 0 THEN <<>> ELSE Step(k, f[k - 1])]
  BY Zenon
<1> HIDE DEF Step
<1>4. ASSUME NEW m \in 1..Len(s), NEW f, Rounds(f, m - 1) PROVE \E g : Rounds(g, m)
  <2> DEFINE g == [k \in 0..m |-> IF k = m THEN Step(m, f[m - 1]) ELSE f[k]]
  <2>1. m \in Nat /\ (m - 1) \in 0..m /\ m # 0 /\ m - 1 # m
    BY <1>1
  <2>2. g[m] = Step(m, f[m - 1]) /\ \A k \in 0..(m - 1) : g[k] = f[k]
    BY <2>1
  <2>3. \A k \in 0..(m - 1) : f[k] = IF k = 0 THEN <<>> ELSE Step(k, f[k - 1])
    BY <1>4, Zenon
  <2>4. g = [k \in 0..m |-> g[k]]
    BY Zenon
  <2> HIDE DEF g
  <2>5. ASSUME NEW k \in 0..m PROVE g[k] = IF k = 0 THEN <<>> ELSE Step(k, g[k - 1])
    <3>1. CASE k = m
      <4>1. g[m - 1] = f[m - 1]
        BY <2>1, <2>2
      <4> QED
        BY <2>1, <2>2, <3>1, <4>1, Zenon
    <3>2. CASE k # m
      <4>1. k \in 0..(m - 1) /\ (k # 0 => (k - 1) \in 0..(m - 1))
        BY <2>1, <3>2
      <4> QED
        BY <2>2, <2>3, <4>1, Zenon
    <3> QED
      BY <3>1, <3>2, Zenon
  <2>6. Rounds(g, m)
    BY <2>4, <2>5, Zenon
  <2> QED
    BY <2>6, Zenon
<1>5. Rounds([k \in 0..0 |-> <<>>], 0)
  OBVIOUS
<1> HIDE DEF Rounds
<1>6. T(Len(s)) = 0..Len(s)
  <2> DEFINE U == T(Len(s))
  <2>1. U \subseteq 0..Len(s) /\ 0 \in U
    BY <1>1, <1>5
  <2>2. ASSUME NEW k \in 1..Len(s), (k - 1) \in U PROVE k \in U
    <3>1. k \in 0..Len(s)
      BY <1>1
    <3>2. PICK f : Rounds(f, k - 1)
      BY <2>2, Zenon
    <3> QED
      BY <1>4, <3>1, <3>2, Zenon
  <2> HIDE DEF U
  <2>3. U = 0..Len(s)
    BY <1>1, <2>1, <2>2, Climbs, Zenon
  <2> QED
    BY <2>3, Zenon DEF U
<1>7. Len(s) \in 0..Len(s)
  BY <1>1
<1>8. \E f : Rounds(f, Len(s))
  BY <1>6, <1>7, Zenon
<1>9. Rounds(Rest, Len(s))
  BY <1>8, Zenon
<1>10. \A k \in 0..Len(s) : Rest[k] = IF k = 0 THEN <<>> ELSE Step(k, Rest[k - 1])
  BY <1>3, <1>9, Zenon
<1> HIDE DEF Rest
<1>11. Drops(s, D, Len(s), Rest)
  <2>1. 0 \in 0..Len(s) /\ \A k \in 1..Len(s) : k \in 0..Len(s) /\ k # 0
    BY <1>1
  <2> QED
    BY <1>10, <2>1, Zenon DEF Drops, Step
<1> QED
  BY <1>2, <1>11, Zenon

\* Two lists whose loops do the same, entry by entry.
LEMMA SameDrops ==
  ASSUME NEW n \in Nat, NEW s, NEW D, NEW f, Drops(s, D, n, f),
         NEW t, NEW E, NEW g, Drops(t, E, n, g),
         \A k \in 1..n : \/ s[k] \in D /\ t[k] \in E
                         \/ s[k] \notin D /\ t[k] \notin E /\ s[k] = t[k]
  PROVE  \A k \in 0..n : f[k] = g[k]
<1> DEFINE T == {k \in 0..n : f[k] = g[k]}
<1>1. T \subseteq 0..n /\ 0 \in T
  BY DEF Drops
<1>2. ASSUME NEW k \in 1..n, (k - 1) \in T PROVE k \in T
  <2>1. k \in 0..n /\ f[k - 1] = g[k - 1]
    BY <1>2
  <2>2. f[k] = g[k]
    BY <2>1, Zenon DEF Drops
  <2> QED
    BY <2>1, <2>2, Zenon
<1> HIDE DEF T
<1>3. T = 0..n
  BY <1>1, <1>2, Climbs, Zenon
<1> QED
  BY <1>3, Zenon DEF T

\* t goes on where s ends, with nothing that is kept.
LEMMA WithoutLonger ==
  ASSUME NEW s, Listed(s), NEW D, NEW t, Listed(t), NEW E, Len(s) =< Len(t),
         \A k \in 1..Len(s) : \/ s[k] \in D /\ t[k] \in E
                              \/ s[k] \notin D /\ t[k] \notin E /\ s[k] = t[k],
         \A k \in 1..Len(t) : k > Len(s) => t[k] \in E
  PROVE  Without(t, E) = Without(s, D)
<1>1. Len(s) \in Nat /\ Len(t) \in Nat
  BY DEF Listed
<1>2. PICK f : Drops(s, D, Len(s), f) /\ Without(s, D) = f[Len(s)]
  BY WithoutDrops, Zenon
<1>3. PICK g : Drops(t, E, Len(t), g) /\ Without(t, E) = g[Len(t)]
  BY WithoutDrops, Zenon
<1>4. Drops(t, E, Len(s), g)
  <2>1. \A k \in 1..Len(s) : k \in 1..Len(t)
    BY <1>1
  <2> QED
    BY <1>3, <2>1, Zenon DEF Drops
<1>5. f[Len(s)] = g[Len(s)]
  <2>1. \A k \in 0..Len(s) : f[k] = g[k]
    BY <1>1, <1>2, <1>4, SameDrops
  <2> QED
    BY <1>1, <2>1
<1> DEFINE n == Len(t) - Len(s)
           T == {k \in 0..n : g[Len(s) + k] = g[Len(s)]}
<1>6. n \in Nat /\ T \subseteq 0..n /\ 0 \in T
  BY <1>1
<1>7. ASSUME NEW k \in 1..n, (k - 1) \in T PROVE k \in T
  <2>1. /\ k \in 0..n /\ Len(s) + k \in 1..Len(t) /\ Len(s) + k > Len(s)
        /\ (Len(s) + k) - 1 = Len(s) + (k - 1)
    BY <1>1
  <2>2. g[Len(s) + k] = g[(Len(s) + k) - 1]
    BY <1>3, <2>1, Zenon DEF Drops
  <2>3. g[Len(s) + (k - 1)] = g[Len(s)]
    BY <1>7, Zenon
  <2>4. g[Len(s) + k] = g[Len(s)]
    BY <2>1, <2>2, <2>3, Zenon
  <2> QED
    BY <2>1, <2>4, Zenon
<1>8. \A k \in T : g[Len(s) + k] = g[Len(s)]
  BY Zenon
<1>9. n \in 0..n /\ Len(s) + n = Len(t)
  BY <1>1
<1> HIDE DEF n, T
<1>10. T = 0..n
  BY <1>6, <1>7, Climbs, Zenon
<1>11. g[Len(s) + n] = g[Len(s)]
  BY <1>8, <1>9, <1>10, Zenon
<1> QED
  BY <1>2, <1>3, <1>5, <1>9, <1>11, Zenon

\* What counts of D are the entries of s.
LEMMA WithoutSame ==
  ASSUME NEW s, Listed(s), NEW D, NEW E, \A x \in Range(s) : x \in D <=> x \in E
  PROVE  Without(s, E) = Without(s, D)
<1>1. Len(s) \in Nat /\ \A k \in 1..Len(s) : s[k] \in Range(s)
  BY DEF Listed, Range
<1>2. /\ Len(s) =< Len(s) /\ \A k \in 1..Len(s) : k > Len(s) => s[k] \in E
      /\ \A k \in 1..Len(s) : \/ s[k] \in D /\ s[k] \in E
                              \/ s[k] \notin D /\ s[k] \notin E /\ s[k] = s[k]
  BY <1>1
<1> QED
  BY <1>2, WithoutLonger

LEMMA WithoutRemoved ==
  ASSUME NEW s, Listed(s), NEW D, NEW i \in 1..Len(s), s[i] \in D
  PROVE  Without(RemoveAt(s, i), D) = Without(s, D)
<1> DEFINE t == RemoveAt(s, i)
           n == Len(s) - 1
<1>1. Len(s) \in Nat /\ n \in Nat /\ i \in Nat
  BY DEF Listed
<1>2. /\ t \in Seq(Range(s)) /\ Len(t) = n
      /\ \A k \in 1..n : t[k] = IF k < i THEN s[k] ELSE s[k + 1]
  BY RemovedAt, Zenon DEF Listed
<1>3. Listed(t)
  BY <1>2, ListedIn, Zenon
<1> HIDE DEF t
<1>4. PICK f : Drops(s, D, Len(s), f) /\ Without(s, D) = f[Len(s)]
  BY WithoutDrops, Zenon
<1>5. PICK g : Drops(t, D, n, g) /\ Without(t, D) = g[n]
  BY <1>2, <1>3, WithoutDrops, Zenon
<1> DEFINE T == {k \in 0..n : g[k] = IF k < i THEN f[k] ELSE f[k + 1]}
<1>6. f[i] = f[i - 1]
  BY <1>4, Zenon DEF Drops
<1>7. T \subseteq 0..n /\ 0 \in T
  BY <1>1, <1>4, <1>5 DEF Drops
<1>8. ASSUME NEW k \in 1..n, (k - 1) \in T PROVE k \in T
  <2>1. /\ k \in 1..Len(s) /\ k + 1 \in 1..Len(s) /\ (k + 1) - 1 = k /\ (k - 1) + 1 = k
        /\ k \in 0..n
    BY <1>1
  <2>2. g[k] = IF t[k] \in D THEN g[k - 1] ELSE Append(g[k - 1], t[k])
    BY <1>5, Zenon DEF Drops
  <2>3. /\ f[k] = IF s[k] \in D THEN f[k - 1] ELSE Append(f[k - 1], s[k])
        /\ f[k + 1] = IF s[k + 1] \in D THEN f[k] ELSE Append(f[k], s[k + 1])
    <3>1. f[k + 1] = IF s[k + 1] \in D THEN f[(k + 1) - 1] ELSE Append(f[(k + 1) - 1], s[k + 1])
      BY <1>4, <2>1, Zenon DEF Drops
    <3>2. f[k] = IF s[k] \in D THEN f[k - 1] ELSE Append(f[k - 1], s[k])
      BY <1>4, <2>1, Zenon DEF Drops
    <3> QED
      BY <2>1, <3>1, <3>2, Zenon
  <2>4. g[k - 1] = IF k - 1 < i THEN f[k - 1] ELSE f[k]
    BY <1>8, <2>1, Zenon
  <2>5. CASE k < i
    <3>1. k - 1 < i /\ t[k] = s[k]
      BY <1>1, <1>2, <2>5
    <3>2. g[k] = f[k]
      BY <2>2, <2>3, <2>4, <3>1, Zenon
    <3> QED
      BY <2>1, <2>5, <3>2, Zenon
  <2>6. CASE ~(k < i)
    <3>1. t[k] = s[k + 1] /\ (k - 1 < i => k = i)
      BY <1>1, <1>2, <2>6
    <3>2. g[k - 1] = f[k]
      BY <1>6, <2>4, <3>1, Zenon
    <3>3. g[k] = f[k + 1]
      BY <2>2, <2>3, <3>1, <3>2, Zenon
    <3> QED
      BY <2>1, <2>6, <3>3, Zenon
  <2> QED
    BY <2>5, <2>6, Zenon
<1>9. \A k \in T : g[k] = IF k < i THEN f[k] ELSE f[k + 1]
  BY Zenon
<1> HIDE DEF T
<1>10. T = 0..n
  BY <1>1, <1>7, <1>8, Climbs, Zenon
<1>11. n \in 0..n /\ n + 1 = Len(s) /\ (n < i => i = Len(s)) /\ Len(s) - 1 = n
  BY <1>1, SMTT(20)
<1>12. g[n] = IF n < i THEN f[n] ELSE f[n + 1]
  BY <1>9, <1>10, <1>11, Zenon
<1> HIDE DEF n
<1>13. g[n] = f[Len(s)]
  BY <1>6, <1>11, <1>12, Zenon
<1> QED
  BY <1>4, <1>5, <1>13, Zenon DEF t

LEMMA WithoutIn ==
  ASSUME NEW s, Listed(s), NEW D
  PROVE  Range(Without(s, D)) \subseteq Range(s)
<1>1. Len(s) \in Nat /\ \A k \in 1..Len(s) : s[k] \in Range(s)
  BY DEF Listed, Range
<1>2. PICK f : Drops(s, D, Len(s), f) /\ Without(s, D) = f[Len(s)]
  BY WithoutDrops, Zenon
<1> DEFINE Good(l) == Listed(l) /\ Range(l) \subseteq Range(s)
           T == {k \in 0..Len(s) : Good(f[k])}
<1>3. T \subseteq 0..Len(s) /\ 0 \in T
  <2>1. Good(<<>>)
    BY DEF Listed, Range
  <2> HIDE DEF Good
  <2>2. Good(f[0])
    BY <1>2, <2>1, Zenon DEF Drops
  <2> QED
    BY <1>1, <2>2
<1>4. ASSUME NEW k \in 1..Len(s), (k - 1) \in T PROVE k \in T
  <2>1. Good(f[k - 1]) /\ k \in 0..Len(s)
    BY <1>1, <1>4
  <2>2. f[k] = IF s[k] \in D THEN f[k - 1] ELSE Append(f[k - 1], s[k])
    BY <1>2, Zenon DEF Drops
  <2>3. Good(Append(f[k - 1], s[k]))
    BY <1>1, <2>1, Appended
  <2> HIDE DEF Good
  <2> QED
    BY <2>1, <2>2, <2>3, Zenon
<1>5. \A k \in T : Good(f[k])
  BY Zenon
<1> HIDE DEF T, Good
<1>6. T = 0..Len(s)
  BY <1>1, <1>3, <1>4, Climbs, Zenon
<1>7. Good(f[Len(s)])
  BY <1>1, <1>5, <1>6
<1> QED
  BY <1>2, <1>7, Zenon DEF Good

LEMMA WithoutAppended ==
  ASSUME NEW s, Listed(s), NEW D, NEW x, x \notin D
  PROVE  Without(Append(s, x), D) = Append(Without(s, D), x)
<1> DEFINE t == Append(s, x)
<1>1. /\ Len(s) \in Nat /\ Len(t) = Len(s) + 1 /\ t[Len(s) + 1] = x
      /\ \A k \in 1..Len(s) : t[k] = s[k]
  BY DEF Listed
<1>2. Listed(t)
  BY Appended, Zenon
<1> HIDE DEF t
<1>3. PICK f : Drops(s, D, Len(s), f) /\ Without(s, D) = f[Len(s)]
  BY WithoutDrops, Zenon
<1>4. PICK g : Drops(t, D, Len(t), g) /\ Without(t, D) = g[Len(t)]
  BY <1>2, WithoutDrops, Zenon
<1>5. Drops(t, D, Len(s), g)
  <2>1. \A k \in 1..Len(s) : k \in 1..Len(t)
    BY <1>1
  <2> QED
    BY <1>4, <2>1, Zenon DEF Drops
<1>6. f[Len(s)] = g[Len(s)]
  <2>1. \A k \in 0..Len(s) : f[k] = g[k]
    BY <1>1, <1>3, <1>5, SameDrops
  <2> QED
    BY <1>1, <2>1
<1>7. Len(t) \in 1..Len(t) /\ Len(t) - 1 = Len(s) /\ t[Len(t)] = x
  BY <1>1
<1>8. g[Len(t)] = IF t[Len(t)] \in D THEN g[Len(t) - 1] ELSE Append(g[Len(t) - 1], t[Len(t)])
  BY <1>4, <1>7, Zenon DEF Drops
<1>9. g[Len(t)] = Append(g[Len(s)], x)
  BY <1>7, <1>8, Zenon
<1> QED
  BY <1>3, <1>4, <1>6, <1>9, Zenon DEF t

LEMMA NamedWithout ==
  ASSUME NEW s, Listed(s), NEW n, NEW D, \A x \in Range(s) : x.name = n => x \in D
  PROVE  Without(RemoveNamed(s, n), D) = Without(s, D)
<1>1. CASE ~HasName(s, n)
  BY <1>1, RemovedNamed, Zenon DEF Listed
<1>2. CASE HasName(s, n)
  <2>1. PICK i \in 1..Len(s) : s[i].name = n /\ RemoveNamed(s, n) = RemoveAt(s, i)
    BY <1>2, RemovedNamed, Zenon DEF Listed
  <2>2. s[i] \in Range(s)
    BY DEF Listed, Range
  <2> QED
    BY <2>1, <2>2, WithoutRemoved, Zenon
<1> QED
  BY <1>1, <1>2, Zenon

LEMMA SourceWithout ==
  ASSUME NEW s, Listed(s), NEW e, NEW D, e \in D
  PROVE  Without(RemoveSource(s, e), D) = Without(s, D)
<1>1. CASE e \notin Range(s)
  BY <1>1, RemovedSource, Zenon
<1>2. CASE e \in Range(s)
  <2>1. PICK i \in 1..Len(s) : s[i] = e /\ RemoveSource(s, e) = RemoveAt(s, i)
    BY <1>2, RemovedSource, Zenon
  <2> QED
    BY <2>1, WithoutRemoved, Zenon
<1> QED
  BY <1>1, <1>2, Zenon

LEMMA EachWithout ==
  ASSUME NEW s, Listed(s), NEW names, Listed(names), NEW D,
         \A x \in Range(s) : x.name \in Range(names) => x \in D
  PROVE  Without(RemoveEach(s, names), D) = Without(s, D)
<1>1. Len(names) \in Nat /\ \A k \in 1..Len(names) : names[k] \in Range(names)
  BY DEF Listed, Range
<1>2. PICK f : /\ f[0] = s /\ RemoveEach(s, names) = f[Len(names)]
               /\ \A k \in 1..Len(names) : f[k] = RemoveNamed(f[k - 1], names[k])
  BY EachRounds
<1> DEFINE Good(l) == /\ Listed(l) /\ Range(l) \subseteq Range(s)
                      /\ Without(l, D) = Without(s, D)
           T == {k \in 0..Len(names) : Good(f[k])}
<1>3. T \subseteq 0..Len(names) /\ 0 \in T
  BY <1>1, <1>2
<1>4. ASSUME NEW k \in 1..Len(names), (k - 1) \in T PROVE k \in T
  <2> DEFINE l == f[k - 1]
  <2>1. Good(l) /\ k \in 0..Len(names)
    BY <1>1, <1>4
  <2>2. f[k] = RemoveNamed(l, names[k])
    BY <1>2, Zenon
  <2> HIDE DEF l
  <2>3. Listed(f[k]) /\ Range(f[k]) \subseteq Range(s)
    BY <2>1, <2>2, NamedRemoved, Zenon
  <2>4. \A x \in Range(l) : x.name = names[k] => x \in D
    BY <1>1, <2>1, Zenon
  <2>5. Without(f[k], D) = Without(l, D)
    BY <2>1, <2>2, <2>4, NamedWithout
  <2>6. Good(f[k])
    BY <2>1, <2>3, <2>5, Zenon
  <2> HIDE DEF Good
  <2> QED
    BY <2>1, <2>6, Zenon
<1>5. \A k \in T : Good(f[k])
  BY Zenon
<1> HIDE DEF T, Good
<1>6. T = 0..Len(names)
  BY <1>1, <1>3, <1>4, Climbs, Zenon
<1>7. Good(f[Len(names)])
  BY <1>1, <1>5, <1>6
<1> QED
  BY <1>2, <1>7, Zenon DEF Good

LEMMA JoinedWithout ==
  ASSUME NEW s, Listed(s), NEW t, Listed(t), NEW D, NEW E,
         \A x \in Range(s) : x \in D <=> x \in E, Range(t) \subseteq E
  PROVE  Without(s \o t, E) = Without(s, D)
<1> DEFINE r == s \o t
           S == Range(s) \cup Range(t)
<1>1. /\ Len(s) \in Nat /\ \A i \in 1..Len(s) : s[i] \in Range(s) /\ s[i] \in S
      /\ Len(t) \in Nat /\ \A i \in 1..Len(t) : t[i] \in Range(t) /\ t[i] \in S
  BY DEF Listed, Range
<1>2. s \in Seq(S) /\ t \in Seq(S)
  BY <1>1 DEF Listed
<1>3. /\ r \in Seq(S) /\ Len(r) = Len(s) + Len(t)
      /\ \A i \in 1..(Len(s) + Len(t)) : r[i] = IF i =< Len(s) THEN s[i] ELSE t[i - Len(s)]
  BY <1>2, ConcatProperties, Zenon
<1>4. Listed(r)
  BY <1>3, ListedIn, Zenon
<1> HIDE DEF r
<1>5. \A k \in 1..Len(s) : r[k] = s[k] /\ s[k] \in Range(s)
  BY <1>1, <1>3
<1>6. \A k \in 1..Len(r) : k > Len(s) => r[k] \in Range(t)
  BY <1>1, <1>3
<1>7. Len(s) =< Len(r)
  BY <1>1, <1>3
<1>8. \A k \in 1..Len(s) : \/ s[k] \in D /\ r[k] \in E
                           \/ s[k] \notin D /\ r[k] \notin E /\ s[k] = r[k]
  BY <1>5, Zenon
<1>9. \A k \in 1..Len(r) : k > Len(s) => r[k] \in E
  BY <1>6, Zenon
<1>10. Without(r, E) = Without(s, D)
  BY <1>4, <1>7, <1>8, <1>9, WithoutLonger
<1> QED
  BY <1>10, Zenon DEF r

LEMMA AppendedWithout ==
  ASSUME NEW s, Listed(s), NEW x, NEW D, NEW E,
         \A y \in Range(s) : y \in D <=> y \in E, x \in E
  PROVE  Without(Append(s, x), E) = Without(s, D)
<1> DEFINE r == Append(s, x)
<1>1. /\ Len(s) \in Nat /\ Len(r) = Len(s) + 1 /\ r[Len(s) + 1] = x
      /\ \A k \in 1..Len(s) : r[k] = s[k] /\ s[k] \in Range(s)
  BY DEF Listed, Range
<1>2. Listed(r)
  BY Appended, Zenon
<1> HIDE DEF r
<1>3. /\ Len(s) =< Len(r) /\ \A k \in 1..Len(r) : k > Len(s) => r[k] \in E
      /\ \A k \in 1..Len(s) : \/ s[k] \in D /\ r[k] \in E
                              \/ s[k] \notin D /\ r[k] \notin E /\ s[k] = r[k]
  BY <1>1
<1>4. Without(r, E) = Without(s, D)
  BY <1>2, <1>3, WithoutLonger
<1> QED
  BY <1>4, Zenon DEF r

\* Volumes and mounts.
LEMMA OthersNamed ==
  ASSUME NEW b, NEW s, Listed(s)
  PROVE  /\ OtherNamed(b, RemoveNamed(s, Config[b].name)) = OtherNamed(b, s)
         /\ \A x : x.name = Config[b].name => OtherNamed(b, Replace(s, x)) = OtherNamed(b, s)
<1> DEFINE n == Config[b].name
           D(l) == {x \in Range(l) : x.name = n}
<1>1. \A l : OtherNamed(b, l) = Without(l, D(l))
  BY Zenon DEF OtherNamed
<1> HIDE DEF n
<1>2. Without(RemoveNamed(s, n), D(RemoveNamed(s, n))) = Without(s, D(s))
  <2> DEFINE r == RemoveNamed(s, n)
  <2>1. Listed(r) /\ Range(r) \subseteq Range(s)
    BY NamedRemoved, Zenon
  <2>2. Without(r, D(s)) = Without(s, D(s))
    BY NamedWithout, Zenon
  <2> HIDE DEF r
  <2>3. \A x \in Range(r) : x \in D(s) <=> x \in D(r)
    BY <2>1, Zenon
  <2> HIDE DEF D
  <2>4. Without(r, D(r)) = Without(r, D(s))
    BY <2>1, <2>3, WithoutSame, Zenon
  <2> QED
    BY <2>2, <2>4, Zenon DEF r
<1>3. ASSUME NEW x, x.name = n PROVE Without(Replace(s, x), D(Replace(s, x))) = Without(s, D(s))
  <2> DEFINE r == Replace(s, x)
  <2>1. Listed(r) /\ x \in Range(r)
    BY Replaced, Zenon
  <2>2. CASE ~HasName(s, n)
    <3>1. r = Append(s, x)
      BY <1>3, <2>2, Zenon DEF Replace, HasName
    <3>2. Range(r) = Range(s) \cup {x}
      BY <3>1, Appended, Zenon
    <3> HIDE DEF r
    <3>3. x \in D(r) /\ \A y \in Range(s) : y \in D(s) <=> y \in D(r)
      BY <1>3, <3>2, Zenon
    <3> HIDE DEF D
    <3> QED
      BY <3>1, <3>3, AppendedWithout DEF r
  <2>3. CASE HasName(s, n)
    <3>1. r = [i \in DOMAIN s |-> IF s[i].name = n THEN x ELSE s[i]]
      BY <1>3, <2>3, Zenon DEF Replace, HasName
    <3>2. Len(s) \in Nat /\ DOMAIN s = 1..Len(s)
      BY DEF Listed
    <3>3. Len(r) = Len(s) /\ \A k \in 1..Len(s) : r[k] = IF s[k].name = n THEN x ELSE s[k]
      BY <3>1, <3>2
    <3> HIDE DEF r
    <3>4. \A k \in 1..Len(s) : s[k] \in Range(s) /\ r[k] \in Range(r)
      BY <2>1, <3>2, <3>3 DEF Listed, Range
    <3>5. \A k \in 1..Len(s) : \/ s[k] \in D(s) /\ r[k] \in D(r)
                               \/ s[k] \notin D(s) /\ r[k] \notin D(r) /\ s[k] = r[k]
      BY <1>3, <3>3, <3>4, Zenon
    <3>6. Len(s) =< Len(r) /\ \A k \in 1..Len(r) : k > Len(s) => r[k] \in D(r)
      BY <3>2, <3>3
    <3> HIDE DEF D
    <3>7. Without(r, D(r)) = Without(s, D(s))
      BY <2>1, <3>5, <3>6, WithoutLonger
    <3> QED
      BY <3>7, Zenon DEF r
  <2> QED
    BY <2>2, <2>3, Zenon
<1> HIDE DEF D
<1> QED
  BY <1>1, <1>2, <1>3, Zenon DEF n

\* Sources of variables.
LEMMA OthersFrom ==
  ASSUME NEW b, NEW e, e \in Config[b].secrets, NEW s, Listed(s)
  PROVE  /\ OtherSources(b, RemoveSource(s, e)) = OtherSources(b, s)
         /\ OtherSources(b, AddEnvFromVar(s, e)) = OtherSources(b, s)
<1> DEFINE D == Config[b].secrets
           r == RemoveSource(s, e)
<1>1. Without(r, D) = Without(s, D) /\ Listed(r)
  BY SourceWithout, SourceRemoved, Zenon
<1>2. AddEnvFromVar(s, e) = Append(r, e)
  BY Zenon DEF AddEnvFromVar
<1> HIDE DEF r
<1>3. e \in D /\ \A y \in Range(r) : y \in D <=> y \in D
  BY Zenon
<1> HIDE DEF D
<1>4. Without(Append(r, e), D) = Without(r, D)
  BY <1>1, <1>3, AppendedWithout
<1> QED
  BY <1>1, <1>2, <1>4, Zenon DEF OtherSources, D, r

\* Variables, of which none is taken for one of binding b by its name.
LEMMA OthersVars ==
  ASSUME setup \in Setups, NEW b \in Bindings, NEW env, Listed(env),
         \A v \in Range(env), e \in Range(Config[b].env) :
           v.name \in {e.var, e.key} => v.from \in Config[b].secrets
  PROVE  /\ OtherVars(b, RemoveEach(env, Keys(b))) = OtherVars(b, env)
         /\ \A s \in Config[b].secrets :
              OtherVars(b, AddEnvVars(env, EnvBindings(b, s))) = OtherVars(b, env)
<1> DEFINE D(l) == {x \in Range(l) : x.from \in Config[b].secrets}
<1>1. \A l : OtherVars(b, l) = Without(l, D(l))
  BY Zenon DEF OtherVars
<1>2. ASSUME NEW names, Listed(names),
             \A x \in Range(env) : x.name \in Range(names) => x \in D(env)
      PROVE  /\ Listed(RemoveEach(env, names)) /\ Range(RemoveEach(env, names)) \subseteq Range(env)
             /\ Without(RemoveEach(env, names), D(env)) = Without(env, D(env))
  <2> HIDE DEF D
  <2> QED
    BY <1>2, EachRemoved, EachWithout, Zenon
<1>3. Without(RemoveEach(env, Keys(b)), D(RemoveEach(env, Keys(b)))) = Without(env, D(env))
  <2> DEFINE r == RemoveEach(env, Keys(b))
  <2>1. Listed(Keys(b)) /\ \A n \in Range(Keys(b)) : \E e \in Range(Config[b].env) : e.key = n
    BY VarsOf, Zenon
  <2>2. \A x \in Range(env) : x.name \in Range(Keys(b)) => x \in D(env)
    BY <2>1, Zenon
  <2>3. Listed(r) /\ Range(r) \subseteq Range(env) /\ Without(r, D(env)) = Without(env, D(env))
    BY <1>2, <2>1, <2>2, Zenon
  <2> HIDE DEF r
  <2>4. \A x \in Range(r) : x \in D(env) <=> x \in D(r)
    BY <2>3, Zenon
  <2> HIDE DEF D
  <2> QED
    BY <2>3, <2>4, WithoutSame, Zenon DEF r
<1>4. ASSUME NEW s \in Config[b].secrets
      PROVE  LET all == AddEnvVars(env, EnvBindings(b, s)) IN
             Without(all, D(all)) = Without(env, D(env))
  <2> DEFINE new == EnvBindings(b, s)
             names == [i \in DOMAIN new |-> new[i].name]
             r == RemoveEach(env, names)
  <2>1. /\ Listed(new) /\ \A n : HasName(new, n) <=> \E e \in Range(Config[b].env) : e.var = n
        /\ \A x \in Range(new) : x.from = s
    BY VarsOf
  <2> HIDE DEF new
  <2>2. Listed(names) /\ \A n \in Range(names) : HasName(new, n)
    <3>1. names \in Seq({new[i].name : i \in DOMAIN new})
      BY <2>1 DEF Listed
    <3>2. Listed(names)
      BY <3>1, ListedIn, Zenon
    <3> QED
      BY <3>2, Zenon DEF Range, HasName
  <2>3. AddEnvVars(env, new) = r \o new
    BY Zenon DEF AddEnvVars
  <2> HIDE DEF names
  <2>4. \A x \in Range(env) : x.name \in Range(names) => x \in D(env)
    BY <2>1, <2>2, Zenon
  <2>5. Listed(r) /\ Range(r) \subseteq Range(env) /\ Without(r, D(env)) = Without(env, D(env))
    BY <1>2, <2>2, <2>4, Zenon
  <2> HIDE DEF r
  <2>6. Range(r \o new) = Range(r) \cup Range(new)
    BY <2>1, <2>5, Joined, Zenon
  <2>7. /\ \A x \in Range(r) : x \in D(env) <=> x \in D(r \o new)
        /\ Range(new) \subseteq D(r \o new)
    BY <2>1, <2>5, <2>6, Zenon
  <2> HIDE DEF D
  <2>8. Without(r \o new, D(r \o new)) = Without(r, D(env))
    BY <2>1, <2>5, <2>7, JoinedWithout
  <2> QED
    BY <2>3, <2>5, <2>8, Zenon DEF new
<1> HIDE DEF D
<1> QED
  BY <1>1, <1>3, <1>4, Zenon

\* The default SERVICE_BINDING_ROOT is the one thing added for good.
LEMMA OthersRoot ==
  ASSUME NEW b, NoSecret \notin Config[b].secrets, NEW env, Listed(env)
  PROVE  OtherVars(b, WithRoot(env)) \in {OtherVars(b, env), WithRoot(OtherVars(b, env))}
<1> DEFINE D(l) == {x \in Range(l) : x.from \in Config[b].secrets}
           all == Append(env, Default)
<1>1. \A l : OtherVars(b, l) = Without(l, D(l))
  BY Zenon DEF OtherVars
<1>2. \A l : WithRoot(l) = IF HasName(l, BindingRoot) THEN l ELSE Append(l, Default)
  BY Zenon DEF WithRoot, HasRoot, HasName, Default
<1>3. CASE HasName(env, BindingRoot)
  BY <1>2, <1>3, Zenon
<1>4. CASE ~HasName(env, BindingRoot)
  <2>1. Range(all) = Range(env) \cup {Default}
    BY Appended, Zenon
  <2>2. Default.from = NoSecret
    BY Zenon DEF Default, EnvVar
  <2>3. Default \notin D(all) /\ \A x \in Range(env) : x \in D(env) <=> x \in D(all)
    BY <2>1, <2>2, Zenon
  <2> HIDE DEF D
  <2>4. Without(env, D(all)) = Without(env, D(env))
    BY <2>3, WithoutSame, Zenon
  <2>5. Without(all, D(all)) = Append(Without(env, D(all)), Default)
    BY <2>3, WithoutAppended
  <2>6. ~HasName(Without(env, D(env)), BindingRoot)
    BY <1>4, WithoutIn, NameIn, Zenon
  <2>7. WithRoot(env) = all /\ WithRoot(Without(env, D(env))) = Append(Without(env, D(env)), Default)
    BY <1>2, <1>4, <2>6, Zenon
  <2> HIDE DEF all
  <2> QED
    BY <1>1, <2>4, <2>5, <2>7, Zenon
<1> QED
  BY <1>3, <1>4, Zenon

\* No key that a variable is made from is the name of a variable of the
\* workload's own; Unbind looks the variables up by their keys.
SeparateKeys ==
  \A u \in Setups, b \in Bindings : \A e \in Range(u.config[b].env) :
    e.key \notin {OwnVar, BindingRoot}

LEMMA OwnedStep ==
  ASSUME SeparateVars, SeparateKeys, Shapes, VarsOwned, [Next]_vars
  PROVE  VarsOwned'
<1>1. setup \in Setups /\ setup' = setup
  BY ShapesOf, Zenon DEF Next, vars
<1>2. Config' = Config
  BY <1>1, Zenon DEF Config
<1> DEFINE Own(v) == \A b \in Bindings : \A e \in Range(Config[b].env) :
                       v.name \in {e.var, e.key} => v.from \in Config[b].secrets
<1>3. \A c \in Containers : \A v \in Range(lists[c].env) : Own(v)
  BY Zenon DEF VarsOwned
<1>4. SUFFICES ASSUME NEW c \in Containers, NEW v \in Range(lists'[c].env)
               PROVE  Own(v)
  BY <1>2, ZenonT(30) DEF VarsOwned, Range
<1>5. \A x : x.name \in {OwnVar, BindingRoot} => Own(x)
  BY <1>1, Zenon DEF SeparateVars, SeparateKeys, Config
<1>6. \A b \in Bindings : \A e \in Range(Config[b].env) : \A x :
        x.name = e.var /\ x.from \in Config[b].secrets => Own(x)
  <2> SUFFICES ASSUME NEW b \in Bindings, NEW e \in Range(Config[b].env), NEW x,
                      x.name = e.var, x.from \in Config[b].secrets,
                      NEW d \in Bindings, NEW f \in Range(Config[d].env),
                      x.name \in {f.var, f.key}
               PROVE  x.from \in Config[d].secrets
    BY Zenon
  <2>1. d = b
    BY <1>1, Zenon DEF SeparateVars, Config
  <2> QED
    BY <2>1, Zenon
<1> HIDE DEF Own
<1>7. Own(Default)
  <2>1. Default.name = BindingRoot
    BY Zenon DEF Default, EnvVar
  <2> QED
    BY <1>5, <2>1
<1>8. ASSUME NEW b \in Bindings, NEW s \in Secrets, Bind(b, s) PROVE Own(v)
  <2>1. /\ s \in Config[b].secrets
        /\ IF c \in Bindable(b) THEN Added(b, s, lists[c], lists'[c]) ELSE lists'[c] = lists[c]
    BY <1>1, <1>8, BindStep, ZenonT(30)
  <2>2. v \in Range(lists[c].env) \/ v \in Range(EnvBindings(b, s)) \/ v = Default
    BY <2>1, Zenon DEF Added
  <2>3. v \in Range(EnvBindings(b, s)) =>
          v.from = s /\ \E e \in Range(Config[b].env) : v.name = e.var
    BY <1>1, VarsOf
  <2> QED
    BY <1>3, <1>6, <1>7, <2>1, <2>2, <2>3, Zenon
<1>9. ASSUME NEW b \in Bindings, Unbind(b) PROVE Own(v)
  <2>1. IF c \in Bindable(b) THEN Taken(b, bound[b], lists[c], lists'[c])
        ELSE lists'[c] = lists[c]
    BY <1>1, <1>9, UnbindStep, Zenon
  <2>2. v \in Range(lists[c].env)
    BY <2>1, Zenon DEF Taken
  <2> QED
    BY <1>3, <2>2, Zenon
<1>10. ASSUME NEW d \in Containers, NEW n \in {OwnVar, BindingRoot}, NEW w, EditVar(d, n, w)
       PROVE  Own(v)
  <2>1. v \in Range(lists[c].env) \/ v = EnvVar(n, NoSecret, w)
    BY <1>1, <1>10, EditVarEffect
  <2>2. v = EnvVar(n, NoSecret, w) => v.name \in {OwnVar, BindingRoot}
    BY DEF EnvVar
  <2> QED
    BY <1>3, <1>5, <2>1, <2>2
<1>11. ASSUME NEW d \in Containers, EditVolume(d) \/ \E s \in Secrets : EditSource(d, s)
       PROVE  Own(v)
  <2>1. lists'[c].env = lists[c].env
    BY <1>1, <1>11, EditVolumeEffect, EditSourceEffect, Zenon
  <2> QED
    BY <1>3, <2>1, Zenon
<1>12. CASE lists' = lists
  BY <1>3, <1>12, Zenon
<1>13. (\E b \in Bindings, cs \in SUBSET Names : Rescope(b, cs)) \/ UNCHANGED vars => lists' = lists
  BY Zenon DEF Rescope, vars
<1> QED
  BY <1>8, <1>9, <1>10, <1>11, <1>12, <1>13, Zenon DEF Next, Operator

\* Of what others put into a container, only the default variable may be new.
OthersIn(b, l, m) ==
  /\ OtherNamed(b, m.mounts) = OtherNamed(b, l.mounts)
  /\ OtherSources(b, m.envFrom) = OtherSources(b, l.envFrom)
  /\ OtherVars(b, m.env) \in {OtherVars(b, l.env), WithRoot(OtherVars(b, l.env))}

\* A variable by a name, or a key, of binding b comes from it.
OwnsVars(b, env) ==
  \A v \in Range(env), e \in Range(Config[b].env) :
    v.name \in {e.var, e.key} => v.from \in Config[b].secrets

LEMMA ThreeLists ==
  ASSUME NEW l, Three(l)
  PROVE  Listed(l.env) /\ Listed(l.envFrom) /\ Listed(l.mounts)
BY Zenon DEF Three

LEMMA OthersAfter ==
  ASSUME setup \in Setups, NEW b \in Bindings, NEW s \in Config[b].secrets,
         NEW l, Three(l), OwnsVars(b, l.env)
  PROVE  OthersIn(b, l, After(b, s, l))
<1> DEFINE m == After(b, s, l)
           env == AddEnvVars(l.env, EnvBindings(b, s))
           mount == [name |-> Config[b].name, root |-> RootOf(env)]
<1>1. Listed(l.env) /\ Listed(l.envFrom) /\ Listed(l.mounts)
  BY ThreeLists, Zenon
<1>2. m = [env |-> IF Config[b].files THEN WithRoot(env) ELSE env,
           envFrom |-> IF Config[b].files THEN l.envFrom ELSE AddEnvFromVar(l.envFrom, s),
           mounts |-> IF Config[b].files THEN Replace(l.mounts, mount) ELSE l.mounts]
  BY AfterFields, SMTT(20)
<1>3. mount.name = Config[b].name
  BY Zenon
<1>4. Listed(env) /\ OtherVars(b, env) = OtherVars(b, l.env)
  <2>1. Listed(EnvBindings(b, s))
    BY VarsOf, Zenon
  <2>2. Listed(env)
    BY <1>1, <2>1, VarsAdded, Zenon
  <2>3. OtherVars(b, env) = OtherVars(b, l.env)
    BY <1>1, OthersVars, Zenon DEF OwnsVars
  <2> QED
    BY <2>2, <2>3, Zenon
<1>5. OtherVars(b, WithRoot(env)) \in {OtherVars(b, env), WithRoot(OtherVars(b, env))}
  <2>1. NoSecret \notin Config[b].secrets
    BY Apart, Zenon
  <2> QED
    BY <1>4, <2>1, OthersRoot, Zenon
<1> HIDE DEF m, env, mount
<1>6. CASE Config[b].files
  <2>1. m.env = WithRoot(env) /\ m.envFrom = l.envFrom /\ m.mounts = Replace(l.mounts, mount)
    BY <1>2, <1>6, Zenon
  <2>2. OtherNamed(b, m.mounts) = OtherNamed(b, l.mounts)
    BY <1>1, <1>3, <2>1, OthersNamed, SMTT(20)
  <2> QED
    BY <1>4, <1>5, <2>1, <2>2, Zenon DEF OthersIn, m
<1>7. CASE ~Config[b].files
  <2>1. m.env = env /\ m.envFrom = AddEnvFromVar(l.envFrom, s) /\ m.mounts = l.mounts
    BY <1>2, <1>7, Zenon
  <2>2. OtherSources(b, m.envFrom) = OtherSources(b, l.envFrom)
    BY <1>1, <2>1, OthersFrom, SMTT(20)
  <2> QED
    BY <1>4, <2>1, <2>2, Zenon DEF OthersIn, m
<1> QED
  BY <1>6, <1>7, Zenon

LEMMA OthersTaken ==
  ASSUME setup \in Setups, NEW b \in Bindings, NEW s \in Config[b].secrets,
         NEW l, Three(l), OwnsVars(b, l.env)
  PROVE  OthersIn(b, l, UnbindContainer(b, s, l))
<1> DEFINE m == UnbindContainer(b, s, l)
<1>1. Listed(l.env) /\ Listed(l.envFrom) /\ Listed(l.mounts)
  BY ThreeLists, Zenon
<1>2. /\ m.env = RemoveEach(l.env, Keys(b)) /\ m.envFrom = RemoveSource(l.envFrom, s)
      /\ m.mounts = RemoveNamed(l.mounts, Config[b].name)
  BY UnbindFields, Zenon
<1> HIDE DEF m
<1>3. OtherVars(b, m.env) = OtherVars(b, l.env)
  BY <1>1, <1>2, OthersVars, Zenon DEF OwnsVars
<1>4. OtherSources(b, m.envFrom) = OtherSources(b, l.envFrom)
  BY <1>1, <1>2, OthersFrom, SMTT(20)
<1>5. OtherNamed(b, m.mounts) = OtherNamed(b, l.mounts)
  BY <1>1, <1>2, OthersNamed, Zenon
<1> QED
  BY <1>3, <1>4, <1>5, Zenon DEF OthersIn, m

\* A step that leaves the others alone in each container, and among the volumes.
LEMMA LeftAlone ==
  ASSUME NEW b, OtherNamed(b, volumes') = OtherNamed(b, volumes),
         \A c \in Containers : lists'[c] = lists[c] \/ OthersIn(b, lists[c], lists'[c])
  PROVE  LeavesOthers(b)
BY Zenon DEF LeavesOthers, OthersIn

LEMMA OwnedVars ==
  ASSUME Shapes, VarsOwned, NEW b \in Bindings
  PROVE  /\ setup \in Setups /\ Listed(volumes)
         /\ \A c \in Containers : Three(lists[c]) /\ OwnsVars(b, lists[c].env)
<1>1. /\ setup \in Setups /\ Listed(volumes) /\ \A c \in Containers : Three(lists[c])
  BY ShapesOf, Zenon
<1>2. \A c \in Containers : OwnsVars(b, lists[c].env)
  BY Zenon DEF VarsOwned, OwnsVars
<1> QED
  BY <1>1, <1>2, Zenon

LEMMA OthersBound ==
  ASSUME Shapes, VarsOwned, UNCHANGED setup, NEW b \in Bindings, NEW s, Bind(b, s)
  PROVE  LeavesOthers(b)
<1> DEFINE volume == [name |-> Config[b].name, secret |-> s]
<1>1. /\ s \in Config[b].secrets /\ (volumes' = Replace(volumes, volume) \/ volumes' = volumes)
      /\ \A c \in Containers : lists'[c] = After(b, s, lists[c]) \/ lists'[c] = lists[c]
  BY BindStep, SMTT(20)
<1>2. volume.name = Config[b].name
  BY Zenon
<1> HIDE DEF volume
<1>3. OtherNamed(b, volumes') = OtherNamed(b, volumes)
  BY <1>1, <1>2, OwnedVars, OthersNamed, SMTT(20)
<1>4. \A c \in Containers : lists'[c] = lists[c] \/ OthersIn(b, lists[c], lists'[c])
  BY <1>1, OwnedVars, OthersAfter, Zenon
<1> QED
  BY <1>3, <1>4, LeftAlone, Zenon

LEMMA OthersUnbound ==
  ASSUME Shapes, VarsOwned, UNCHANGED setup, NEW b \in Bindings, Unbind(b)
  PROVE  LeavesOthers(b)
<1>1. /\ bound[b] \in Config[b].secrets /\ volumes' = RemoveNamed(volumes, Config[b].name)
      /\ \A c \in Containers :
           lists'[c] = UnbindContainer(b, bound[b], lists[c]) \/ lists'[c] = lists[c]
  BY UnbindStep, Zenon
<1>2. OtherNamed(b, volumes') = OtherNamed(b, volumes)
  BY <1>1, OwnedVars, OthersNamed, Zenon
<1>3. \A c \in Containers : lists'[c] = lists[c] \/ OthersIn(b, lists[c], lists'[c])
  BY <1>1, OwnedVars, OthersTaken, Zenon
<1> QED
  BY <1>2, <1>3, LeftAlone, Zenon

\* Whatever bindings do, what the owner and the other bindings put into the
\* workload stays as it is and in its order, where no two of them go by one
\* name or refer to one secret: the Add and Remove methods find what has the
\* binding's name or its secret, and nothing else.
THEOREM OthersLeftAlone ==
  ASSUME SeparateVars, SeparateKeys
  PROVE  Spec => OthersKept
<1> DEFINE Inv == Shapes /\ VarsOwned
           Kept == \A b \in Bindings :
             Unbind(b) \/ (\E s \in Secrets : Bind(b, s)) => LeavesOthers(b)
<1>1. Init => Inv
  <2> SUFFICES ASSUME Init PROVE VarsOwned
    BY InitShapes, Zenon
  <2>1. \A c \in Containers : lists[c].env = <<>>
    BY Zenon DEF Init
  <2> QED
    BY <2>1 DEF VarsOwned, Range
<1>2. Inv /\ [Next]_vars => Inv'
  BY ShapesStep, OwnedStep, Zenon
<1>3. Inv /\ [Next]_vars => [Kept]_vars
  <2> SUFFICES ASSUME Inv, Next PROVE Kept
    BY Zenon
  <2>1. UNCHANGED setup
    BY Zenon DEF Next
  <2> QED
    BY <2>1, OthersBound, OthersUnbound, Zenon
<1> QED
  BY <1>1, <1>2, <1>3, PTL DEF Spec, OthersKept

=============================================================================
