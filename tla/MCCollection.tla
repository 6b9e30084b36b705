---------------------------- MODULE MCCollection ----------------------------
(***************************************************************************)
(* Small instances of Collection.                                          *)
(***************************************************************************)
EXTENDS Collection, BindingItemTrees

TreeItems(n, t) == collectItems(<<>>, n, t)

\* Names.
a == <<"a">>
b == <<"b">>
ab == <<"a", "b">>
type == <<"type">>
db == <<"db">>

SomeObjects ==
  [r \in {<<"Secret", "s1">>, <<"Secret", "s2">>, <<"Secret", "s3">>, <<"ConfigMap", "m1">>} |->
     CASE r[2] = "s1" -> a :> "x" @@ b :> "y"
       [] r[2] = "s2" -> type :> "t"
       [] r[2] = "s3" -> b :> "w"
       [] r[2] = "m1" -> b :> "z"]

NoCrd == [exists |-> FALSE]
Crd(schema, anns, registered, provisioned) ==
  [exists |-> TRUE, schema |-> schema, bindings |-> anns, registered |-> registered,
   provisioned |-> provisioned, malformed |-> FALSE]

Custom(anns, crd, binding) ==
  [secret |-> None, id |-> None, foreign |-> FALSE, bindings |-> anns, malformed |-> FALSE, crd |-> crd,
   binding |-> binding, owned |-> <<>>,
   values |-> "ref" :> <<Str("s1")>> @@ "name" :> <<Str("n")>> @@ "late" :> <<Str("l")>>
              @@ "map" :> <<MapOf(a :> Str("p") @@ b :> MapOf(a :> Str("q")))>>
              @@ "hole" :> <<MapOf(a :> Nil)>> @@ "null" :> <<Nil>>
              @@ "list" :> <<ListOf(<<Str("p"), Str("q")>>)>>
              @@ "maps" :> <<ListOf(<<MapOf(<<"k">> :> Str("b") @@ <<"v">> :> Str("p"))>>)>>
              @@ "cm" :> <<Str("m1")>> @@ "two" :> <<Str("p"), Str("q")>>]

Secret(n, anns) == [Custom(anns, NoCrd, "unset") EXCEPT !.secret = n]

With(ss) == [flow |-> DefaultFlow, services |-> ss, mappings |-> <<>>, naming |-> <<>>, validNaming |-> TRUE]
SpecWith(s) == [With(<<s>>) EXCEPT !.flow = SpecFlow]

\* A mapping to an item, and to a path in the service with the id db.
ToItem(name) == [valid |-> TRUE, strict |-> FALSE, var |-> name, path |-> ""]
ToService(path, strict) == [valid |-> TRUE, strict |-> strict, var |-> db, path |-> path]

Mapped(ss, n, m) == [With(ss) EXCEPT !.mappings = n :> m]
Known(s) == [s EXCEPT !.id = db]

Upper(ss) == [With(ss) EXCEPT !.naming = a :> <<"S", "A">> @@ b :> <<"S", "B">>]

P(path, object, element, key, value) == Parameters(path, object, element, key, value, FALSE)
Optional(path) == Parameters(path, "", "", "", "", TRUE)

\* Services that can be bound, no two items of one of which share a name.
Plain ==
  {With(<<Secret("s1", <<>>)>>),
   With(<<Secret("s1", <<>>), Secret("s2", <<>>)>>),
   With(<<Secret("s1", <<>>), Secret("s3", <<>>)>>),
   [Upper(<<Custom(a :> P("name", "", "", "", ""), NoCrd, "s3"), Secret("s1", <<>>)>>) EXCEPT
      !.mappings = a :> ToItem(b) @@ type :> ToItem(a)],
   SpecWith(Secret("s1", <<>>)),
   SpecWith(Custom(type :> Constant("t"), Crd(TRUE, <<>>, <<>>, FALSE), "s1")),
   Upper(<<Secret("s1", <<>>)>>),
   Upper(<<Custom(NoName :> P("ref", "Secret", "", "", ""), NoCrd, "unset"), Secret("s2", <<>>)>>),
   With(<<[Secret("s1", <<>>) EXCEPT !.foreign = TRUE]>>),
   With(<<Custom(<<>>, Crd(TRUE, <<>>, <<>>, FALSE), "s2")>>),
   With(<<Custom(<<>>, NoCrd, "")>>),
   With(<<Custom(type :> Constant("t"), Crd(FALSE, type :> Constant("u") @@ a :> P("name", "", "", "", ""), <<>>, FALSE), "s1")>>),
   With(<<Custom(<<>>, Crd(FALSE, <<>>, b :> P("ref", "Secret", "", "b", "") @@ type :> Constant("t"), FALSE), "unset")>>),
   With(<<Custom(a :> P("late", "", "", "", "") @@ b :> P("cm", "ConfigMap", "", "b", ""), NoCrd, "unset")>>),
   With(<<Custom(a :> Optional("gone") @@ b :> Optional("late"), NoCrd, "unset")>>),
   With(<<Custom(a :> P("map", "", "map", "", "") @@ b :> P("list", "", "sliceOfStrings", "", ""), NoCrd, "unset")>>),
   With(<<Custom(NoName :> P("map", "", "map", "", "") @@ type :> P("maps", "", "sliceOfMaps", "k", "v"), NoCrd, "unset")>>),
   Mapped(<<Custom(a :> P("maps", "", "sliceOfStrings", "", "v"), NoCrd, "unset")>>, b, ToItem(a)),
   Mapped(<<Secret("s1", <<>>)>>, type, ToItem(a)),
   Mapped(<<Known(Custom(<<>>, NoCrd, "s1")), Secret("s2", <<>>)>>, type, ToService("name", TRUE)),
   Mapped(<<Known(Custom(<<>>, NoCrd, "unset")), Custom(b :> Optional("late"), NoCrd, "unset")>>,
          a, ToService("late", FALSE)),
   With(<<[Custom(type :> Constant("t"), NoCrd, "unset") EXCEPT
             !.owned = <<[output |-> NoName, value |-> MapOf(a :> Str("x"))],
                         [output |-> b, value |-> Str("h")]>>]>>)}

\* Bindings that some handler stops, for a while or for good.
Stopped ==
  {With(<<Custom(a :> P("", "Secret", "", "", ""), NoCrd, "unset"), Custom(<<>>, Crd(TRUE, <<>>, <<>>, TRUE), "s2")>>),
   With(<<[Custom(<<>>, NoCrd, "unset") EXCEPT !.malformed = TRUE]>>),
   With(<<Custom(a :> P("maps", "", "sliceOfMaps", "", "v"), NoCrd, "unset")>>),
   With(<<Custom(a :> P("hole", "", "", "", "") @@ b :> P("late", "", "", "", ""), NoCrd, "unset")>>),
   Mapped(<<Secret("s1", <<>>)>>, type, [ToItem(a) EXCEPT !.valid = FALSE]),
   Mapped(<<Known(Custom(<<>>, NoCrd, "unset"))>>, type, ToService("late", TRUE)),
   Mapped(<<Known(Custom(db :> Optional("late"), NoCrd, "unset"))>>, type, ToService("name", FALSE)),
   [With(<<Secret("s2", <<>>)>>) EXCEPT !.validNaming = FALSE]}

\* Bindings whose services never have what their annotations name.
NeverThere ==
  {With(<<Custom(<<>>, Crd(TRUE, <<>>, <<>>, TRUE), "unset")>>),
   With(<<Custom(a :> P("gone", "", "", "", ""), NoCrd, "unset")>>),
   With(<<Custom(a :> P("two", "", "", "", ""), NoCrd, "unset")>>),
   With(<<Custom(NoName :> P("name", "", "", "", ""), NoCrd, "unset")>>),
   With(<<Custom(a :> P("null", "", "", "", ""), NoCrd, "unset")>>),
   With(<<Custom(a :> P("ref", "Secret", "string", "c", ""), NoCrd, "unset")>>),
   With(<<[Custom(<<>>, NoCrd, "unset") EXCEPT !.owned = <<[output |-> b, value |-> Nil]>>]>>)}

AllOfThem == Plain \cup Stopped \cup NeverThere

LateThings == {<<"path", "late">>, <<"Secret", "s2">>}

=============================================================================
