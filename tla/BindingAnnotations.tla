------------------------- MODULE BindingAnnotations -------------------------
(***************************************************************************)
(* What a binding annotation of a service means: the definition that is    *)
(* built from it, and the value that the definition has for a given        *)
(* service.  BindingItemTrees says into which items the value is taken     *)
(* apart.                                                                  *)
(*                                                                         *)
(* A name is the sequence of its parts between underscores, so that the    *)
(* names <<"a">> below <<"b">> and <<"b", "a">> are the same, as they are  *)
(* in the code.  Of an annotation value, "" stands for a parameter that is *)
(* not given.  Values are trees of strings.                                *)
(***************************************************************************)
EXTENDS Naturals, Sequences, FiniteSetsExt, TLC

NoName == <<"">>

Str(s) == [type |-> "string", of |-> s]
MapOf(f) == [type |-> "map", of |-> f]
ListOf(s) == [type |-> "list", of |-> s]
Nil == [type |-> "nil"]

\* The parameters of an annotation value; with none of them, it is a constant.
Parameters(path, objectType, elementType, sourceKey, sourceValue, optional) ==
  [path |-> path, objectType |-> objectType, elementType |-> elementType,
   sourceKey |-> sourceKey, sourceValue |-> sourceValue, optional |-> optional, value |-> ""]

Constant(s) == [Parameters("", "", "", "", "", FALSE) EXCEPT !.value = s]

(***************************************************************************)
(* newModel and Build                                                      *)
(***************************************************************************)

DataTypes == {"Secret", "ConfigMap"}

EltSecret(a) == IF a.elementType # "" THEN a.elementType ELSE "string"

\* The defaults of newModel.
EltType(a) ==
  IF a.elementType # "" THEN a.elementType
  ELSE IF a.objectType \in DataTypes THEN "map" ELSE "string"

newModel(a) ==
  [a EXCEPT !.objectType = IF @ = "" THEN "string" ELSE @,
            !.elementType = EltType(a),
            !.sourceValue = IF @ = "" THEN a.sourceKey ELSE @]

\* The errors of newModel, and a combination that Build has no case for.
Invalid(a) ==
  /\ a.value = ""
  /\ LET m == newModel(a)
     IN \/ a.path \in {"", "unbalanced"}
        \/ m.elementType = "sliceOfMaps" /\ "" \in {m.sourceKey, m.sourceValue}
        \/ /\ m.elementType \notin {"sliceOfMaps", "sliceOfStrings"}
           /\ \/ m.elementType \notin {"string", "map"}
              \/ m.objectType \notin DataTypes \cup {"string"}

Build(name, a) ==
  LET m == newModel(a)
      kind == IF a.value # "" THEN "string"
              ELSE IF m.elementType \in {"string", "map"} /\ m.objectType \in DataTypes
              THEN IF m.elementType = "string" THEN "stringFromData" ELSE "mapFromData"
              ELSE m.elementType
  IN  [kind |-> kind, outputName |-> name, path |-> a.path, objectType |-> m.objectType,
       sourceKey |-> a.sourceKey, sourceValue |-> m.sourceValue, optional |-> a.optional, value |-> a.value]

(***************************************************************************)
(* Apply.  values[p] are the results of the path p in the service, and     *)
(* objects[t, n] the data of the Secret or ConfigMap n; what is not in     *)
(* their domains cannot be read.                                           *)
(***************************************************************************)

Failed == [status |-> "error"]
Absent == [status |-> "absent"]
Found(f) == [status |-> "found", of |-> f]

\* What the results of a path consist of: a list stands for its elements.
Elements(results) ==
  LET upTo[k \in 0..Len(results)] ==
        IF k = 0 THEN <<>>
        ELSE upTo[k - 1] \o (IF results[k].type = "list" THEN results[k].of ELSE <<results[k]>>)
  IN  upTo[Len(results)]

Text(t) == IF t.type = "nil" THEN "<nil>" ELSE t.of

Field(t, f) == IF <<f>> \in DOMAIN t.of THEN t.of[<<f>>] ELSE Nil

\* collectSourceValues
SourceValues(results, sourceValue) ==
  LET kept == SelectSeq(Elements(results),
                        LAMBDA t : t.type = IF sourceValue = "" THEN "string" ELSE "map")
  IN  [i \in DOMAIN kept |-> IF sourceValue = "" THEN kept[i] ELSE Field(kept[i], sourceValue)]

\* collectSourceValuesWithKey: of two maps with the same key, the last counts.
KeyedValues(results, sourceKey, sourceValue) ==
  LET ts == SelectSeq(Elements(results), LAMBDA t : t.type = "map")
      Key(i) == <<Text(Field(ts[i], sourceKey))>>
  IN  [k \in {Key(i) : i \in DOMAIN ts} |->
         Field(ts[Max({i \in DOMAIN ts : Key(i) = k})], sourceValue)]

\* The data of the object that the only result of the path names.
Reference(d, values) == <<d.objectType, values[d.path][1].of>>

\* mapFromDataFieldDefinition: one entry under the output name, or all of them.
Entries(d, data) ==
  LET ks == {k \in DOMAIN data : d.sourceValue = "" \/ k = <<d.sourceValue>>}
  IN  IF d.sourceValue # "" /\ d.outputName # NoName
      THEN [n \in {d.outputName : k \in ks} |-> Str(data[<<d.sourceValue>>])]
      ELSE [k \in ks |-> Str(data[k])]

ApplyData(d, values, objects) ==
  LET ref == Reference(d, values)
  IN  IF ref \notin DOMAIN objects \/ objects[ref] = <<>> THEN Failed
      ELSE IF d.kind = "mapFromData" THEN Found(Entries(d, objects[ref]))
      ELSE IF <<d.sourceKey>> \in DOMAIN objects[ref]
      THEN Found(NoName :> Str(objects[ref][<<d.sourceKey>>]))
      ELSE Failed

Named(d, tree) == IF d.outputName = NoName THEN tree.of ELSE d.outputName :> tree

ApplyPath(d, results) ==
  IF d.kind = "sliceOfMaps"
  THEN Found(Named(d, MapOf(KeyedValues(results, d.sourceKey, d.sourceValue))))
  ELSE IF d.kind = "sliceOfStrings"
  THEN Found(d.outputName :> ListOf(SourceValues(results, d.sourceValue)))
  ELSE IF Len(results) # 1 \/ (d.kind = "map" /\ results[1].type # "map") THEN Failed
  ELSE IF d.kind = "map" THEN Found(Named(d, results[1]))
  ELSE Found(d.outputName :> results[1])

Apply(d, values, objects) ==
  IF d.kind = "string" /\ d.outputName = NoName THEN Failed
  ELSE IF d.value # "" THEN Found(d.outputName :> Str(d.value))
  ELSE IF d.path \notin DOMAIN values THEN IF d.optional THEN Absent ELSE Failed
  ELSE IF d.kind \notin {"stringFromData", "mapFromData"} THEN ApplyPath(d, values[d.path])
  ELSE IF Len(values[d.path]) = 1 THEN ApplyData(d, values, objects)
  ELSE Failed

=============================================================================
