----------------------------- MODULE Serialize -----------------------------
(***************************************************************************)
(* How a value scanned from ClickHouse becomes JSON                        *)
(* (internal/query/serialize.go).  The conversion follows the Go value;    *)
(* the column's type travels along as text, taken apart by hand at every   *)
(* level, for the value alone does not tell a date from a midnight         *)
(* datetime.                                                               *)
(*                                                                         *)
(* A type is a tree here, shown as a sequence of symbols (names,           *)
(* punctuation, " ").  What the driver scans a type into is external.  The *)
(* conversion is compared with one that follows the tree.                  *)
(***************************************************************************)
EXTENDS Text

CONSTANTS
  Leaves,     \* names of the leaf types that columns are made of
  Siblings,   \* those that stand beside another type in a tuple
  Keys,       \* those that are map keys
  MaxDepth    \* bound: type constructors explored above a leaf

VARIABLES
  ctype,   \* the type of a column
  depth    \* its constructors

(***************************************************************************)
(* Types, as ClickHouse shows them, and what the driver scans them into.   *)
(***************************************************************************)
Leaf(n)     == [leaf |-> n]
Wrap(w, t)  == [wrap |-> w, of |-> t]
Map(k, v)   == [key |-> k, val |-> v]
Tuple(ts)   == [tuple |-> ts]           \* unnamed
Named(ts)   == [fields |-> ts]          \* its fields named f1, f2, ...
Is(t, form) == form \in DOMAIN t
IsA(t, w)   == Is(t, "wrap") /\ t.wrap = w

FieldNames == <<"f1", "f2">>

\* The arguments a leaf is shown with.
Arguments ==
  [n \in {"DateTime", "Decimal", "Enum8"} |->
     CASE n = "DateTime" -> <<"(", "'UTC'", ")">>
       [] n = "Decimal"  -> <<"(", "10", ",", " ", "2", ")">>
       [] n = "Enum8"    -> <<"(", "'a'", " ", "=", " ", "1", ",", " ", "'b'", " ", "=", " ", "2", ")">>]

Joined(texts) ==
  FoldLeft(LAMBDA all, t : IF all = <<>> THEN t ELSE all \o <<",", " ">> \o t, <<>>, texts)

RECURSIVE Show(_)
Show(t) ==
  CASE Is(t, "leaf")   -> <<t.leaf>> \o (IF t.leaf \in DOMAIN Arguments THEN Arguments[t.leaf] ELSE <<>>)
    [] Is(t, "wrap")   -> <<t.wrap, "(">>
                            \o (IF t.wrap = "SimpleAggregateFunction" THEN <<"anyLast", ",", " ">> ELSE <<>>)
                            \o Show(t.of) \o <<")">>
    [] Is(t, "key")    -> <<"Map", "(">> \o Joined(<<Show(t.key), Show(t.val)>>) \o <<")">>
    [] Is(t, "tuple")  -> <<"Tuple", "(">>
                            \o Joined([i \in DOMAIN t.tuple |-> Show(t.tuple[i])]) \o <<")">>
    [] Is(t, "fields") -> <<"Tuple", "(">>
                            \o Joined([i \in DOMAIN t.fields |->
                                         <<FieldNames[i], " ">> \o Show(t.fields[i])]) \o <<")">>

Scalar(k) == [scalar |-> k]
Nil       == [nil |-> TRUE]

\* The Go values of a leaf type; Dynamic holds anything, JSON a tree of paths.  An
\* address is a net.IP, which no case but its own matches: a type switch compares the
\* dynamic type, so it is no []byte in whatever order the cases stand.
GoValues(n) ==
  CASE n \in {"Date", "DateTime"} -> {Scalar("time")}
    [] n = "UInt64"  -> {Scalar("uint64")}
    [] n = "Int64"   -> {Scalar("int64")}
    [] n = "UInt8"   -> {Scalar("uint8")}
    [] n = "Float64" -> {Scalar("float64"), Scalar("nonfinite")}
    [] n = "Decimal" -> {Scalar("decimal")}
    [] n = "IPv4"    -> {Scalar("ip")}
    [] n \in {"String", "Enum8"} -> {Scalar("string")}
    [] n = "Dynamic" -> {[variant |-> x] : x \in {Nil, Scalar("time"), Scalar("uint64")}}
    [] n = "JSON"    -> {[paths |-> {<<Scalar("string"), Scalar("uint64")>>}]}

\* Null is a nil pointer, an array of UInt8 a []byte, an unnamed tuple a slice, a
\* named one a map by field name.
RECURSIVE Scan(_)
Scan(t) ==
  LET seqs(ts) == {s \in [DOMAIN ts -> UNION {Scan(ts[i]) : i \in DOMAIN ts}] :
                     \A i \in DOMAIN ts : s[i] \in Scan(ts[i])}
  IN CASE Is(t, "leaf")   -> GoValues(t.leaf)
       [] IsA(t, "Nullable") -> {[ptr |-> x] : x \in {Nil} \cup Scan(t.of)}
       [] IsA(t, "Array") ->
            IF t.of = Leaf("UInt8") THEN {[bytes |-> n] : n \in 0..1}
            ELSE {[slice |-> <<>>]} \cup {[slice |-> <<x>>] : x \in Scan(t.of)}
       [] Is(t, "wrap")   -> Scan(t.of)
       [] Is(t, "key")    -> {[map |-> {}]} \cup
                             {[map |-> {<<k, x>>}] : k \in Scan(t.key), x \in Scan(t.val)}
       [] Is(t, "tuple")  -> {[slice |-> s] : s \in seqs(t.tuple)}
       [] Is(t, "fields") -> {[map |-> {<<[field |-> FieldNames[i]], s[i]>> : i \in DOMAIN s}]
                                : s \in seqs(t.fields)}

(***************************************************************************)
(* Type text taken apart.                                                  *)
(***************************************************************************)
typeName(s) ==
  LET text == TrimSpace(s)
      open == IndexOf(text, "(")
  IN IF open = 0 \/ Last(text) # ")" THEN [name |-> text, args |-> <<>>]
     ELSE [name |-> SubSeq(text, 1, open - 1), args |-> SubSeq(text, open + 1, Len(text) - 1)]

\* Every comma taken for a separator.
splitAnywhere(args) ==
  LET commas == {i \in DOMAIN args : args[i] = ","}
      starts == SetToSortSeq({1} \cup {i + 1 : i \in commas}, <)
      part(i) == TrimSpace(SubSeq(args, starts[i],
                   IF i = Len(starts) THEN Len(args) ELSE starts[i + 1] - 2))
  IN SelectSeq([i \in DOMAIN starts |-> part(i)], LAMBDA s : s # <<>>)

\* Commas outside parentheses separate; an empty last part is dropped.
splitTopLevel(args) ==
  LET count(c, i) == Cardinality({j \in 1..i : args[j] = c})
      commas == {i \in DOMAIN args : args[i] = "," /\ count("(", i) = count(")", i)}
      starts == SetToSortSeq({1} \cup {i + 1 : i \in commas}, <)
      part(i) == TrimSpace(SubSeq(args, starts[i],
                   IF i = Len(starts) THEN Len(args) ELSE starts[i + 1] - 2))
      parts == [i \in DOMAIN starts |-> part(i)]
  IN IF Last(parts) = <<>> THEN Front(parts) ELSE parts

\* One wrapper off; Map, Tuple, Variant and leaves stay as they are.
elemType(s) ==
  LET n     == typeName(s).name
      parts == splitTopLevel(typeName(s).args)
  IN CASE n \in {<<>>, <<"Map">>, <<"Tuple">>, <<"Variant">>} -> s
       [] n = <<"SimpleAggregateFunction">> -> IF Len(parts) >= 2 THEN Last(parts) ELSE s
       [] OTHER -> IF Len(parts) = 1 THEN parts[1] ELSE s

\* A field's name off: what stands before the first space, unless a parenthesis
\* does, which puts the space inside a type.
fieldType(f) ==
  LET sp   == IndexOf(f, " ")
      rest == TrimSpace(SubSeq(f, sp + 1, Len(f)))
  IN IF sp > 1 /\ rest # <<>> /\ "(" \notin ToSet(SubSeq(f, 1, sp - 1)) THEN rest ELSE f

RECURSIVE isDateOnly(_)
isDateOnly(s) ==
  LET text  == TrimSpace(s)
      inner == elemType(text)
  IN \/ text \in {<<"Date">>, <<"Date32">>}
     \/ inner # text /\ isDateOnly(inner)

(***************************************************************************)
(* The conversion.                                                         *)
(***************************************************************************)
Null      == [json |-> "null"]
Text      == [json |-> "text"]
Number(k) == [number |-> k]             \* k is the Go type it came from
Time(date) == [json |-> IF date THEN "date" ELSE "datetime"]

\* finiteOrNull
finiteOrNull(k) == IF k = "nonfinite" THEN Null ELSE Number(k)

\* fmt.Sprintf but for dates and datetimes; a tuple's field keeps its name.
mapKeyString(k, keyType) ==
  CASE Is(k, "field")         -> [json |-> k.field]
    [] k = Scalar("time")     -> Time(isDateOnly(keyType))
    [] OTHER                  -> Text

ScalarValue(k, dbType) ==
  CASE k \in {"uint64", "decimal", "ip", "string"} -> Text
    [] k \in {"float64", "nonfinite"}              -> finiteOrNull(k)
    [] k = "time"                                  -> Time(isDateOnly(dbType))
    [] OTHER                                       -> Number(k)

\* The type of element i of a slice.
ElementType(dbType, i) ==
  LET parts == IF typeName(dbType).name = <<"Tuple">>
               THEN splitTopLevel(typeName(dbType).args) ELSE <<>>
  IN IF i <= Len(parts) THEN fieldType(parts[i]) ELSE elemType(dbType)

\* Of a map: the type of its keys, and of what stands at a key.
KeyType(dbType) ==
  LET parts == splitTopLevel(typeName(dbType).args)
  IN IF typeName(dbType).name = <<"Map">> /\ Len(parts) = 2 THEN parts[1] ELSE <<>>

ValueType(dbType, key) ==
  LET n     == typeName(dbType).name
      parts == splitTopLevel(typeName(dbType).args)
      named == {i \in DOMAIN parts : n = <<"Tuple">> /\ IndexOf(parts[i], " ") > 1
                                       /\ [json |-> parts[i][1]] = key}
  IN CASE named # {} ->
            LET f == parts[Max(named)] IN TrimSpace(SubSeq(f, IndexOf(f, " ") + 1, Len(f)))
       [] n = <<"Map">> /\ Len(parts) = 2 -> parts[2]
       [] OTHER -> <<>>

RECURSIVE ToJSONValue(_, _)

\* Objects are sets of pairs.
reflectValue(v, dbType) ==
  CASE Is(v, "ptr")   -> IF v.ptr = Nil THEN Null ELSE ToJSONValue(v.ptr, elemType(dbType))
    [] Is(v, "slice") ->
         [array |-> [i \in DOMAIN v.slice |-> ToJSONValue(v.slice[i], ElementType(dbType, i))]]
    [] Is(v, "map")   ->
         LET key(e) == mapKeyString(e[1], KeyType(dbType))
         IN [object |-> {<<key(e), ToJSONValue(e[2], ValueType(dbType, key(e)))>> : e \in v.map}]

\* A Dynamic is unwrapped and a JSON opened, both without a type.
ToJSONValue(v, dbType) ==
  CASE Is(v, "nil")     -> Null
    [] Is(v, "scalar")  -> ScalarValue(v.scalar, dbType)
    [] Is(v, "bytes")   -> [array |-> [i \in 1..v.bytes |-> Number("uint8")]]
    [] Is(v, "variant") -> ToJSONValue(v.variant, <<>>)
    [] Is(v, "paths")   -> ToJSONValue([map |-> v.paths], <<>>)
    [] OTHER            -> reflectValue(v, dbType)

(***************************************************************************)
(* Somebody declares a column (external).  ClickHouse allows Nullable      *)
(* around leaves, LowCardinality around these, and                         *)
(* SimpleAggregateFunction outermost.                                      *)
(***************************************************************************)
Scalars == Leaves \ {"Dynamic", "JSON"}

IsScalar(t) == Is(t, "leaf") /\ t.leaf \in Scalars

Enclosings(t) ==
  {Wrap("Array", t), Wrap("SimpleAggregateFunction", t)}
    \cup {Wrap("Nullable", x) : x \in {y \in {t} : IsScalar(y)}}
    \cup {Wrap("LowCardinality", x) : x \in {y \in {t} : IsScalar(y) \/ IsA(y, "Nullable")}}
    \cup {Map(Leaf(k), t) : k \in Keys}
    \cup UNION {{Tuple(ts), Named(ts)} :
                  ts \in {<<t, Leaf(s)>> : s \in Siblings} \cup {<<Leaf(s), t>> : s \in Siblings}}

Aggregate(t) == IsA(t, "SimpleAggregateFunction")

Enclose ==
  /\ depth < MaxDepth /\ ~Aggregate(ctype)
  /\ ctype' \in Enclosings(ctype)
  /\ depth' = depth + 1

Init == ctype \in {Leaf(n) : n \in Leaves} /\ depth = 0
Next == Enclose
Spec == Init /\ [][Next]_<<ctype, depth>>

(***************************************************************************)
(* The reference follows the type's tree.                                  *)
(***************************************************************************)
\* Without a type a date cannot be told from a datetime.
Untyped(x) == CASE x = Nil -> Null [] x = Scalar("time") -> Time(FALSE) [] OTHER -> Text

LeafJSON(n, v) ==
  CASE n \in {"Date", "DateTime"} -> Time(n = "Date")
    [] n \in {"UInt64", "Decimal", "IPv4", "String", "Enum8"} -> Text
    [] n \in {"Int64", "UInt8"} -> Number(v.scalar)
    [] n = "Float64" -> IF v = Scalar("nonfinite") THEN Null ELSE Number("float64")
    [] n = "Dynamic" -> Untyped(v.variant)
    [] n = "JSON" -> [object |-> {<<Text, Untyped(p[2])>> : p \in v.paths}]

KeyJSON(n) == IF n \in {"Date", "DateTime"} THEN Time(n = "Date") ELSE Text

RECURSIVE Rendered(_, _)
Rendered(t, v) ==
  CASE Is(t, "leaf") -> LeafJSON(t.leaf, v)
    [] IsA(t, "Nullable") ->
         IF v.ptr = Nil THEN Null ELSE Rendered(t.of, v.ptr)
    [] IsA(t, "Array") ->
         IF Is(v, "bytes") THEN [array |-> [i \in 1..v.bytes |-> Number("uint8")]]
         ELSE [array |-> [i \in DOMAIN v.slice |-> Rendered(t.of, v.slice[i])]]
    [] Is(t, "wrap")  -> Rendered(t.of, v)
    [] Is(t, "key")   -> [object |-> {<<KeyJSON(t.key.leaf), Rendered(t.val, e[2])>> : e \in v.map}]
    [] Is(t, "tuple") -> [array |-> [i \in DOMAIN t.tuple |-> Rendered(t.tuple[i], v.slice[i])]]
    [] Is(t, "fields") ->
         [object |-> {<<[json |-> FieldNames[i]],
                        Rendered(t.fields[i], (CHOOSE e \in v.map : e[1].field = FieldNames[i])[2])>>
                        : i \in DOMAIN t.fields}]

RECURSIVE Plain(_)
Plain(t) == Is(t, "leaf") \/ (Is(t, "wrap") /\ Plain(t.of))

(***************************************************************************)
(* Properties.                                                             *)
(***************************************************************************)
\* However types are nested, every value inside is rendered by its own type: dates
\* as dates and datetimes as datetimes, also in keys, large unsigned integers and
\* decimals as text, infinities as null, addresses and bytes neither taken for the
\* other.  The type text is split, peeled and threaded to the right place at every
\* level (reflectValue, elemType, fieldType, splitTopLevel).  Only inside an
\* aggregate's tuple or map it is not.
RenderedByItsType ==
  (Aggregate(ctype) => Plain(ctype.of))
    => \A v \in Scan(ctype) : ToJSONValue(v, Show(ctype)) = Rendered(ctype, v)

\* "Large integers and decimals are returned as strings to avoid JSON precision
\* loss" (README.md): no number of a type that exceeds 2^53 stays a JSON number.
RECURSIVE Numbers(_)
Numbers(j) ==
  CASE Is(j, "number") -> {j.number}
    [] Is(j, "array")  -> UNION {Numbers(j.array[i]) : i \in DOMAIN j.array}
    [] Is(j, "object") -> UNION {Numbers(e[2]) : e \in j.object}
    [] OTHER           -> {}

LargeIntegersAreStrings ==
  \A v \in Scan(ctype) : Numbers(ToJSONValue(v, Show(ctype))) \cap {"int64", "uint64"} = {}
=============================================================================
