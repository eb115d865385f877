------------------------------- MODULE MCGoWire -------------------------------
(* Types of every kind, and documents at the edges of each. *)
EXTENDS GoWire

Tree == StructOf("Tree", <<Tagged(Field("Kind", Kind("int8")), "v", <<>>),
                           Tagged(Field("Next", Ptr(StructRef("Tree"))), "next", <<>>)>>)
MCStructs == [Tree |-> Tree]
MCNamed == [n \in DOMAIN MCStructs |-> ToTypeDef(MCStructs[n], "CAMEL_CASE")]

One(t) == StructOf("One", <<Field("Kind", t)>>)
Two(s, t) == StructOf("Two", <<Field("Kind", s), Field("MaxAge", t)>>)
Opt(s, t) == StructOf("Opt", <<Field("Kind", s), OptField("MaxAge", t)>>)
EnumField == Tagged(Field("Kind", Kind("string")), "", <<"a", "b">>)
Shape == UnionOf("Shape", "type", << <<"x", StructOf("X", <<Field("MaxAge", Kind("int8"))>>)>>,
                                     <<"y", StructOf("Y", <<Field("Next", Slice(Kind("string")))>>)>> >>)
NullShape == UnionOf("NullShape", "type", << <<"x", StructOf("X", <<Field("MaxAge", NullableOf(Kind("int8")))>>)>> >>)
MCTypes ==
  {One(Kind(k)) : k \in Ints \cup Bigs \cup {"string", "boolean", "timestamp", "float64", "float32", "any"}} \cup
  {Two(NullableOf(Kind("int8")), Ptr(One(Kind("string")))), Two(Kind("uint64"), NullableOf(Kind("boolean"))),
   Two(Slice(Kind("int8")), GoMap(Kind("boolean"))), Two(Slice(Slice(Kind("boolean"))), Kind("string")),
   Two(Ordered(Kind("int8")), Slice(One(Slice(Kind("string"))))),
   Opt(Kind("int8"), Kind("string")), Opt(NullableOf(Kind("string")), Slice(Kind("string"))), Opt(Shape, Kind("any")),
   Opt(Kind("timestamp"), Kind("boolean")),
   StructOf("E", <<EnumField, OptField("MaxAge", Kind("int8"))>>),
   StructOf("K", <<Tagged(Field("Kind", Kind("int8")), "named", <<>>)>>),
   StructOf("L", <<Field("Old_Name", Kind("string"))>>), StructOf("None", <<>>),
   StructOf("", <<Field("Kind", StructOf("", <<EnumField>>))>>),
   StructOf("T", <<Tagged(Field("Kind", Slice(Kind("string"))), "", <<"a", "b">>)>>),
   Tree, Shape, NullShape, Slice(Shape), Slice(Kind("boolean")), NullableOf(Tree), GoMap(Slice(Kind("int8")))}

Scalars == {Null, B(TRUE), N("-1"), N("1"), N("128"), N("256"), N("2^31"), N("2^64"), N("1.5"), S("1"), S("a"), S("c"), S(""),
            S("isoText"), S("isoOffset"), S("-1"), S("2^63"), S("2^64")}
Nested == {A(<<>>), A(<<S("a")>>), A(<<S("c")>>), A(<<N("1"), N("-1")>>), A(<<B(TRUE), B(TRUE), B(TRUE), B(TRUE)>>), O(<<>>),
           O([a |-> N("1")]), O([a |-> B(TRUE)]), A(<<A(<<B(TRUE)>>), A(<<>>)>>), A(<<Null>>)}
Keyed(x) == {O([kind |-> x]), O([Kind |-> x]), O([kind |-> x, maxAge |-> S("a")]),
             O([kind |-> x, max_age |-> B(TRUE)])}
MCDocuments == Scalars \cup Nested \cup UNION {Keyed(x) : x \in Scalars \cup Nested} \cup
  {O([type |-> S("y"), next |-> A(<<>>), maxAge |-> N("1")]), O([type |-> S("x"), maxAge |-> N("1")]), O([type |-> S("x")]), O([type |-> S("y"), next |-> A(<<S("a")>>)]),
   O([type |-> S("z")]), A(<<O([type |-> S("y"), next |-> A(<<>>)]), O([type |-> S("x"), maxAge |-> N("1")])>>),
   O([v |-> N("1"), next |-> Null]), O([v |-> N("1"), next |-> O([v |-> N("1"), next |-> Null])]),
   O([v |-> N("1"), next |-> O([v |-> N("1")])]), O([named |-> N("1")]), O([Old_Name |-> S("a")]), O([oldName |-> S("a")]),
   O([kind |-> Null, maxAge |-> O([kind |-> S("a")])]), O([kind |-> B(TRUE), maxAge |-> A(<<>>)]), O([kind |-> O([kind |-> S("a")])]), O([kind |-> S("2^63"), maxAge |-> Null]),
   O([kind |-> O([a |-> N("1")]), maxAge |-> A(<<O([kind |-> A(<<>>)])>>)]), O([a |-> A(<<N("1")>>)]),
   O([kind |-> O([type |-> S("x"), maxAge |-> N("1")]), maxAge |-> N("1.5")]),
   O([kind |-> A(<<N("1")>>), maxAge |-> O([a |-> B(TRUE)])]), O([kind |-> A(<<A(<<B(TRUE)>>)>>), maxAge |-> S("a")])}
MCQueries == {O(<<>>)} \cup UNION {{O([kind |-> x]), O([kind |-> x, maxAge |-> S("a")]), O([kind |-> x, maxAge |-> S("")]), O([kind |-> x, max_age |-> S("1")])} :
   x \in {S(s) : s \in {"", "1", "-1", "256", "1.5", "a", "true", "TRUE", "null", "NULL", "Null", "NaN", "Infinity", "2^63", "2^64", "isoText", "isoOffset"}}}
Many(n, x) == A([i \in 1..n |-> x])
MCHanded(T) == {Zero(T)} \cup
  (IF T = Two(Ordered(Kind("int8")), Slice(One(Slice(Kind("string")))))
   THEN {O([Kind |-> O(<<>>), MaxAge |-> Many(n, O([Kind |-> Nil]))]) : n \in 1..6} ELSE {})
===============================================================================
