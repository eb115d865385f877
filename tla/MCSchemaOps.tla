----------------------------- MODULE MCSchemaOps -----------------------------
(* Small schemas of every form, and values at the edges of each. *)
EXTENDS SchemaOps

Scalars == {Type(ty) : ty \in {"string", "boolean", "timestamp", "float32", "float64", "int8",
    "uint8", "int16", "uint16", "int32", "uint32", "int64", "uint64"}} \cup {Enum({"a", "b"}), AnyS}
Tree == Struct("Tree", << <<"v", Type("int8")>>, <<"next", Nullable(Ref("Tree"))>> >>, <<>>, FALSE)
Forest == Struct("Forest", <<>>, << <<"kids", List(Ref("Forest"))>> >>, FALSE)
MCNamed == [Tree |-> Tree, Forest |-> Forest]

Pair(a, b) == Struct("", << <<"a", a>>, <<"b", b>> >>, <<>>, FALSE)
Shape(strict) == Union("kind", << <<"x", Struct("", << <<"a", Type("int8")>> >>, <<>>, strict)>>,
                                  <<"y", Struct("", <<>>, << <<"b", Type("string")>> >>, strict)>> >>)
Composites ==
  {List(Type("int8")), List(AnyS), List(List(Type("boolean"))), Record(Type("int8")), Record(AnyS),
   Record(Type("int64")), Record(Type("string")), Record(Record(Type("int8"))),
   Pair(Type("int8"), Type("string")), Pair(AnyS, Type("boolean")), Pair(Type("timestamp"), Type("float64")), Pair(Type("timestamp"), Type("string")),
   Pair(Nullable(Type("int64")), Type("boolean")), Pair(Type("int64"), Type("uint64")),
   Pair(Nullable(Type("string")), Nullable(Enum({"a", "b"}))),
   Struct("", << <<"a", Type("int8")>> >>, << <<"b", Type("boolean")>> >>, TRUE),
   Struct("", <<>>, << <<"a", Type("string")>>, <<"b", Record(Type("boolean"))>> >>, FALSE),
   Pair(Record(Type("boolean")), List(Type("string"))),
   Shape(TRUE), Shape(FALSE), List(Shape(FALSE)), Tree, Forest, List(Tree), Record(Tree),
   Struct("", << <<"t", Tree>> >>, <<>>, FALSE), Nullable(List(Type("int8"))),
   Extend(Struct("", << <<"a", Type("int8")>> >>, <<>>, FALSE),
          Struct("", << <<"b", Type("boolean")>> >>, <<>>, FALSE), TRUE),
   Partial(Nullable(Pair(Type("int8"), Type("boolean")))),
   Pick(Pair(Type("int8"), Type("boolean")), {"a"}, TRUE), List(Pick(Pair(Type("int8"), Type("string")), {"a", "b"}, FALSE)),
   List(List(List(Record(Type("int8"))))),
   Omit(Nullable(Pair(Type("int8"), Type("boolean"))), {"a"}, FALSE)}
MCSchemas == Scalars \cup {Nullable(s) : s \in Scalars \ {AnyS}} \cup Composites

Simple == {Undef, Null, B(TRUE), N("1"), N("-129"), N("256"), N("32767"), N("65536"), N("2^31"), N("2^32"), N("1.5"), N("NaN"), N("Infinity"), N("2^64"), Big("1"), Big("-1"), Big("2^63"), Big("2^64"),
           S(""), S("1"), S("a"), S("true"), S("TRUE"), S("null"), S("undefined"), S("isoText"), S("2^63"),
           D("isoText"), D("invalid")}
Bodies == {A(<<>>), A(<<N("1")>>), A(<<N("128")>>), A(<<B(TRUE), Undef>>), A(<<Undef>>), A(<<A(<<B(TRUE)>>)>>), O(<<>>),
  O([a |-> N("1")]), O([a |-> N("1"), b |-> B(TRUE)]), O([a |-> N("1"), b |-> S("a")]), O([a |-> S("a"), b |-> S("a")]),
  O([a |-> S("1")]), A(<<O([a |-> S("1"), b |-> S("a")])>>), O([a |-> S("1"), b |-> S("true")]), O([a |-> S("isoText"), b |-> N("1.5")]), O([a |-> S("a"), b |-> N("1")]),
  O([a |-> D("isoText"), b |-> N("1.5")]), O([a |-> D("isoText"), b |-> N("Infinity")]), O([b |-> B(TRUE)]), O([b |-> S("undefined")]),
  O([a |-> Big("1"), b |-> Big("2^64")]), O([a |-> Big("2^63"), b |-> B(FALSE)]), O([a |-> S("null"), b |-> S("null")]),
  O([a |-> Null, b |-> Null]), O([a |-> Big("1"), b |-> S("a")]), O([a |-> N("1"), c |-> N("1")]),
  O([longKey |-> N("1")]), O([longKey |-> S("a")]), O([a |-> O([b |-> N("1")])]),
  O([a |-> O([b |-> B(TRUE)]), b |-> A(<<S("a")>>)]), O([b |-> O([a |-> B(TRUE)])]),
  O([kind |-> S("x"), a |-> N("1")]), O([kind |-> S("x"), a |-> N("1"), b |-> N("1")]), O([kind |-> S("y")]),
  O([kind |-> S("z")]), A(<<O([kind |-> S("y"), b |-> S("a")])>>)}
Leaf == O([v |-> N("1"), next |-> Null])
Above(t) == O([v |-> N("1"), next |-> t])
\* The second is written and not read back within a limit of 3, the third not written.
Trees == {Leaf, Above(Leaf), Above(Above(Leaf)), Above(Above(Above(Above(Leaf)))), O([a |-> O([b |-> Above(Leaf)])]), A(<<Leaf>>),
          A(<<A(<<A(<<O([a |-> N("1")])>>)>>)>>), O([a |-> Leaf]), O([t |-> Leaf]),
          O([kids |-> A(<<O(<<>>)>>)])}
MCInputs == Simple \cup Bodies \cup Trees \cup {Text(Stringify(x)) : x \in {y \in Bodies \cup Trees : ~ Broken(Stringify(y))}}
            \cup {Text(Bad)}
==============================================================================
