---------------------------- MODULE MCClientWire ----------------------------
(* The models of the reference client, and a few of the forms it lacks.     *)
(* The documents of a schema are a good one, and that one with each of its *)
(* parts in turn missing, null or replaced.                                *)
EXTENDS ClientWire

R == INSTANCE ReferenceModels

MCNamed == [RecursiveObject |-> R!RecursiveObject]
Flats(fields) == {Struct("", fields, <<>>, FALSE), Struct("", <<>>, fields, FALSE),
                  Struct("", R!AllNullable(fields), <<>>, FALSE)}
Part == Struct("", << <<"a", Type("string")>> >>, << <<"b", Type("int8")>> >>, FALSE)
Other == Struct("", << <<"n", Type("boolean")>> >>, <<>>, FALSE)
One(s) == Struct("", << <<"f", s>> >>, <<>>, FALSE)
MCSchemas ==
  Flats(R!Scalars) \cup {Struct("", <<>>, R!AllNullable(R!Scalars), FALSE)} \cup
  {R!Book, R!NestedObject, R!Discriminator, R!ObjectWithEveryType, R!ObjectWithOptionalFields,
   R!ObjectWithNullableFields, R!RecursiveObject,
   Union("kind", << <<"x", Part>>, <<"y", Other>> >>), Union("type_name", << <<"x", Other>>, <<"y", Part>> >>),
   One(List(Part)), One(Record(Part)), One(List(List(Nullable(Type("string"))))), One(Record(Record(Type("string")))),
   Struct("", <<>>, R!AllNullable(R!EveryType), FALSE)}

Edges(ty) == {N(Limits[ty][1]), N(Limits[ty][2]), N("1.5"), S("1"), B(TRUE),
              CHOOSE n \in {N(Landmark[i]) : i \in DOMAIN Landmark} : Rank[n.n] = Rank[Limits[ty][2]] + 1}
Tries(ty) == CASE ty = "string" -> {S("a"), S(""), S("a&b"), S("null"), N("1"), B(TRUE)}
               [] ty = "boolean" -> {B(TRUE), B(FALSE), S("true"), N("1")}
               [] ty = "timestamp" -> {S("isoText"), S("isoOffset"), S("a"), N("1"), N("1.5"), N("2^53"), N("2^64")}
               [] ty \in Floats -> {N("1"), N("1.5"), N("2^31-1"), N("2^64"), N("10^39"), S("1.5"), S("NaN"), B(TRUE)}
               [] ty \in Ints -> Edges(ty)
               [] ty \in Bigs -> {S(Limits[ty][1]), S(Limits[ty][2]), S("2^64"), S("-2^63-1"), S("-1"), S("a"), N("1"), N("1.5"), B(TRUE)}
Good(ty) == CASE ty = "string" -> S("a") [] ty = "boolean" -> B(TRUE) [] ty = "timestamp" -> S("isoText")
              [] ty \in Floats -> N("1.5") [] ty \in Ints -> N("1") [] ty \in Bigs -> S("2^53")
RECURSIVE Sample(_), Variants(_)
Fields0(s) == s.req \o s.opt
SampleStruct(s, tag) == [k \in Names(Fields0(s)) |-> Sample(Where(Fields0(s), k))] @@ tag
Sample(s) == CASE s.form = "type" -> Good(s.type)
               [] s.form = "enum" -> S(s.first)
               [] s.form = "empty" -> O([a |-> N("1")])
               [] s.form = "elements" -> A(<<Sample(s.elements)>>)
               [] s.form = "values" -> O([a |-> Sample(s.values)])
               [] s.form = "ref" -> Null
               [] s.form = "properties" -> O(SampleStruct(s, <<>>))
               [] s.form = "discriminator" -> O(SampleStruct(s.mapping[1][2], s.key :> S(s.mapping[1][1])))
Replaced(s, tag) ==
  UNION {LET f == SampleStruct(s, tag) IN {Present((k :> v) @@ f) : v \in Variants(Where(Fields0(s), k))}
         : k \in Names(Fields0(s))} \cup {O(SampleStruct(s, tag)), O([unknown |-> N("1")] @@ SampleStruct(s, tag)), O(tag)}
Variants(s) == {Null, Undef, S("a")} \cup
  CASE s.form = "type" -> Tries(s.type)
    [] s.form = "enum" -> {S(v) : v \in s.enum} \cup {S("foo"), N("1"), B(TRUE)}
    [] s.form = "empty" -> {N("1.5"), S("null"), A(<<Null>>)}
    [] s.form = "elements" -> {A(<<>>)} \cup {A(<<v, Sample(s.elements)>>) : v \in Variants(s.elements) \ {Undef}}
    [] s.form = "values" -> {O(<<>>)} \cup {O([a |-> v]) : v \in Variants(s.values) \ {Undef}}
    [] s.form = "ref" -> LET leaf == Sample(Named[s.ref]) IN {leaf, O([left |-> leaf, right |-> S("a")])}
    [] s.form = "properties" -> Replaced(s, <<>>)
    [] s.form = "discriminator" ->
         UNION {Replaced(p[2], s.key :> S(p[1])) : p \in ToSet(s.mapping)} \cup {O(<<>>), O(s.key :> S("unknown"))}
MCDocuments(s) == (Variants(s) \ {Undef}) \cup {A(<<>>)}
=============================================================================
