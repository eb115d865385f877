--------------------------- MODULE DartClientCodec ---------------------------
(***************************************************************************)
(* The models dart-codegen writes over the functions of arri_client's      *)
(* parsing.dart: fromJson, toJson and toUrlQueryParams.  nul says that the *)
(* field may be null.                                                      *)
(***************************************************************************)
EXTENDS ClientData

StringOf(nul, x) == IF x.t = "str" THEN x ELSE Fallback(nul, S(""))
BoolOf(nul, x) == IF x.t = "bool" THEN x ELSE Fallback(nul, B(FALSE))
\* A text that is no date throws, and a 64-bit integer that counts more milliseconds
\* than a date can.  The fallback is written isoZero.
DateTimeOf(nul, x) ==
  CASE x.t # "str" /\ ~ (x.t = "num" /\ InType("int64", x.n)) -> Fallback(nul, D("isoZero"))
    [] DateOf(x) = D("invalid") -> Thrown
    [] OTHER -> DateOf(x)
DoubleOf(nul, x) == IF x.t = "num" THEN x ELSE Fallback(nul, N("0"))
\* toInt cuts a fraction off and stops at the limits of 64 bits.  The range of
\* the type is not looked at.
Whole(n) == CASE n = "1.5" -> "1"
              [] Within(n, "2^63-1", "10^39") -> "2^63-1"
              [] Within(n, "-2^64", "-2^63") -> "-2^63"
              [] OTHER -> n
IntOf(nul, x) == IF x.t = "num" THEN N(Whole(x.n)) ELSE Fallback(nul, N("0"))
\* A text that is no integer throws.
BigIntOf(nul, x) ==
  CASE x.t = "str" -> IF x.s \in Integer THEN Big(x.s) ELSE Thrown
    [] x.t = "num" -> Big(IF x.n = "1.5" THEN "1" ELSE x.n)
    [] OTHER -> Fallback(nul, Big("0"))
Scalar(ty, nul, x) ==
  CASE ty = "string" -> StringOf(nul, x)
    [] ty = "boolean" -> BoolOf(nul, x)
    [] ty = "timestamp" -> DateTimeOf(nul, x)
    [] ty \in Floats -> DoubleOf(nul, x)
    [] ty \in Ints -> IntOf(nul, x)
    [] ty \in Bigs -> BigIntOf(nul, x)
EnumOf(s, nul, x) ==
  IF x.t = "str" THEN S(IF x.s \in s.enum THEN x.s ELSE s.first) ELSE Fallback(nul, S(s.first))
AnyOf(x) == IF x = Undef THEN Null ELSE x

RECURSIVE ReadAs(_, _, _), New(_)
NewStruct(s, tag) == O([k \in Names(s.req) |-> New(Where(s.req, k))] @@ tag)
NewUnion(s) == NewStruct(s.mapping[1][2], s.key :> S(s.mapping[1][1]))
New(s) == CASE s.nullable -> Null
            [] s.form = "properties" -> NewStruct(s, <<>>)
            [] s.form = "discriminator" -> NewUnion(s)
            [] s.form = "ref" -> New(Named[s.ref])
            [] OTHER -> ReadAs(s, FALSE, Undef)
\* An optional field that is null, of any type too, is not there.
ReadStruct(s, x, tag) ==
  LET opts == [k \in Names(s.opt) |-> ReadAs(Where(s.opt, k), TRUE, Get(x, k))]
  IN Present([k \in Names(s.req) |-> ReadAs(Where(s.req, k), FALSE, Get(x, k))] @@
             [k \in Names(s.opt) |-> IF opts[k] = Null THEN Undef ELSE opts[k]] @@ tag)
ReadUnion(s, x) ==
  LET v == Get(x, s.key)
  IN IF v.t = "str" /\ v.s \in Names(s.mapping) THEN ReadStruct(Where(s.mapping, v.s), x, s.key :> v)
     ELSE NewUnion(s)
ReadList(s, nul, x) ==
  IF x.t = "arr" THEN A([i \in DOMAIN x.items |-> ReadAs(s.elements, FALSE, x.items[i])])
  ELSE Fallback(nul, A(<<>>))
ReadMap(s, nul, x) ==
  IF x.t = "obj" THEN O([k \in Keys(x) |-> ReadAs(s.values, FALSE, Get(x, k))])
  ELSE Fallback(nul, O(<<>>))
ReadRef(s, nul, x) ==
  IF x.t = "obj" THEN ReadAs(Named[s.ref], FALSE, x) ELSE Fallback(nul, New(Named[s.ref]))
ReadAs(s, opt, x) ==
  LET nul == s.nullable \/ opt IN
  CASE s.form = "type" -> Scalar(s.type, nul, x)
    [] s.form = "enum" -> EnumOf(s, nul, x)
    [] s.form = "empty" -> AnyOf(x)
    [] s.form = "elements" -> ReadList(s, nul, x)
    [] s.form = "values" -> ReadMap(s, nul, x)
    [] s.form = "ref" -> ReadRef(s, nul, x)
    [] x.t # "obj" -> Fallback(nul, New(s))
    [] s.form = "properties" -> ReadStruct(s, x, <<>>)
    [] s.form = "discriminator" -> ReadUnion(s, x)
\* At the top what json.decode returns has to be a map.
Read(s, x) == IF x.t = "obj" THEN ReadAs(s, FALSE, x) ELSE Thrown

RECURSIVE Write(_, _)
WriteStruct(s, x, tag) ==
  LET ks == {k \in Names(AllFields(s)) : IsOptional(s, k) => Get(x, k) # Undef}
  IN O([k \in ks |-> Write(Where(AllFields(s), k), Get(x, k))] @@ tag)
WriteUnion(s, x) ==
  LET v == Get(x, s.key) IN WriteStruct(Where(s.mapping, v.s), x, s.key :> v)
\* json.encode throws on what is no number of JSON.
WriteScalar(x) == CASE x.t = "num" -> IF x.n \in {"NaN", "Infinity"} THEN Thrown ELSE x
                    [] x.t = "big" -> S(x.n)
                    [] x.t = "date" -> S(x.d)
                    [] OTHER -> x
Write(s, x) ==
  CASE x = Null -> Null
    [] s.form = "type" -> WriteScalar(x)
    [] s.form \in {"enum", "empty"} -> x
    [] s.form = "elements" -> A([i \in DOMAIN x.items |-> Write(s.elements, x.items[i])])
    [] s.form = "values" -> O([k \in Keys(x) |-> Write(s.values, Get(x, k))])
    [] s.form = "ref" -> Write(Named[s.ref], x)
    [] s.form = "properties" -> WriteStruct(s, x, <<>>)
    [] s.form = "discriminator" -> WriteUnion(s, x)

\* The text of a field goes into the query as it is.
QueryText(x) == Raw(Shown(x))
QueryFields(s, x, tag) ==
  LET ks == {k \in Filled(s, x) : Where(AllFields(s), k).form \in {"type", "enum"}}
  IN O([k \in ks |-> QueryText(Get(x, k))] @@ tag)
Query(s, x) ==
  IF s.form = "properties" THEN QueryFields(s, x, <<>>)
  ELSE LET v == Get(x, s.key) IN QueryFields(Where(s.mapping, v.s), x, s.key :> v)
===============================================================================
