-------------------------- MODULE KotlinClientCodec --------------------------
(***************************************************************************)
(* The models kotlin-codegen writes: fromJsonElement, toJson and           *)
(* toUrlQueryParams.  A scalar is read from the content of a JSON          *)
(* primitive, which is the text of a string, a number or a boolean.        *)
(* nul says that the field may be null.                                    *)
(***************************************************************************)
EXTENDS ClientData

Content(x) == IF x.t \in {"str", "num", "bool"} THEN Shown(x).s ELSE "no content"
StringOf(nul, x) == IF x.t \in {"str", "num", "bool"} THEN S(Content(x)) ELSE Fallback(nul, S(""))
BooleanOf(nul, x) ==
  IF Content(x) \in {"true", "false"} THEN B(Content(x) = "true") ELSE Fallback(nul, B(FALSE))
\* A text that is no date throws.  The date of now is written isoZero.
TimestampOf(nul, x) ==
  CASE x.t # "str" -> Fallback(nul, D("isoZero"))
    [] DateOf(x) = D("invalid") -> Thrown
    [] OTHER -> DateOf(x)
IsFloat(x) == Content(x) \in Number \cup {"NaN", "Infinity"}
\* floatOrNull rounds to 32 bits.
Float32(nul, x) == IF IsFloat(x) THEN N(Single(Content(x))) ELSE Fallback(nul, N("0"))
Float64(nul, x) == IF IsFloat(x) THEN N(Content(x)) ELSE Fallback(nul, N("0"))
IntOf(ty, nul, x) == IF InType(ty, Content(x)) THEN N(Content(x)) ELSE Fallback(nul, N("0"))
Int8(nul, x) == IntOf("int8", nul, x)
Int16(nul, x) == IntOf("int16", nul, x)
Int32(nul, x) == IntOf("int32", nul, x)
Uint8(nul, x) == IntOf("uint8", nul, x)
Uint16(nul, x) == IntOf("uint16", nul, x)
Uint32(nul, x) == IntOf("uint32", nul, x)
\* mutant: toLong instead of toLongOrNull
LongOfAnyText(ty, nul, x) ==
  CASE x.t \notin {"str", "num", "bool"} -> Fallback(nul, Big("0"))
    [] InType(ty, Content(x)) -> Big(Content(x))
    [] OTHER -> Thrown
LongOf(ty, nul, x) == IF InType(ty, Content(x)) THEN Big(Content(x)) ELSE Fallback(nul, Big("0"))
Int64(nul, x) == LongOf("int64", nul, x)
Uint64(nul, x) == LongOf("uint64", nul, x)
Scalar(ty, nul, x) ==
  CASE ty = "string" -> StringOf(nul, x)       [] ty = "boolean" -> BooleanOf(nul, x)
    [] ty = "timestamp" -> TimestampOf(nul, x) [] ty = "float32" -> Float32(nul, x)
    [] ty = "float64" -> Float64(nul, x)       [] ty = "int8" -> Int8(nul, x)
    [] ty = "uint8" -> Uint8(nul, x)           [] ty = "int16" -> Int16(nul, x)
    [] ty = "uint16" -> Uint16(nul, x)         [] ty = "int32" -> Int32(nul, x)
    [] ty = "uint32" -> Uint32(nul, x)         [] ty = "int64" -> Int64(nul, x)
    [] ty = "uint64" -> Uint64(nul, x)
EnumOf(s, nul, x) ==
  IF x.t \in {"str", "num", "bool"} THEN S(IF Content(x) \in s.enum THEN Content(x) ELSE s.first)
  ELSE Fallback(nul, S(s.first))
AnyOf(opt, x) == IF x = Undef /\ ~ opt THEN Null ELSE x

RECURSIVE ReadAs(_, _, _), New(_)
NewStruct(s, tag) == O([k \in Names(s.req) |-> New(Where(s.req, k))] @@ tag)
NewUnion(s) == NewStruct(s.mapping[1][2], s.key :> S(s.mapping[1][1]))
New(s) == CASE s.nullable -> Null
            [] s.form = "properties" -> NewStruct(s, <<>>)
            [] s.form = "discriminator" -> NewUnion(s)
            [] s.form = "ref" -> New(Named[s.ref])
            [] OTHER -> ReadAs(s, FALSE, Undef)
ReadStruct(s, x, tag) ==
  Present([k \in Names(s.req) |-> ReadAs(Where(s.req, k), FALSE, Get(x, k))] @@
          [k \in Names(s.opt) |-> Optional(Where(s.opt, k), ReadAs(Where(s.opt, k), TRUE, Get(x, k)))] @@ tag)
ReadUnion(s, x) ==
  LET v == Content(Get(x, s.key))
  IN IF v \in Names(s.mapping) THEN ReadStruct(Where(s.mapping, v), x, s.key :> S(v)) ELSE NewUnion(s)
ReadList(s, nul, x) ==
  IF x.t = "arr" THEN A([i \in DOMAIN x.items |-> ReadAs(s.elements, FALSE, x.items[i])])
  ELSE Fallback(nul, A(<<>>))
ReadMap(s, nul, x) ==
  IF x.t = "obj" THEN O([k \in Keys(x) |-> ReadAs(s.values, FALSE, Get(x, k))])
  ELSE Fallback(nul, O(<<>>))
ReadRef(s, nul, x) ==
  IF x.t = "obj" THEN ReadAs(Named[s.ref], FALSE, x) ELSE Fallback(nul, New(Named[s.ref]))
ReadAs(s, opt, x) ==
  LET nul == s.nullable \/ opt IN
  CASE s.form = "type" -> Scalar(s.type, nul, x)
    [] s.form = "enum" -> EnumOf(s, nul, x)
    [] s.form = "empty" -> AnyOf(opt, x)
    [] s.form = "elements" -> ReadList(s, nul, x)
    [] s.form = "values" -> ReadMap(s, nul, x)
    [] s.form = "ref" -> ReadRef(s, nul, x)
    [] x.t # "obj" -> Fallback(nul, New(s))
    [] s.form = "properties" -> ReadStruct(s, x, <<>>)
    [] s.form = "discriminator" -> ReadUnion(s, x)
Read(s, x) == ReadAs(s, FALSE, x)

WriteScalar(x) == CASE x.t = "num" -> WrittenNumber(x)
                    [] x.t = "big" -> S(x.n)
                    [] x.t = "date" -> S(x.d)
                    [] OTHER -> x
RECURSIVE Write(_, _)
WriteStruct(s, x, tag) ==
  LET ks == {k \in Names(AllFields(s)) : IsOptional(s, k) => Get(x, k) # Undef}
  IN O([k \in ks |-> Write(Where(AllFields(s), k), Get(x, k))] @@ tag)
WriteUnion(s, x) ==
  LET v == Get(x, s.key) IN WriteStruct(Where(s.mapping, v.s), x, s.key :> v)
Write(s, x) ==
  CASE x = Null -> Null
    [] s.form = "type" -> WriteScalar(x)
    [] s.form \in {"enum", "empty"} -> x
    [] s.form = "elements" -> A([i \in DOMAIN x.items |-> Write(s.elements, x.items[i])])
    [] s.form = "values" -> O([k \in Keys(x) |-> Write(s.values, Get(x, k))])
    [] s.form = "ref" -> Write(Named[s.ref], x)
    [] s.form = "properties" -> WriteStruct(s, x, <<>>)
    [] s.form = "discriminator" -> WriteUnion(s, x)

\* The text of a field goes into the query as it is; an absent one is left out.
QueryText(x) == Raw(Shown(x))
QueryFields(s, x, tag) ==
  LET ks == {k \in Filled(s, x) : Where(AllFields(s), k).form \in {"type", "enum"}}
  IN O([k \in ks |-> QueryText(Get(x, k))] @@ tag)
Query(s, x) ==
  IF s.form = "properties" THEN QueryFields(s, x, <<>>)
  ELSE LET v == Get(x, s.key) IN QueryFields(Where(s.mapping, v.s), x, s.key :> v)
===============================================================================
