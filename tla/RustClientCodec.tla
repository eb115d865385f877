--------------------------- MODULE RustClientCodec ---------------------------
(***************************************************************************)
(* The models rust-codegen writes: from_json, to_json_string and            *)
(* to_query_params_string.  nul says that the field is an Option.          *)
(***************************************************************************)
EXTENDS ClientData

StringOf(nul, x) == IF x.t = "str" THEN x ELSE Fallback(nul, S(""))
BooleanOf(nul, x) == IF x.t = "bool" THEN x ELSE Fallback(nul, B(FALSE))
\* A text that is no date counts as no text.
TimestampOf(nul, x) ==
  IF x.t = "str" /\ DateOf(x) # D("invalid") THEN DateOf(x) ELSE Fallback(nul, D("isoZero"))
\* as f32 rounds, and is infinite beyond the largest of them.
F32(nul, x) == IF x.t = "num" THEN N(Single(x.n)) ELSE Fallback(nul, N("0"))
F64(nul, x) == IF x.t = "num" THEN x ELSE Fallback(nul, N("0"))
\* mutant: the number is taken as it is
NarrowedUnchecked(ty, wide, nul, x) == IF x.t = "num" /\ InType(wide, x.n) THEN x ELSE Fallback(nul, N("0"))
\* as_i64 and as_u64 are None outside 64 bits, and try_from outside the type.
Narrowed(ty, wide, nul, x) ==
  IF x.t = "num" /\ InType(wide, x.n) /\ InType(ty, x.n) THEN x ELSE Fallback(nul, N("0"))
I8(nul, x) == Narrowed("int8", "int64", nul, x)
U8(nul, x) == Narrowed("uint8", "uint64", nul, x)
I16(nul, x) == Narrowed("int16", "int64", nul, x)
U16(nul, x) == Narrowed("uint16", "uint64", nul, x)
I32(nul, x) == Narrowed("int32", "int64", nul, x)
U32(nul, x) == Narrowed("uint32", "uint64", nul, x)
ParsedInt(ty, nul, x) == IF x.t = "str" /\ InType(ty, x.s) THEN Big(x.s) ELSE Fallback(nul, Big("0"))
I64(nul, x) == ParsedInt("int64", nul, x)
U64(nul, x) == ParsedInt("uint64", nul, x)
Scalar(ty, nul, x) ==
  CASE ty = "string" -> StringOf(nul, x)       [] ty = "boolean" -> BooleanOf(nul, x)
    [] ty = "timestamp" -> TimestampOf(nul, x) [] ty = "float32" -> F32(nul, x)
    [] ty = "float64" -> F64(nul, x)           [] ty = "int8" -> I8(nul, x)
    [] ty = "uint8" -> U8(nul, x)              [] ty = "int16" -> I16(nul, x)
    [] ty = "uint16" -> U16(nul, x)            [] ty = "int32" -> I32(nul, x)
    [] ty = "uint32" -> U32(nul, x)            [] ty = "int64" -> I64(nul, x)
    [] ty = "uint64" -> U64(nul, x)
\* A text that is none of the values is the first of them, of an Option too.
EnumOf(s, nul, x) ==
  IF x.t = "str" THEN (IF x.s \in s.enum THEN x ELSE S(s.first)) ELSE Fallback(nul, S(s.first))
AnyOf(opt, x) == IF x = Undef /\ ~ opt THEN Null ELSE x

RECURSIVE ReadAs(_, _, _), New(_)
NewStruct(s, tag) == O([k \in Names(s.req) |-> New(Where(s.req, k))] @@ tag)
\* The optional fields of a variant have the types of required ones.
NewVariant(s, tag) ==
  O([k \in Names(AllFields(s)) |-> New(Where(AllFields(s), k))] @@ tag)
New(s) == CASE s.nullable -> Null
            [] s.form = "properties" -> NewStruct(s, <<>>)
            [] s.form = "discriminator" -> NewVariant(s.mapping[1][2], s.key :> S(s.mapping[1][1]))
            [] s.form = "ref" -> New(Named[s.ref])
            [] OTHER -> ReadAs(s, FALSE, Undef)
ReadStruct(s, x) ==
  IF x.t # "obj" THEN NewStruct(s, <<>>)
  ELSE Present([k \in Names(s.req) |-> ReadAs(Where(s.req, k), FALSE, Get(x, k))] @@
               [k \in Names(s.opt) |-> Optional(Where(s.opt, k), ReadAs(Where(s.opt, k), TRUE, Get(x, k)))])
ReadUnion(s, x) ==
  LET v == Get(x, s.key)
      variant == Where(s.mapping, v.s)
  IN IF x.t = "obj" /\ v.t = "str" /\ v.s \in Names(s.mapping)
     THEN O([k \in Names(AllFields(variant)) |-> ReadAs(Where(AllFields(variant), k), FALSE, Get(x, k))]
            @@ (s.key :> v))
     ELSE New([s EXCEPT !.nullable = FALSE])
ReadVec(s, nul, x) ==
  IF x.t = "arr" THEN A([i \in DOMAIN x.items |-> ReadAs(s.elements, FALSE, x.items[i])])
  ELSE Fallback(nul, A(<<>>))
ReadMap(s, nul, x) ==
  IF x.t = "obj" THEN O([k \in Keys(x) |-> ReadAs(s.values, FALSE, Get(x, k))])
  ELSE Fallback(nul, O(<<>>))
\* A boxed value of what is no object is read all the same.
ReadRef(s, nul, x) ==
  IF nul /\ x.t # "obj" THEN Null ELSE ReadAs(Named[s.ref], FALSE, x)
ReadAs(s, opt, x) ==
  LET nul == s.nullable \/ opt IN
  CASE s.form = "type" -> Scalar(s.type, nul, x)
    [] s.form = "enum" -> EnumOf(s, nul, x)
    [] s.form = "empty" -> AnyOf(opt, x)
    [] s.form = "elements" -> ReadVec(s, nul, x)
    [] s.form = "values" -> ReadMap(s, nul, x)
    [] s.form = "ref" -> ReadRef(s, nul, x)
    [] nul /\ x.t # "obj" -> Null
    [] s.form = "properties" -> ReadStruct(s, x)
    [] s.form = "discriminator" -> ReadUnion(s, x)
Read(s, x) == ReadAs(s, FALSE, x)

RECURSIVE Write(_, _)
WriteStruct(s, x) ==
  LET ks == {k \in Names(AllFields(s)) : IsOptional(s, k) => Get(x, k) # Undef}
  IN O([k \in ks |-> Write(Where(AllFields(s), k), Get(x, k))])
WriteUnion(s, x) ==
  LET variant == Where(s.mapping, Get(x, s.key).s)
  IN O([k \in Names(AllFields(variant)) |-> Write(Where(AllFields(variant), k), Get(x, k))]
       @@ (s.key :> Get(x, s.key)))
Write(s, x) ==
  CASE x = Null -> Null
    [] s.form = "type" -> (CASE x.t = "num" -> WrittenNumber(x)
                             [] x.t = "big" -> S(x.n)
                             [] x.t = "date" -> S(x.d)
                             [] OTHER -> x)
    [] s.form \in {"enum", "empty"} -> x
    [] s.form = "elements" -> A([i \in DOMAIN x.items |-> Write(s.elements, x.items[i])])
    [] s.form = "values" -> O([k \in Keys(x) |-> Write(s.values, Get(x, k))])
    [] s.form = "ref" -> Write(Named[s.ref], x)
    [] s.form = "properties" -> WriteStruct(s, x)
    [] s.form = "discriminator" -> WriteUnion(s, x)

QueryText(x) == IF x = N("Infinity") THEN S("inf") ELSE Raw(Shown(x))
\* The text of a field goes into the query as it is; objects, vectors, maps and
\* values of any type are left out.
QueryFields(s, x, tag) ==
  LET ks == {k \in Filled(s, x) : Where(AllFields(s), k).form \in {"type", "enum"}}
  IN O([k \in ks |-> QueryText(Get(x, k))] @@ tag)
\* The optional fields of a variant never get there.
Query(s, x) ==
  IF s.form = "properties" THEN QueryFields(s, x, <<>>)
  ELSE LET v == Get(x, s.key)
       IN QueryFields([Where(s.mapping, v.s) EXCEPT !.opt = <<>>], x, s.key :> v)
===============================================================================
