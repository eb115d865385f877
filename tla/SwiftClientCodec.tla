--------------------------- MODULE SwiftClientCodec ---------------------------
(***************************************************************************)
(* The models swift-codegen writes over SwiftyJSON: init(json:),           *)
(* toJSONString and toURLQueryParts.  An optional field asks whether the   *)
(* key exists, a nullable one whether the value has the type.              *)
(***************************************************************************)
EXTENDS ClientData

\* What is not of the type: nothing to a nullable field, and to an optional one.
Other(s, opt, v) == IF opt \/ s.nullable THEN Null ELSE v
\* The same, but an optional field that exists, if only as null, has the value v.
OrExisting(s, opt, x, v) ==
  IF opt THEN (IF x = Undef THEN Null ELSE v) ELSE IF s.nullable THEN Null ELSE v

StringOf(s, opt, x) == IF x.t = "str" THEN x ELSE Other(s, opt, S(""))
BoolOf(s, opt, x) == IF x.t = "bool" THEN x ELSE Other(s, opt, B(FALSE))
\* A text that is no date is the date of now, which is written isoZero here.
DateFrom(s, opt, x) ==
  IF x.t = "str" THEN (IF DateOf(x) = D("invalid") THEN D("isoZero") ELSE DateOf(x))
  ELSE OrExisting(s, opt, x, D("isoZero"))
\* A boolean is a number too.  A number out of range keeps its low bits, for
\* which 0 stands; a 32-bit float is rounded.
NumberFrom(s, opt, x) ==
  LET n == IF x.t = "bool" THEN (IF x.b THEN "1" ELSE "0") ELSE x.n
  IN CASE x.t \notin {"num", "bool"} -> Other(s, opt, N("0"))
       [] s.type = "float32" -> N(Single(n))
       [] s.type = "float64" \/ InType(s.type, n) -> N(n)
       [] OTHER -> N("0")
\* mutant: every large integer is read as a signed one
LargeIntOfSigned(s, opt, x) ==
  IF x.t = "str" THEN (IF InType("int64", x.s) THEN Big(x.s) ELSE Other(s, opt, Big("0")))
  ELSE OrExisting(s, opt, x, Big("0"))
LargeIntOf(s, opt, x) ==
  IF x.t = "str" THEN (IF InType(s.type, x.s) THEN Big(x.s) ELSE Other(s, opt, Big("0")))
  ELSE OrExisting(s, opt, x, Big("0"))
Scalar(s, opt, x) ==
  CASE s.type = "string" -> StringOf(s, opt, x)
    [] s.type = "boolean" -> BoolOf(s, opt, x)
    [] s.type = "timestamp" -> DateFrom(s, opt, x)
    [] s.type \in Bigs -> LargeIntOf(s, opt, x)
    [] OTHER -> NumberFrom(s, opt, x)
EnumOf(s, opt, x) ==
  IF x.t = "str" THEN S(IF x.s \in s.enum THEN x.s ELSE s.first)
  ELSE OrExisting(s, opt, x, S(s.first))
AnyOf(opt, x) == IF x = Undef /\ ~ opt THEN Null ELSE x

\* A variant that cannot be made without another of its kind is no default.
RequiresRef(s) == \E k \in Names(s.req) : Where(s.req, k).form = "ref" /\ ~ Where(s.req, k).nullable
DefaultPart(s) ==
  s.mapping[CHOOSE i \in DOMAIN s.mapping : ~ RequiresRef(s.mapping[i][2])
              /\ \A j \in 1..(i - 1) : RequiresRef(s.mapping[j][2])]
RECURSIVE ReadAs(_, _, _), New(_)
NewStruct(s, tag) == O([k \in Names(s.req) |-> New(Where(s.req, k))] @@ tag)
NewUnion(s) == NewStruct(DefaultPart(s)[2], s.key :> S(DefaultPart(s)[1]))
New(s) == CASE s.nullable -> Null
            [] s.form = "properties" -> NewStruct(s, <<>>)
            [] s.form = "discriminator" -> NewUnion(s)
            [] s.form = "ref" -> New(Named[s.ref])
            [] OTHER -> ReadAs(s, FALSE, Undef)
ReadStruct(s, x, tag) ==
  Present([k \in Names(s.req) |-> ReadAs(Where(s.req, k), FALSE, Get(x, k))] @@
          [k \in Names(s.opt) |-> Optional(Where(s.opt, k), ReadAs(Where(s.opt, k), TRUE, Get(x, k)))] @@ tag)
ReadUnion(s, x) ==
  LET v == Get(x, s.key)
  IN IF v.t = "str" /\ v.s \in Names(s.mapping) THEN ReadStruct(Where(s.mapping, v.s), x, s.key :> v)
     ELSE NewUnion(s)
ReadArray(s, opt, x) ==
  IF x.t = "arr" THEN A([i \in DOMAIN x.items |-> ReadAs(s.elements, FALSE, x.items[i])])
  ELSE OrExisting(s, opt, x, A(<<>>))
ReadDictionary(s, opt, x) ==
  IF x.t = "obj" THEN O([k \in Keys(x) |-> ReadAs(s.values, FALSE, Get(x, k))])
  ELSE OrExisting(s, opt, x, O(<<>>))
ReadRef(s, opt, x) ==
  IF x.t = "obj" THEN ReadAs(Named[s.ref], FALSE, x) ELSE OrExisting(s, opt, x, New(Named[s.ref]))
ReadAs(s, opt, x) ==
  CASE s.form = "type" -> Scalar(s, opt, x)
    [] s.form = "enum" -> EnumOf(s, opt, x)
    [] s.form = "empty" -> AnyOf(opt, x)
    [] s.form = "elements" -> ReadArray(s, opt, x)
    [] s.form = "values" -> ReadDictionary(s, opt, x)
    [] s.form = "ref" -> ReadRef(s, opt, x)
    [] x.t # "obj" -> OrExisting(s, opt, x, New([s EXCEPT !.nullable = FALSE]))
    [] s.form = "properties" -> ReadStruct(s, x, <<>>)
    [] s.form = "discriminator" -> ReadUnion(s, x)
Read(s, x) == ReadAs(s, FALSE, x)

WriteScalar(x) == CASE x.t = "num" -> WrittenNumber(x)
                    [] x.t = "big" -> S(x.n)
                    [] x.t = "date" -> S(x.d)
                    [] OTHER -> x
RECURSIVE Write(_, _)
WriteStruct(s, x, tag) ==
  LET ks == {k \in Names(AllFields(s)) : IsOptional(s, k) => Get(x, k) # Undef}
  IN O([k \in ks |-> Write(Where(AllFields(s), k), Get(x, k))] @@ tag)
WriteUnion(s, x) ==
  LET v == Get(x, s.key) IN WriteStruct(Where(s.mapping, v.s), x, s.key :> v)
Write(s, x) ==
  CASE x = Null -> Null
    [] s.form = "type" -> WriteScalar(x)
    [] s.form \in {"enum", "empty"} -> x
    [] s.form = "elements" -> A([i \in DOMAIN x.items |-> Write(s.elements, x.items[i])])
    [] s.form = "values" -> O([k \in Keys(x) |-> Write(s.values, Get(x, k))])
    [] s.form = "ref" -> Write(Named[s.ref], x)
    [] s.form = "properties" -> WriteStruct(s, x, <<>>)
    [] s.form = "discriminator" -> WriteUnion(s, x)

QueryText(x) == IF x = N("Infinity") THEN S("inf") ELSE Shown(x)
\* mutant: query items are put together as they are
QueryFieldsRaw(s, x, tag) ==
  LET ks == {k \in Filled(s, x) : Where(AllFields(s), k).form \in {"type", "enum"}}
  IN O([k \in ks |-> Raw(QueryText(Get(x, k)))] @@ tag)
\* Query items are percent encoded.
QueryFields(s, x, tag) ==
  LET ks == {k \in Filled(s, x) : Where(AllFields(s), k).form \in {"type", "enum"}}
  IN O([k \in ks |-> QueryText(Get(x, k))] @@ tag)
Query(s, x) ==
  IF s.form = "properties" THEN QueryFields(s, x, <<>>)
  ELSE LET v == Get(x, s.key) IN QueryFields(Where(s.mapping, v.s), x, s.key :> v)
===============================================================================
