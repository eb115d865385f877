---------------------------- MODULE TsClientCodec ----------------------------
(***************************************************************************)
(* The models ts-codegen writes into a TypeScript client: for a schema, the *)
(* statements that validate a value, read it from a parsed document, write *)
(* it as JSON and put it into a query string.  Thrown is an exception.     *)
(***************************************************************************)
EXTENDS ClientData

Epoch == D("isoZero")

ReadInt(ty, x) == IF x.t = "num" /\ InType(ty, x.n) THEN x ELSE N("0")
\* The range is not looked at, but for the sign; a text that is no integer throws.
ReadBigInt(ty, x) ==
  LET n == BigOf(x)
  IN CASE x.t \notin {"num", "str"} -> Big("0")
       [] n = "NaN" -> Thrown
       [] ty = "uint64" /\ Within(n, "-2^64", "-1") -> Big("0")
       [] OTHER -> Big(n)
ReadScalar(s, x) ==
  CASE s.type = "string" -> IF x.t = "str" THEN x ELSE S("")
    [] s.type = "boolean" -> IF x.t = "bool" THEN x ELSE B(FALSE)
    [] s.type = "timestamp" -> IF x.t = "str" THEN DateOf(x) ELSE Epoch
    [] s.type \in Floats -> IF x.t = "num" THEN x ELSE N("0")
    [] s.type \in Ints -> ReadInt(s.type, x)
    [] s.type \in Bigs -> ReadBigInt(s.type, x)
\* What is not of the type is null to a nullable scalar.
OfType(ty, x) ==
  CASE ty \in {"string", "timestamp"} -> x.t = "str"
    [] ty = "boolean" -> x.t = "bool"
    [] ty \in Floats -> x.t = "num"
    [] ty \in Ints -> x.t = "num" /\ InType(ty, x.n)
    [] ty = "int64" -> x.t \in {"num", "str"}
    [] ty = "uint64" -> x.t \in {"num", "str"} /\ ~ Within(BigOf(x), "-2^64", "-1")
ReadNullable(s, x) == IF OfType(s.type, x) THEN ReadScalar(s, x) ELSE Null
\* A text in other letters stands for the value, any other for the first.
ReadEnum(s, x) ==
  CASE x.t # "str" -> IF s.nullable THEN Null ELSE S(s.first)
    [] x.s \in s.enum -> x
    [] Lower(x.s) \in s.enum -> S(Lower(x.s))
    [] Upper(x.s) \in s.enum -> S(Upper(x.s))
    [] OTHER -> S(s.first)

RECURSIVE New(_), ReadAs(_, _)
NewStruct(s, tag) == O([k \in Names(s.req) |-> New(Where(s.req, k))] @@ tag)
New(s) == CASE s.nullable -> Null
            [] s.form = "type" -> ReadScalar(s, Undef)
            [] s.form = "enum" -> S(s.first)
            [] s.form = "empty" -> Undef
            [] s.form = "elements" -> A(<<>>)
            [] s.form = "values" -> O(<<>>)
            [] s.form = "ref" -> New(Named[s.ref])
            [] s.form = "properties" -> NewStruct(s, <<>>)
            [] s.form = "discriminator" -> NewStruct(s.mapping[1][2], s.key :> S(s.mapping[1][1]))
ReadStruct(s, x, tag) ==
  Present([k \in Names(s.req) |-> ReadAs(Where(s.req, k), Get(x, k))] @@
          [k \in Names(s.opt) |-> IF Get(x, k) = Undef THEN Undef ELSE ReadAs(Where(s.opt, k), Get(x, k))] @@ tag)
ReadUnion(s, x) ==
  LET v == Get(x, s.key)
  IN IF v.t = "str" /\ v.s \in Names(s.mapping) THEN ReadStruct(Where(s.mapping, v.s), x, s.key :> v)
     ELSE New([s EXCEPT !.nullable = FALSE])
\* The loop over a record in a record names its entry as the loop outside does
\* the entry it goes through.
ReadRecord(s, x) ==
  IF s.values.form = "values" /\ \E k \in Keys(x) : IsObject(Get(x, k)) THEN Thrown
  ELSE O([k \in Keys(x) |-> ReadAs(s.values, Get(x, k))])
ReadAs(s, x) ==
  CASE s.form = "type" -> IF s.nullable THEN ReadNullable(s, x) ELSE ReadScalar(s, x)
    [] s.form = "enum" -> ReadEnum(s, x)
    [] s.form = "empty" -> x
    [] s.form = "elements" -> IF x.t = "arr" THEN A([i \in DOMAIN x.items |-> ReadAs(s.elements, x.items[i])]) ELSE New(s)
    [] ~ IsObject(x) -> New(s)
    [] s.form = "values" -> ReadRecord(s, x)
    [] s.form = "ref" -> ReadAs(Named[s.ref], x)
    [] s.form = "properties" -> ReadStruct(s, x, <<>>)
    [] s.form = "discriminator" -> ReadUnion(s, x)
\* At the top the parsed document is taken for an object unseen.
Read(s, x) ==
  CASE x = Null -> Thrown
    [] s.form = "properties" -> ReadStruct(s, x, <<>>)
    [] s.form = "discriminator" -> ReadUnion(s, x)
    [] OTHER -> ReadAs(s, x)

RECURSIVE Write(_, _)
WriteFields(s, x, tag) ==
  LET ks == {k \in Names(s.req) \cup Names(s.opt) : k \in Names(s.req) \/ Get(x, k) # Undef}
  IN O([k \in ks |-> Write(Where(s.req \o s.opt, k), Get(x, k))] @@ tag)
\* The variant is looked for under the key of the schema, which the value has
\* under its name in camel case, and that name is what is written.
WriteUnion(s, x) ==
  IF Camel(s.key) # s.key THEN Thrown
  ELSE LET v == Get(x, s.key) IN WriteFields(Where(s.mapping, v.s), x, s.key :> v)
WriteRecord(s, x) ==
  IF s.values.form = "values" /\ \E k \in Keys(x) : IsObject(Get(x, k)) THEN Thrown
  ELSE O([k \in Keys(x) |-> Write(s.values, Get(x, k))])
WriteScalar(x) == CASE x.t = "num" -> WrittenNumber(x)
                    [] x.t = "big" -> S(x.n)
                    [] x.t = "date" -> IF x.d = "invalid" THEN Thrown ELSE S(x.d)
                    [] OTHER -> x
WriteAny(x) == IF x = Undef THEN Bad ELSE Stringify(x)
Write(s, x) ==
  CASE s.nullable /\ x = Null -> Null
    [] s.form \in {"type", "enum"} -> WriteScalar(x)
    [] s.form = "empty" -> WriteAny(x)
    [] s.form = "elements" -> A([i \in DOMAIN x.items |-> Write(s.elements, x.items[i])])
    [] s.form = "values" -> WriteRecord(s, x)
    [] s.form = "ref" -> Write(Named[s.ref], x)
    [] s.form = "properties" -> WriteFields(s, x, <<>>)
    [] s.form = "discriminator" -> WriteUnion(s, x)

\* A date that is null is written as undefined.
QueryText(s, x) == IF x = Null THEN S(IF s.form = "type" /\ s.type = "timestamp" THEN "undefined" ELSE "null")
                   ELSE Shown(x)
\* Objects, lists, records and values of any type are left out.
QueryFields(s, x, tag) ==
  LET ks == {k \in Filled(s, x) : Where(AllFields(s), k).form \in {"type", "enum"}}
  IN O([k \in ks |-> QueryText(Where(AllFields(s), k), Get(x, k))] @@ tag)
Query(s, x) ==
  LET v == Get(x, s.key)
  IN CASE s.form = "properties" -> QueryFields(s, x, <<>>)
       [] Camel(s.key) # s.key -> Thrown
       [] OTHER -> QueryFields(Where(s.mapping, v.s), x, s.key :> v)

\* The variant is looked for under the key of the schema, as in WriteUnion.
RECURSIVE Valid(_, _)
\* request.ts gives INT64_MIN without its sign: no integer is between it and the maximum.
ValidBigInt(ty, x) == x.t = "big" /\ (IF ty = "int64" THEN Within(x.n, "2^63", "2^63-1") ELSE InType(ty, x.n))
ValidScalar(s, x) ==
  CASE s.type = "string" -> x.t = "str"
    [] s.type = "boolean" -> x.t = "bool"
    [] s.type = "timestamp" -> x.t = "date"
    [] s.type \in Floats -> x.t = "num"
    [] s.type \in Ints -> x.t = "num" /\ InType(s.type, x.n)
    [] s.type \in Bigs -> ValidBigInt(s.type, x)
ValidStruct(s, x) ==
  /\ IsObject(x)
  /\ \A k \in Names(s.req) : Valid(Where(s.req, k), Get(x, k))
  /\ \A k \in Names(s.opt) : Valid(Where(s.opt, k), Get(x, k)) \/ Get(x, k) = Undef
Valid(s, x) ==
  \/ s.nullable /\ x = Null
  \/ CASE s.form = "type" -> ValidScalar(s, x)
       [] s.form = "enum" -> x.t = "str" /\ x.s \in s.enum
       [] s.form = "empty" -> TRUE
       [] s.form = "elements" -> x.t = "arr" /\ \A i \in DOMAIN x.items : Valid(s.elements, x.items[i])
       [] s.form = "values" -> IsObject(x) /\ \A k \in Keys(x) : Valid(s.values, Get(x, k))
       [] s.form = "ref" -> Valid(Named[s.ref], x)
       [] s.form = "properties" -> ValidStruct(s, x)
       [] s.form = "discriminator" ->
            LET v == Get(x, s.key)
            IN Camel(s.key) = s.key /\ IsObject(x) /\ v.t = "str" /\ v.s \in Names(s.mapping) /\ ValidStruct(Where(s.mapping, v.s), x)
===============================================================================
