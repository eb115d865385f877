-------------------------------- MODULE JsData --------------------------------
(***************************************************************************)
(* The values the TypeScript code handles and the schemas it is given.     *)
(* A value is a record tagged t.  A number is a landmark: what matters of   *)
(* it is its place among the limits of the integer types.  A string is a   *)
(* token, or the JSON text of a value.  A schema is a record tagged form.  *)
(***************************************************************************)
EXTENDS Integers, Sequences, SequencesExt, TLC

Undef == [t |-> "undef"]
Null == [t |-> "null"]
Bad == [t |-> "bad"]             \* text that is not JSON
B(b) == [t |-> "bool", b |-> b]
N(n) == [t |-> "num", n |-> n]
Big(n) == [t |-> "big", n |-> n]
S(s) == [t |-> "str", s |-> s]
D(d) == [t |-> "date", d |-> d]  \* d = "invalid" is the Invalid Date
A(items) == [t |-> "arr", items |-> items]
O(f) == [t |-> "obj", f |-> f]

Landmark == <<"-2^64", "-2^63-1", "-2^63", "-2^31-1", "-2^31", "-32769", "-32768",
  "-129", "-128", "-1", "0", "1", "127", "128", "255", "256", "32767", "32768",
  "65535", "65536", "2^31-1", "2^31", "2^32-1", "2^32", "2^53", "2^63-1", "2^63",
  "2^64-1", "2^64", "10^39">>
Integer == ToSet(Landmark)
Rank == [n \in Integer |-> CHOOSE i \in DOMAIN Landmark : Landmark[i] = n]
Within(n, lo, hi) == n \in Integer /\ Rank[lo] <= Rank[n] /\ Rank[n] <= Rank[hi]
Limits == [int8 |-> <<"-128", "127">>, uint8 |-> <<"0", "255">>,
  int16 |-> <<"-32768", "32767">>, uint16 |-> <<"0", "65535">>,
  int32 |-> <<"-2^31", "2^31-1">>, uint32 |-> <<"0", "2^32-1">>,
  int64 |-> <<"-2^63", "2^63-1">>, uint64 |-> <<"0", "2^64-1">>]
\* rounded stands for any number a 32-bit float is written as that is not the number
\* it was read from.
Number == Integer \cup {"1.5", "rounded"}
Ints == {"int8", "uint8", "int16", "uint16", "int32", "uint32"}
Bigs == {"int64", "uint64"}
Floats == {"float32", "float64"}
InType(ty, n) == Within(n, Limits[ty][1], Limits[ty][2])

(***************************************************************************)
(* The built-in conversions of the language.                               *)
(***************************************************************************)
IsString(x) == x.t \in {"str", "text"}
IsObject(x) == x.t \in {"obj", "arr", "date"}      \* typeof 'object', not null
Index == <<"0", "1", "2", "3">>
Fields(x) == CASE x.t = "obj" -> x.f
               [] x.t = "arr" -> [k \in {Index[i] : i \in DOMAIN x.items} |->
                                    x.items[CHOOSE i \in DOMAIN x.items : Index[i] = k]]
               [] OTHER -> <<>>
Keys(x) == DOMAIN Fields(x)
Get(x, k) == IF k \in Keys(x) THEN Fields(x)[k] ELSE Undef
\* An object whose undefined fields are left out.
Present(f) == LET ks == {k \in DOMAIN f : f[k] # Undef} IN O([k \in ks |-> f[k]])
Where(ps, k) == ps[CHOOSE i \in DOMAIN ps : ps[i][1] = k][2]
Names(ps) == {ps[i][1] : i \in DOMAIN ps}

NumberOf(x) == CASE x.t = "str" /\ x.s = "" -> "0"
                 [] x.t = "str" /\ x.s \in Number \cup {"Infinity"} -> x.s
                 [] OTHER -> "NaN"
\* BigInt(x): NaN stands for the exception.
BigOf(x) == LET n == IF x.t = "num" THEN x.n ELSE NumberOf(x)
            IN IF n \in Integer THEN n ELSE "NaN"
\* isoOffset reads as isoText does, in another zone: it is the instant isoShifted.
DateTexts == {"isoText", "isoNumber", "isoZero", "isoOffset", "isoShifted"}
Instant(d) == IF d = "isoOffset" THEN "isoShifted" ELSE d
DateOf(x) == CASE x.t = "str" /\ x.s \in DateTexts -> D(Instant(x.s))
               [] x.t = "num" /\ (x.n = "1.5" \/ Within(x.n, "-2^31-1", "2^32")) -> D("isoNumber")
               [] OTHER -> D("invalid")

RECURSIVE Broken(_)
Broken(v) == \/ v = Bad
             \/ v.t = "arr" /\ \E i \in DOMAIN v.items : Broken(v.items[i])
             \/ v.t = "obj" /\ \E k \in DOMAIN v.f : Broken(v.f[k])
\* A string that holds the JSON text of v.
Text(v) == CASE v.t = "num" -> S(v.n)
             [] v.t = "bool" -> S(IF v.b THEN "true" ELSE "false")
             [] v.t = "null" -> S("null")
             [] OTHER -> [t |-> "text", v |-> v]
JsonParse(x) == CASE x.t = "text" -> IF Broken(x.v) THEN Bad ELSE x.v
                  [] x.s = "null" -> Null
                  [] x.s \in {"true", "false"} -> B(x.s = "true")
                  [] x.s \in Number -> N(x.s)
                  [] OTHER -> Bad
\* JSON.stringify; Bad stands for the exception.
RECURSIVE Stringify(_)
Stringify(x) == CASE x.t = "arr" -> A([i \in DOMAIN x.items |->
                       IF x.items[i] = Undef THEN Null ELSE Stringify(x.items[i])])
                  [] x.t = "obj" -> LET p == Present(x.f).f
                                    IN O([k \in DOMAIN p |-> Stringify(p[k])])
                  [] x.t = "num" /\ x.n \in {"NaN", "Infinity"} -> Null
                  [] x.t = "date" -> IF x.d = "invalid" THEN Null ELSE S(x.d)
                  [] x.t = "big" -> Bad
                  [] OTHER -> x

Ok(v) == [ok |-> TRUE, v |-> v]
Err == [ok |-> FALSE]
Result(cond, v) == IF cond THEN Ok(v) ELSE Err

(***************************************************************************)
(* Schemas.  nullable is the flag of the schema, which the compiler reads; *)
(* accepts says that its closures take null, coerces that an object's       *)
(* closures coerce the fields.                                             *)
(***************************************************************************)
Type(ty) == [form |-> "type", type |-> ty, nullable |-> FALSE, accepts |-> FALSE]
Enum(vals) == [form |-> "enum", enum |-> vals, nullable |-> FALSE, accepts |-> FALSE]
AnyS == [form |-> "empty", nullable |-> FALSE, accepts |-> FALSE]
List(s) == [form |-> "elements", elements |-> s, nullable |-> FALSE, accepts |-> FALSE]
Record(s) == [form |-> "values", values |-> s, nullable |-> FALSE, accepts |-> FALSE]
Struct(id, req, opt, strict) == [form |-> "properties", id |-> id, req |-> req,
                                 opt |-> opt, strict |-> strict, coerces |-> TRUE,
                                 nullable |-> FALSE, accepts |-> FALSE]
Union(key, mapping) == [form |-> "discriminator", id |-> "", key |-> key,
                        mapping |-> mapping, nullable |-> FALSE, accepts |-> FALSE]
Ref(id) == [form |-> "ref", ref |-> id, nullable |-> FALSE, accepts |-> FALSE]
Nullable(s) == [s EXCEPT !.nullable = TRUE, !.accepts = TRUE]
===============================================================================
