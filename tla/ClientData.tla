------------------------------ MODULE ClientData ------------------------------
(***************************************************************************)
(* What the generated clients have in common.  A model of a client holds   *)
(* the value JsData gives it, in whatever language: an object keeps its    *)
(* fields under the keys of the schema, and a field that is not there has  *)
(* no key.  Thrown is an exception.                                        *)
(***************************************************************************)
EXTENDS JsData

CONSTANT Named      \* the schema a reference stands for

Thrown == [t |-> "thrown"]
RECURSIVE Throws(_)
Throws(w) == \/ w = Thrown
             \/ w.t = "arr" /\ \E i \in DOMAIN w.items : Throws(w.items[i])
             \/ w.t = "obj" /\ \E k \in DOMAIN w.f : Throws(w.f[k])

\* An enum whose first value the clients fall back to.
EnumFrom(first, rest) == Enum({first} \cup rest) @@ [first |-> first]
Fallback(nul, v) == IF nul THEN Null ELSE v
\* None and null are one value, but for a field of any type.
Optional(s, v) == IF v = Null /\ s.form # "empty" THEN Undef ELSE v
AllFields(s) == s.req \o s.opt
Filled(s, x) == {k \in Names(AllFields(s)) : Get(x, k) # Undef}
IsOptional(s, k) == k \in Names(s.opt)

\* pascal and camel case of the names that a case conversion changes
Camel(k) == IF k = "type_name" THEN "typeName" ELSE k
Lower(w) == IF w = "FOO" THEN "foo" ELSE w
Upper(w) == IF w = "foo" THEN "FOO" ELSE w

\* A 32-bit float of a number n: what n is once it has been read as one and written
\* in as few digits as tell it from other such floats.  Up to 2^24 nothing is lost.
Exact32 == {"1.5"} \cup {n \in Integer : Within(n, "-32769", "65536")}
Single(n) == CASE n \in Exact32 \cup {"NaN"} -> n
               [] n \in {"10^39", "Infinity"} -> "Infinity"
               [] OTHER -> "rounded"

\* The text of a scalar, and what a server makes of a text that is not percent
\* encoded: the part before the first separator.
Shown(x) == CASE x.t = "num" -> S(x.n)
              [] x.t = "big" -> S(x.n)
              [] x.t = "date" -> S(x.d)
              [] x.t = "bool" \/ x = Null -> Text(x)
              [] OTHER -> x
Raw(x) == IF x = S("a&b") THEN S("a") ELSE x
WrittenNumber(x) == IF x.n \in {"NaN", "Infinity"} THEN Bad ELSE x
===============================================================================
