------------------------------- MODULE TsSchema -------------------------------
(***************************************************************************)
(* The interpreted validators of @arrirpc/schema (ts-schema/src/lib): each  *)
(* schema carries closures that validate, parse, coerce and serialize.     *)
(* Named gives the schema a recursive reference stands for.  A context      *)
(* counts how deep the closures are; references and records are read and   *)
(* written within a limit, and left is what remains of it.                 *)
(***************************************************************************)
EXTENDS JsData

CONSTANTS Named,
          DepthLimit   \* maxDepth of a new context, 500
ASSUME DepthLimitAssumption == DepthLimit \in Nat \ {0}

NullText(s, x, texts) == s.accepts /\ (x = Null \/ (texts /\ x = S("null")))
All(f) == \A i \in DOMAIN f : f[i].ok
Vals(f) == [i \in DOMAIN f |-> f[i].v]
\* What a composite schema reads: a string at the top is JSON text.
Document(x, top) == IF top /\ IsString(x) THEN JsonParse(x) ELSE x

ParseBoolean(x, top, co) ==
  CASE x.t = "bool" -> Ok(x)
    [] (co \/ top) /\ x = S("true") -> Ok(B(TRUE))
    [] (co \/ top) /\ x = S("false") -> Ok(B(FALSE))
    [] co /\ x \in {S("TRUE"), S("1"), N("1")} -> Ok(B(TRUE))
    [] co /\ x \in {S("FALSE"), S("0"), N("0")} -> Ok(B(FALSE))
    [] OTHER -> Err
ParseNumber(ty, x, top, co) ==
  LET n == CASE x.t = "num" -> x.n
             [] IsString(x) /\ (top \/ co) -> NumberOf(x)
             [] OTHER -> "NaN"
  IN Result(IF ty \in Floats THEN n # "NaN" ELSE InType(ty, n), N(n))
ParseBigInt(ty, x) ==
  LET n == CASE x.t = "big" -> x.n
             [] x.t = "num" \/ IsString(x) -> BigOf(x)
             [] OTHER -> "NaN"
  IN Result(n # "NaN" /\ InType(ty, n), Big(n))
ParseTimestamp(x, co) ==
  CASE x.t = "date" -> Ok(x)
    [] x.t = "num" /\ co -> Ok(DateOf(x))
    [] IsString(x) -> Result(DateOf(x) # D("invalid"), DateOf(x))
    [] OTHER -> Err
ParseType(s, x, top, co) ==
  CASE s.type = "string" -> Result(IsString(x), x)
    [] s.type = "boolean" -> ParseBoolean(x, top, co)
    [] s.type = "timestamp" -> ParseTimestamp(x, co)
    [] s.type \in Bigs -> ParseBigInt(s.type, x)
    [] OTHER -> ParseNumber(s.type, x, top, co)

RECURSIVE ParseWithin(_, _, _, _, _)
ParseList(s, x, co, left) ==
  LET r == [i \in DOMAIN x.items |-> ParseWithin(s.elements, x.items[i], FALSE, co, left - 1)]
  IN Result(All(r), A(Vals(r)))
ParseRecord(s, x, co, left) ==
  LET r == [k \in Keys(x) |-> ParseWithin(s.values, Get(x, k), FALSE, co, left - 1)]
  IN Result(All(r), O(Vals(r)))
\* tag is the discriminator's field when the object is a variant of a union.  A
\* picked schema parses its fields when it should coerce them.
ParseStruct(s, x, given, tag, left) ==
  LET co == given /\ s.coerces
      allowed == Names(s.req) \cup Names(s.opt) \cup DOMAIN tag
      opts == {k \in Names(s.opt) : Get(x, k) # Undef}
      r == [k \in Names(s.req) |-> ParseWithin(Where(s.req, k), Get(x, k), FALSE, co, left - 1)] @@
           [k \in opts |-> IF co /\ Get(x, k) = S("undefined") THEN Ok(Undef)
                           ELSE ParseWithin(Where(s.opt, k), Get(x, k), FALSE, co, left - 1)]
  IN Result((s.strict => Keys(x) \subseteq allowed) /\ All(r), Present(Vals(r) @@ tag))
ParseUnion(s, x, co, left) ==
  LET v == Get(x, s.key)
  IN IF v.t = "str" /\ v.s \in Names(s.mapping)
     THEN ParseStruct(Where(s.mapping, v.s), x, co, s.key :> v, left - 1)
     ELSE Err
\* A reference is one level deeper when it is parsed, but not when it is coerced.
ParseRef(s, x, co, left) == ParseWithin(Named[s.ref], x, FALSE, co, IF co THEN left ELSE left - 1)
ParseForm(s, x, top, co, left) ==
  LET y == Document(x, top) IN
  CASE s.form = "type" -> ParseType(s, x, top, co)
    [] s.form = "enum" -> Result(x.t = "str" /\ x.s \in s.enum, x)
    [] s.form = "empty" -> Ok(IF y = Bad THEN x ELSE y)
    [] s.form \in {"ref", "values"} /\ left <= 0 -> Err
    [] s.form = "ref" -> ParseRef(s, x, co, left)
    [] s.form = "elements" -> IF y.t = "arr" THEN ParseList(s, y, co, left) ELSE Err
    [] ~ IsObject(y) -> Err
    [] s.form = "values" -> ParseRecord(s, y, co, left)
    [] s.form = "properties" -> ParseStruct(s, y, co, <<>>, left)
    [] s.form = "discriminator" -> ParseUnion(s, y, co, left)
ParseWithin(s, x, top, co, left) ==
  IF NullText(s, x, top \/ co) THEN Ok(Null) ELSE ParseForm(s, x, top, co, left)
Parse(s, x, top, co) == ParseWithin(s, x, top, co, DepthLimit)

RECURSIVE Validate(_, _)
ValidateType(ty, x) ==
  CASE ty = "string" -> IsString(x)
    [] ty = "boolean" -> x.t = "bool"
    [] ty = "timestamp" -> x.t = "date"
    [] ty \in Floats -> x.t = "num"
    [] ty \in Bigs -> x.t = "big" /\ InType(ty, x.n)
    [] ty \in Ints -> x.t = "num" /\ InType(ty, x.n)
ValidateStruct(s, x) ==
  /\ \A k \in Names(s.req) : Validate(Where(s.req, k), Get(x, k))
  /\ \A k \in Names(s.opt) : Get(x, k) = Undef \/ Validate(Where(s.opt, k), Get(x, k))
  /\ s.strict => Keys(x) \subseteq Names(s.req) \cup Names(s.opt)
Validate(s, x) ==
  \/ s.accepts /\ x = Null
  \/ CASE s.form = "type" -> ValidateType(s.type, x)
       [] s.form = "enum" -> x.t = "str" /\ x.s \in s.enum
       [] s.form = "empty" -> TRUE
       [] s.form = "ref" -> Validate(Named[s.ref], x)
       [] s.form = "elements" ->
            x.t = "arr" /\ \A i \in DOMAIN x.items : Validate(s.elements, x.items[i])
       [] ~ IsObject(x) -> FALSE
       [] s.form = "values" -> \A k \in Keys(x) : Validate(s.values, Get(x, k))
       [] s.form = "properties" -> ValidateStruct(s, x)
       [] s.form = "discriminator" ->
            LET v == Get(x, s.key) IN
            v.t = "str" /\ v.s \in Names(s.mapping) /\ ValidateStruct(Where(s.mapping, v.s), x)

(***************************************************************************)
(* Serialization of a value of the schema's type.  Written(s, x) is the     *)
(* JSON written for x inside a document: Undef when the closure returns     *)
(* undefined, Thrown when it throws or puts an error into its context, Bad *)
(* when it writes what is not JSON.  References and variants add nothing   *)
(* to the depth that a writer counts.                                      *)
(***************************************************************************)
Thrown == [t |-> "thrown"]
RECURSIVE Throws(_)
Throws(w) == \/ w = Thrown
             \/ w.t = "arr" /\ \E i \in DOMAIN w.items : Throws(w.items[i])
             \/ w.t = "obj" /\ \E k \in DOMAIN w.f : Throws(w.f[k])
WrittenScalar(x) ==
  CASE x.t = "num" -> IF x.n \in {"NaN", "Infinity"} THEN Bad ELSE x
    [] x.t = "big" -> S(x.n)
    [] x.t = "date" -> IF x.d = "invalid" THEN Thrown ELSE S(x.d)
    [] OTHER -> x
WrittenAny(x) == IF Stringify(x) = Bad THEN Thrown ELSE Stringify(x)
Filled(w) == IF w = Undef THEN Bad ELSE w      \* "key":undefined

RECURSIVE WrittenWithin(_, _, _)
\* Mutant: an absent optional field is written as null.
WrittenNulls(s, x, tag, left) ==
  O([k \in Names(s.req) \cup Names(s.opt) |-> IF Get(x, k) = Undef THEN Null
       ELSE Filled(WrittenWithin(Where(s.req \o s.opt, k), Get(x, k), left - 1))] @@ tag)
WrittenStruct(s, x, tag, left) ==
  LET ks == {k \in Names(s.req) \cup Names(s.opt) : Get(x, k) # Undef}
  IN O([k \in ks |-> Filled(WrittenWithin(Where(s.req \o s.opt, k), Get(x, k), left - 1))] @@ tag)
WrittenWithin(s, x, left) ==
  CASE s.accepts /\ x = Null -> Null
    [] s.form \in {"ref", "values"} /\ left <= 0 -> Thrown
    [] s.form \in {"type", "enum"} -> WrittenScalar(x)
    [] s.form = "empty" -> WrittenAny(x)
    [] s.form = "ref" -> WrittenWithin(Named[s.ref], x, left)
    [] s.form = "elements" ->
         LET w == [i \in DOMAIN x.items |-> WrittenWithin(s.elements, x.items[i], left - 1)]
         IN IF \E i \in DOMAIN w : w[i] = Undef THEN Undef ELSE A(w)
    [] s.form = "values" -> O([k \in Keys(x) |-> Filled(WrittenWithin(s.values, Get(x, k), left - 1))])
    [] s.form = "properties" -> WrittenStruct(s, x, <<>>, left)
    [] s.form = "discriminator" ->
         LET v == Get(x, s.key) IN WrittenStruct(Where(s.mapping, v.s), x, s.key :> v, left)
Written(s, x) == WrittenWithin(s, x, DepthLimit)

(***************************************************************************)
(* Object schemas made from others.  partial, extend, pick and omit build  *)
(* new closures over the fields, and copy or set the flags; those of pick   *)
(* coerce by parsing.                                                      *)
(***************************************************************************)
Only(ps, ks) == SelectSeq(ps, LAMBDA p : p[1] \in ks)
Chosen(s, ks, strict) == [s EXCEPT !.req = Only(@, ks), !.opt = Only(@, ks), !.strict = strict,
                                   !.id = "", !.accepts = FALSE, !.coerces = TRUE]
Pick(s, ks, strict) == [Chosen(s, ks, strict) EXCEPT !.coerces = FALSE]
Omit(s, ks, strict) == Chosen(s, (Names(s.req) \cup Names(s.opt)) \ ks, strict)
\* Later properties replace earlier ones; isStrict is stored as isNullable.
Extend(base, s, strict) ==
  LET over(p, q) == SelectSeq(p, LAMBDA e : e[1] \notin Names(q)) \o q
  IN [Struct("", over(base.req, s.req), over(base.opt, s.opt), FALSE)
        EXCEPT !.nullable = strict]
\* isStrict is set on the schema partial was called with.
Partial(s) == [Struct("", <<>>, s.req \o s.opt, FALSE) EXCEPT !.nullable = s.nullable]

\* At the top a scalar is written bare, without quotes.
Bare(x) == CASE x.t = "num" -> S(x.n)
             [] x.t = "big" -> S(x.n)
             [] x.t = "date" -> S(x.d)
             [] x.t = "bool" \/ x = Null -> Text(x)
             [] OTHER -> x
Serialize(s, x) ==
  LET w == Written(s, x)
  IN CASE w = Undef \/ Throws(w) -> Err
       [] s.form \in {"type", "enum"} -> Ok(Bare(x))
       [] OTHER -> Ok(Text(w))
===============================================================================
