------------------------------- MODULE GoCodec -------------------------------
(***************************************************************************)
(* The JSON and query string codecs of the Go server.  Both walk a type by *)
(* reflection and carry a context they change in place: the depth reached, *)
(* the values of the enum tag in force, and what has been written.         *)
(***************************************************************************)
EXTENDS GoTypes

CONSTANTS MaxDepth,     \* EncodingOptions.MaxDepth, 200 unless it is set
          DepthSpan     \* the depth is a uint32: it counts modulo DepthSpan
ASSUME DepthAssumption == MaxDepth \in Nat /\ DepthSpan \in Nat /\ MaxDepth + 1 < DepthSpan

Deeper(d) == (d + 1) % DepthSpan
Shallower(d) == (d - 1) % DepthSpan

(***************************************************************************)
(* Encoding.  A result has the JSON written, Bad when it was cut short, and *)
(* the depth the context is left at.                                       *)
(***************************************************************************)
Out(v, d) == [ok |-> TRUE, v |-> v, d |-> d]
Fail(d) == [ok |-> FALSE, v |-> Bad, d |-> d]
EncCx(casing) == [d |-> 0, enum |-> <<>>, casing |-> casing, tag |-> <<>>]

\* Mutant: a 64 bit integer is written without its quotes.
EncodeBare(T, x, cx) == IF T.kind \in Bigs THEN N(x.n) ELSE x
EncodeScalar(T, x, cx) ==
  CASE T.kind = "string" /\ cx.enum # <<>> -> IF x.s \in ToSet(cx.enum) THEN x ELSE S(cx.enum[1])
    [] T.kind \in Floats -> IF x.n \in {"NaN", "Infinity"} THEN Bad ELSE x
    [] T.kind \in Bigs -> S(x.n)
    \* The clock is written as it reads, and called UTC.
    [] T.kind = "timestamp" -> S(IF x.d = "isoOffset" THEN "isoText" ELSE x.d)
    [] OTHER -> x

RECURSIVE Encode(_, _, _)
\* An interface is written by a call of EncodeJSON of its own, at depth 0.
EncodeInterface(x, cx) == Out(x, cx.d)

EncodeField(f, x, cx, acc) ==
  LET r == Encode(f.type, x, [cx EXCEPT !.d = acc.d, !.enum = f.enum, !.tag = <<>>])
  IN IF r.ok THEN [acc EXCEPT !.d = r.d, !.f = SerialKey(f, cx.casing) :> r.v @@ @]
     ELSE [acc EXCEPT !.d = r.d, !.st = IF f.opt THEN "failed" ELSE "cut"]
EncodeStruct(T, x, cx) ==
  LET step(acc, f) == IF acc.st # "on" \/ (f.opt /\ x.f[f.name] = Undef) THEN acc
                      ELSE EncodeField(f, x.f[f.name], cx, acc)
      end == FoldLeft(step, [st |-> "on", d |-> Deeper(cx.d), f |-> cx.tag], T.fields)
  IN CASE end.st = "on" -> Out(O(end.f), Shallower(end.d))
       \* A required field that fails: the struct returns without an error.
       [] end.st = "cut" -> Out(Bad, end.d)
       [] end.st = "failed" -> Fail(end.d)
\* Mutant: the variant is written without its tag.
EncodeUntagged(T, x, cx) ==
  IF x.tag = "" THEN Out(Null, cx.d) ELSE Encode(Actual(Where(T.variants, x.tag)), x.v, cx)
\* With no variant set, the first one is written with its zero value.
EncodeDiscriminator(T, x, cx) ==
  LET i == IF x.tag = "" THEN 1 ELSE CHOOSE j \in DOMAIN T.variants : T.variants[j][1] = x.tag
      V == Actual(T.variants[i][2])
      r == Encode(V, IF x.tag = "" THEN Zero(V) ELSE x.v,
                  [cx EXCEPT !.d = Deeper(@), !.tag = T.key :> S(T.variants[i][1])])
  IN IF r.ok THEN Out(r.v, Shallower(r.d)) ELSE r
EncodeArray(T, x, cx) ==
  LET step(acc, e) == IF ~ acc.ok THEN acc
        ELSE LET r == Encode(T.elem, e, [cx EXCEPT !.d = acc.d, !.enum = <<>>])
             IN [ok |-> r.ok, d |-> r.d, v |-> Append(acc.v, r.v)]
      end == FoldLeft(step, [ok |-> TRUE, d |-> Deeper(cx.d), v |-> <<>>], x.items)
  IN CASE x = Nil -> Out(A(<<>>), Deeper(cx.d))   \* returns one level deeper than it came
       [] end.ok -> Out(A(end.v), Shallower(end.d))
       [] OTHER -> Fail(end.d)
\* The keys are written in order; keyed by the order given.
EncodeMap(T, x, cx) ==
  LET step(acc, k) == IF ~ acc.ok THEN acc
        ELSE LET r == Encode(T.elem, x.f[k], [cx EXCEPT !.d = acc.d, !.enum = <<>>])
             IN [ok |-> r.ok, d |-> r.d, f |-> k :> r.v @@ acc.f]
      end == FoldLeft(step, [ok |-> TRUE, d |-> Deeper(cx.d), f |-> <<>>], SetToSeq(Keys(x)))
  IN IF end.ok THEN Out(O(end.f), Shallower(end.d)) ELSE Fail(end.d)
EncodeOrderedMap(T, x, cx) ==
  LET r == [k \in Keys(x) |-> Encode(T.elem, x.f[k], EncCx(cx.casing))]
  IN IF \A k \in DOMAIN r : r[k].ok THEN Out(O([k \in DOMAIN r |-> r[k].v]), cx.d) ELSE Fail(cx.d)
Encode(T, x, cx) ==
  IF cx.d > MaxDepth THEN Fail(cx.d)
  ELSE CASE T.kind = "named" -> Encode(Structs[T.name], x, cx)
         [] T.kind \in {"nullable", "ptr"} -> IF x = Null THEN Out(Null, cx.d) ELSE Encode(T.elem, x, cx)
         [] T.kind = "any" -> IF x = Null THEN Out(Null, cx.d) ELSE EncodeInterface(x, cx)
         [] T.kind = "ordered" -> EncodeOrderedMap(T, x, cx)
         \* A struct without fields counts as a union without variants.
         [] T.kind = "struct" -> IF T.fields = <<>> THEN Fail(Deeper(cx.d)) ELSE EncodeStruct(T, x, cx)
         [] T.kind = "union" -> EncodeDiscriminator(T, x, cx)
         [] T.kind = "slice" -> EncodeArray(T, x, cx)
         [] T.kind = "map" -> EncodeMap(T, x, cx)
         [] OTHER -> Out(EncodeScalar(T, x, cx), cx.d)
EncodeJSON(T, x, casing) == Encode(T, x, EncCx(casing))
(***************************************************************************)
(* Decoding.  A result has what the function returns (ret), the errors put *)
(* in the context (errs: "depth" or "type"), the value left in the target  *)
(* and the depth the context is left at.  A field that is missing is read  *)
(* like null, Undef tells it apart where Exists() is asked.                *)
(***************************************************************************)
Read(v, d) == [ret |-> TRUE, errs |-> {}, v |-> v, d |-> d]
Refuse(T, e, d) == [ret |-> FALSE, errs |-> {e}, v |-> Zero(T), d |-> d]
\* negative: what a build's conversion makes of a negative float64 as a uint64.
DecCx(casing, negative) == [d |-> 0, enum |-> <<>>, casing |-> casing, negative |-> negative]
NegativeUint == {"0", "2^64-1"}

IsNull(j) == j \in {Null, Undef}
\* gjson's Int() and Uint(): a fraction is cut off, a number beyond 64 bits wraps.
Wrapped(n) == CASE n \in {"2^64", "-2^64"} -> "0"
                [] n = "2^63" -> "-2^63"
                [] n = "2^64-1" -> "-1"
                [] n = "-2^63-1" -> "2^63-1"
                [] OTHER -> n
JsonInt(n) == IF n = "1.5" THEN "1" ELSE Wrapped(n)
JsonUint(n, negative) == CASE n = "1.5" -> "1"
                           [] n \in {"2^64"} -> "0"
                           [] Within(n, "-2^64", "-1") -> negative
                           [] OTHER -> n
Signed == {"int8", "int16", "int32"}
Rfc3339 == DateTexts

DecodeScalar(T, j, cx) ==
  LET k == T.kind
      n == IF k \in Signed THEN JsonInt(j.n) ELSE JsonUint(j.n, cx.negative)
      when(cond, v) == IF cond THEN Read(v, cx.d) ELSE Refuse(T, "type", cx.d)
  IN CASE k = "string" -> when(j.t = "str" /\ (cx.enum = <<>> \/ j.s \in ToSet(cx.enum)), j)
       [] k = "boolean" -> when(j.t = "bool", j)
       [] k = "timestamp" -> IF j.t = "str" THEN when(j.s \in Rfc3339, D(j.s)) ELSE when(FALSE, j)
       [] k \in Bigs -> IF j.t = "str" THEN when(InType(k, j.s), Big(j.s)) ELSE when(FALSE, j)
       [] k \in Floats -> when(j.t = "num", j)
       [] k \in Ints -> IF j.t = "num" THEN when(InType(k, n), N(n)) ELSE when(FALSE, j)

RECURSIVE Decode(_, _, _)
\* Mutant: a missing field is taken for null.
DecodeMissing(T, j, cx) == IF IsNull(j) THEN Read(Null, cx.d) ELSE Decode(T.elem, j, cx)
\* Option and Nullable are containers that are set when the value was read.
DecodeNullable(T, j, cx) ==
  CASE j = Undef -> [ret |-> FALSE, errs |-> {}, v |-> Null, d |-> cx.d]
    [] j = Null -> Read(Null, cx.d)
    [] OTHER -> LET r == Decode(T.elem, j, cx) IN IF r.ret THEN r ELSE [r EXCEPT !.v = Null]
DecodeOption(T, j, cx) ==
  IF j = Undef THEN Read(Undef, cx.d)
  ELSE LET r == Decode(T, j, cx) IN IF r.ret THEN r ELSE [r EXCEPT !.v = Undef]
\* The depth is raised once for the list, and lowered after each element.
DecodeArray(T, j, cx) ==
  LET step(acc, e) ==
        LET r == Decode(T.elem, e, [cx EXCEPT !.d = acc.d, !.enum = <<>>])
        IN [ret |-> acc.ret /\ r.ret, errs |-> acc.errs \cup r.errs,
            v |-> Append(acc.v, r.v), d |-> Shallower(r.d)]
      end == FoldLeft(step, [ret |-> TRUE, errs |-> {}, v |-> <<>>, d |-> Deeper(cx.d)], j.items)
  IN IF j.t # "arr" THEN Refuse(T, "type", cx.d) ELSE [end EXCEPT !.v = A(@), !.d = cx.d]
DecodeMap(T, j, cx) ==
  LET step(acc, k) ==
        LET r == Decode(T.elem, j.f[k], [cx EXCEPT !.d = acc.d, !.enum = <<>>])
        IN [ret |-> acc.ret /\ r.ret, errs |-> acc.errs \cup r.errs, d |-> r.d,
            f |-> IF r.ret THEN k :> r.v @@ acc.f ELSE acc.f]
      end == FoldLeft(step, [ret |-> TRUE, errs |-> {}, f |-> <<>>, d |-> Deeper(cx.d)], SetToSeq(Keys(j)))
  IN IF j.t # "obj" THEN Refuse(T, "type", cx.d)
     ELSE [ret |-> end.ret, errs |-> end.errs, v |-> O(end.f), d |-> cx.d]
\* Stops at the first value it cannot read, and leaves the depth raised.  The
\* value true and any array are taken for an object without keys.
DecodeOrderedMap(T, j, cx) ==
  LET step(acc, k) ==
        IF ~ acc.ret THEN acc
        ELSE LET r == Decode(T.elem, j.f[k], [cx EXCEPT !.d = acc.d])
             IN [r EXCEPT !.v = k :> r.v @@ acc.v]
      end == FoldLeft(step, [ret |-> TRUE, errs |-> {}, v |-> <<>>, d |-> Deeper(cx.d)], SetToSeq(Keys(j)))
  IN CASE j = B(TRUE) \/ j.t = "arr" -> Read(O(<<>>), cx.d)
       [] j.t # "obj" -> Refuse(T, "type", cx.d)
       [] end.ret -> Read(O(end.v), Shallower(end.d))
       [] OTHER -> [end EXCEPT !.v = O(<<>>)]
DecodeStruct(T, j, cx) ==
  LET step(acc, f) ==
        LET x == Get(j, SerialKey(f, cx.casing))
            in == [cx EXCEPT !.d = acc.d, !.enum = f.enum]
            r == CASE f.opt -> DecodeOption(f.type, x, in)
                   [] f.type.kind = "nullable" -> DecodeNullable(f.type, x, in)
                   [] OTHER -> Decode(f.type, x, in)
        IN [ret |-> acc.ret /\ r.ret, errs |-> acc.errs \cup r.errs, d |-> r.d,
            f |-> f.name :> r.v @@ acc.f]
      end == FoldLeft(step, [ret |-> TRUE, errs |-> {}, f |-> <<>>, d |-> Deeper(cx.d)], T.fields)
  IN IF j.t # "obj" THEN Refuse(T, "type", cx.d)
     ELSE [ret |-> end.ret, errs |-> end.errs, v |-> O(end.f), d |-> cx.d]
\* What reading the variant returned is not looked at, and the depth stays raised.
DecodeDiscriminator(T, j, cx) ==
  LET tag == Get(j, T.key)
      V == Actual(Where(T.variants, tag.s))
      r == Decode(V, j, [cx EXCEPT !.d = Deeper(@), !.enum = <<>>])
  IN IF j.t = "obj" /\ tag.t = "str" /\ tag.s \in Names(T.variants)
     THEN [r EXCEPT !.ret = TRUE, !.v = Variant(tag.s, @)]
     ELSE Refuse(T, "type", cx.d)
\* Read into an interface: any JSON value, without the context.
DecodeAny(j, cx) == Read(IF IsNull(j) THEN Null ELSE j, cx.d)
Decode(T, j, cx) ==
  CASE cx.d > MaxDepth -> Refuse(T, "depth", cx.d)
    [] T.kind = "named" -> Decode(Structs[T.name], j, cx)
    [] T.kind = "nullable" -> DecodeNullable(T, j, cx)
    [] T.kind = "ptr" -> IF IsNull(j) THEN Read(Null, cx.d) ELSE Decode(T.elem, j, cx)
    [] T.kind = "any" -> DecodeAny(j, cx)
    [] T.kind = "slice" -> DecodeArray(T, j, cx)
    [] T.kind = "map" -> DecodeMap(T, j, cx)
    [] T.kind = "ordered" -> DecodeOrderedMap(T, j, cx)
    [] T.kind = "struct" -> DecodeStruct(T, j, cx)
    [] T.kind = "union" -> DecodeDiscriminator(T, j, cx)
    [] OTHER -> DecodeScalar(T, j, cx)
\* DecodeJSON reads through a pointer to the target: null leaves it as it is.
DecodeJSON(T, j, casing, negative) ==
  LET r == IF j = Null THEN Read(Zero(T), 0) ELSE Decode(T, j, DecCx(casing, negative))
  IN [ok |-> r.ret /\ r.errs = {}, v |-> r.v, errs |-> r.errs]
(***************************************************************************)
(* Decoding a query string: a function from keys to texts.  The key tag is *)
(* not looked at.  Errors are collected, what the functions return is not. *)
(***************************************************************************)
QueryScalar(T, x, enum) ==
  LET k == T.kind
      n == x.s
      when(cond, v) == IF cond THEN Ok(v) ELSE Err
  IN CASE k = "boolean" /\ n \in {"true", "TRUE", "1"} -> Ok(B(TRUE))
       [] k = "boolean" /\ n \in {"false", "FALSE", "0"} -> Ok(B(FALSE))
       [] k = "string" -> when(enum = <<>> \/ n \in ToSet(enum), x)
       [] k \in Floats -> when(n \in Integer \cup {"1.5", "NaN", "Infinity"}, N(n))
       [] k \in Ints -> when(InType(k, n), N(n))
       [] k \in Bigs -> when(InType(k, n), Big(n))
       [] k = "timestamp" -> when(n \in Rfc3339, D(n))
       \* Lists, objects and maps are not supported; a nil pointer has no kind.
       [] OTHER -> Err
QueryField(f, q, casing) ==
  LET key == Cased(f.name, casing)
      x == Get(q, key)
      nulls == {S("null"), S("NULL"), S("Null")}
  IN CASE f.opt -> IF x \in {Undef, S("")} THEN Ok(Undef) ELSE QueryScalar(f.type, x, f.enum)
       [] x = Undef -> Err
       [] f.type.kind = "nullable" -> IF x \in nulls THEN Ok(Null) ELSE QueryScalar(f.type.elem, x, f.enum)
       [] OTHER -> QueryScalar(f.type, x, f.enum)
\* A union is a struct whose fields are pointers: none can be read.
DecodeQueryParams(T, q, casing) ==
  LET A0 == Actual(T)
      r == [n \in {A0.fields[i].name : i \in DOMAIN A0.fields} |->
              QueryField(A0.fields[CHOOSE i \in DOMAIN A0.fields : A0.fields[i].name = n], q, casing)]
  IN IF A0.kind = "struct" /\ \A n \in DOMAIN r : r[n].ok THEN Ok(O([n \in DOMAIN r |-> r[n].v])) ELSE Err
===============================================================================
