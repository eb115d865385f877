-------------------------------- MODULE GoWire --------------------------------
(***************************************************************************)
(* A message between a Go server and a TypeScript peer that was given the   *)
(* definition the Go server publishes.  Each end reads documents into      *)
(* values and writes values as documents; a Go handler may also hand over  *)
(* a value nobody sent.                                                    *)
(***************************************************************************)
EXTENDS GoCodec, TsSchema

CONSTANTS Types,      \* the Go types of the messages
          Documents,  \* JSON documents a client may send
          Queries,    \* query strings a client may send
          Handed(_)   \* values a handler may return, by type
ASSUME Types # {}

VARIABLES typ, casing,  \* the message's type and the server's key casing
          negative,     \* the build's conversion, see DecCx
          stage, value
vars == <<typ, casing, negative, stage, value>>
Definition == ToTypeDef(typ, casing)

Init ==
  /\ typ \in Types /\ casing \in Casings /\ negative \in NegativeUint
  /\ \/ stage = "document" /\ value \in Documents
     \/ stage = "query" /\ value \in Queries
     \/ stage = "held" /\ value \in Handed(typ)

Take(r, next) == IF r.ok THEN value' = r.v /\ stage' = next ELSE UNCHANGED value /\ stage' = "refused"
GoReads == stage = "document" /\ Take(DecodeJSON(typ, value, casing, negative), "held")
GoReadsQuery == stage = "query" /\ Take(DecodeQueryParams(typ, value, casing), "held")
GoWrites == stage = "held" /\ Take(EncodeJSON(typ, value, casing), "document")
TsReads == stage = "document" /\ Take(Parse(Definition, value, FALSE, FALSE), "peer")
TsWrites == stage = "peer" /\ Take(Ok(Written(Definition, value)), "document")
Next == (GoReads \/ GoReadsQuery \/ GoWrites \/ TsReads \/ TsWrites) /\ UNCHANGED <<typ, casing, negative>>
Spec == Init /\ [][Next]_vars

(***************************************************************************)
(* The TypeScript value that a Go value stands for.                        *)
(***************************************************************************)
RECURSIVE Js(_, _)
JsField(T, x, f) == IF f.opt /\ x.f[f.name] = Undef THEN Undef ELSE Js(f.type, x.f[f.name])
JsStruct(T, x, tag) ==
  Present([k \in {DefKey(T.fields[i], casing) : i \in DOMAIN T.fields} |->
             JsField(T, x, T.fields[CHOOSE i \in DOMAIN T.fields : DefKey(T.fields[i], casing) = k])] @@ tag)
Js(T, x) ==
  CASE T.kind = "named" -> Js(Structs[T.name], x)
    [] x = Null -> Null
    [] T.kind \in {"ptr", "nullable"} -> Js(T.elem, x)
    [] T.kind = "timestamp" -> D(Instant(x.d))
    [] T.kind = "slice" -> A(IF x = Nil THEN <<>> ELSE [i \in DOMAIN x.items |-> Js(T.elem, x.items[i])])
    [] T.kind \in {"map", "ordered"} -> O([k \in Keys(x) |-> Js(T.elem, x.f[k])])
    [] T.kind = "struct" -> JsStruct(T, x, <<>>)
    [] T.kind = "union" -> IF x.tag = "" THEN x
         ELSE JsStruct(Actual(Where(T.variants, x.tag)), x.v, T.key :> S(x.tag))
    [] OTHER -> x
\* Without the fields that are null: a missing pointer or interface becomes nil.
RECURSIVE NoNulls(_)
NoNulls(x) == CASE x.t = "obj" -> O([k \in {k \in DOMAIN x.f : x.f[k] # Null} |-> NoNulls(x.f[k])])
                [] x.t = "arr" -> A([i \in DOMAIN x.items |-> NoNulls(x.items[i])])
                [] OTHER -> x

(***************************************************************************)
(* Where the codec is known to leave its definition.                       *)
(***************************************************************************)
RECURSIVE Inside(_, _)
\* The kinds and the fields a type is made of; seen are the structs passed.
Inside(T, seen) ==
  {T} \cup CASE T.kind \in {"slice", "map", "ordered", "ptr", "nullable"} -> Inside(T.elem, seen)
             [] T.kind = "named" -> IF T.name \in seen THEN {} ELSE Inside(Structs[T.name], seen \cup {T.name})
             [] T.kind = "struct" -> UNION {Inside(T.fields[i].type, seen) : i \in DOMAIN T.fields}
             [] T.kind = "union" -> UNION {Inside(T.variants[i][2], seen) : i \in DOMAIN T.variants}
             [] OTHER -> {}
Made(T) == Inside(T, {})
FieldsOf(T) == UNION {ToSet(U.fields) : U \in {V \in Made(T) : V.kind = "struct"}}
KindsOf(T) == {U.kind : U \in Made(T)}
\* strcase changes a name that is already in Pascal case.
SameKeys == \A f \in FieldsOf(typ) : DefKey(f, casing) = SerialKey(f, casing)
\* A tag on a list is the list's elements' in the definition, and nobody's in the codec.
NoTaggedList == \A f \in FieldsOf(typ) : f.enum # <<>> => f.type.kind \notin {"slice", "map"}

RECURSIVE Levels(_)
Levels(x) == CASE x.t = "arr" -> 1 + Max({0} \cup {Levels(x.items[i]) : i \in DOMAIN x.items})
               [] x.t = "obj" -> 1 + Max({0} \cup {Levels(x.f[k]) : k \in DOMAIN x.f})
               [] x.t = "variant" -> 1 + Levels(x.v)
               [] OTHER -> 0
RECURSIVE NilSlices(_)
NilSlices(x) ==
  CASE x.t = "arr" -> FoldLeft(LAMBDA n, e : n + NilSlices(e), 0, x.items)
    [] x.t = "obj" -> FoldLeft(LAMBDA n, k : n + NilSlices(x.f[k]), 0, SetToSeq(DOMAIN x.f))
    [] x.t = "variant" -> NilSlices(x.v)
    [] OTHER -> IF x = Nil THEN 1 ELSE 0
RECURSIVE LongestList(_)
LongestList(x) ==
  CASE x.t = "arr" -> Max({Len(x.items)} \cup {LongestList(x.items[i]) : i \in DOMAIN x.items})
    [] x.t = "obj" -> Max({0} \cup {LongestList(x.f[k]) : k \in DOMAIN x.f})
    [] x.t = "variant" -> LongestList(x.v)
    [] OTHER -> 0
RECURSIVE Atoms(_)
Atoms(x) == CASE x.t = "arr" -> UNION {Atoms(x.items[i]) : i \in DOMAIN x.items}
              [] x.t = "obj" -> UNION {Atoms(x.f[k]) : k \in DOMAIN x.f}
              [] x.t = "variant" -> Atoms(x.v)
              [] OTHER -> {x}
NotJson == {N("NaN"), N("Infinity")}
\* Lists whose every element is read: the depth starts at 1 and is lowered by each.
ReadableLists(x) == LongestList(x) <= 2
Encodable(x) == /\ Levels(x) + NilSlices(x) < MaxDepth
                /\ Atoms(x) \cap NotJson = {}
                /\ \A T \in Made(typ) : T.kind = "struct" => T.fields # <<>>

(***************************************************************************)
(* Properties.                                                             *)
(***************************************************************************)
\* What the peer may write, the server reads; what the server writes is JSON, and
\* the peer reads it.
PeersRead ==
  /\ stage = "peer" /\ SameKeys /\ ReadableLists(value) /\ Levels(value) < MaxDepth =>
       DecodeJSON(typ, Written(Definition, value), casing, negative).ok
  /\ stage = "held" /\ SameKeys /\ NoTaggedList /\ Encodable(value) =>
       LET r == EncodeJSON(typ, value, casing)
       IN r.ok /\ ~ Broken(r.v) /\ Parse(Definition, r.v, FALSE, FALSE).ok

\* When both ends read a document, they read the same value, and the server refuses
\* what its definition does, but for missing pointers and the nullable fields of a
\* variant, fractions, and numbers beyond 64 bits.  A query string the server reads
\* the TypeScript server reads as the same value, but for empty and null texts and NaN.
Exact == KindsOf(typ) \cap {"ptr", "ordered"} = {} /\ ~ ({"union", "nullable"} \subseteq KindsOf(typ))
Beyond == {N(n) : n \in {"1.5", "-2^64", "-2^63-1", "2^63", "2^64-1", "2^64"}}
Odd == {S("")} \cup {S(n) : n \in {"NULL", "Null", "NaN"}}
ReadersAgree ==
  /\ stage = "document" /\ SameKeys /\ value # Null =>
    LET go == DecodeJSON(typ, value, casing, negative)
        ts == Parse(Definition, value, FALSE, FALSE)
    IN go.ok => /\ ts.ok => NoNulls(Js(typ, go.v)) = NoNulls(ts.v)
                /\ NoTaggedList /\ Exact /\ negative = "2^64-1" /\ Atoms(value) \cap Beyond = {} => ts.ok
  /\ stage = "query" /\ SameKeys /\ Atoms(value) \cap Odd = {} /\ (\A f \in FieldsOf(typ) : f.key = "") =>
    LET go == DecodeQueryParams(typ, value, casing)
        ts == Parse(Definition, value, FALSE, TRUE)
    IN go.ok => ts.ok /\ Js(typ, go.v) = ts.v

\* A value of the definition's type that the server writes comes back to it as it
\* was, in the zone it was in.
GoRoundTrip ==
  stage = "held" /\ Encodable(value) /\ ReadableLists(value) /\ D("isoOffset") \notin Atoms(value) =>
    (Validate(Definition, Js(typ, value)) =>
      LET r == DecodeJSON(typ, EncodeJSON(typ, value, casing).v, casing, negative)
      IN r.ok /\ Js(typ, r.v) = Js(typ, value))
===============================================================================
