------------------------------ MODULE ClientWire ------------------------------
(***************************************************************************)
(* A value on its way between generated clients and a TypeScript server.   *)
(* A client reads a document into its model, writes the model into the     *)
(* body or the query of a request, the server reads that and answers with  *)
(* what it read, and a client of another language reads the answer.        *)
(***************************************************************************)
EXTENDS TsSchema

CONSTANTS Langs, Schemas, Documents(_)
ASSUME LangsAreKnown == Langs \subseteq {"ts", "dart", "rust", "swift", "kotlin"}

Ts == INSTANCE TsClientCodec
Dart == INSTANCE DartClientCodec
Rust == INSTANCE RustClientCodec
Swift == INSTANCE SwiftClientCodec
Kotlin == INSTANCE KotlinClientCodec

VARIABLES lang,    \* the client that reads the next document
          schema,  \* what the document is an instance of
          stage,   \* where the value is
          value,   \* in the form it has there
          origin   \* what the server answered with, or Undef
vars == <<lang, schema, stage, value, origin>>

Read(l, s, x) ==
  CASE l = "ts" -> Ts!Read(s, x) [] l = "dart" -> Dart!Read(s, x) [] l = "rust" -> Rust!Read(s, x)
    [] l = "swift" -> Swift!Read(s, x) [] l = "kotlin" -> Kotlin!Read(s, x)
Write(l, s, v) ==
  CASE l = "ts" -> Ts!Write(s, v) [] l = "dart" -> Dart!Write(s, v) [] l = "rust" -> Rust!Write(s, v)
    [] l = "swift" -> Swift!Write(s, v) [] l = "kotlin" -> Kotlin!Write(s, v)
Query(l, s, v) ==
  CASE l = "ts" -> Ts!Query(s, v) [] l = "dart" -> Dart!Query(s, v) [] l = "rust" -> Rust!Query(s, v)
    [] l = "swift" -> Swift!Query(s, v) [] l = "kotlin" -> Kotlin!Query(s, v)
\* What the server makes of a body and of a query.
Taken(s, w) == IF Broken(w) THEN Err ELSE Parse(s, w, FALSE, FALSE)
Called(s, q) == Parse(s, q, FALSE, TRUE)

Init == /\ lang \in Langs /\ schema \in Schemas /\ value \in Documents(schema)
        /\ stage = "answer" /\ origin = Undef

Go(w, next) == /\ stage' = IF Throws(w) THEN "crashed" ELSE next
               /\ value' = IF Throws(w) THEN value ELSE w
ReadAnswer == /\ stage = "answer"
              /\ Go(Read(lang, schema, value), "model")
              /\ UNCHANGED <<lang, schema, origin>>
SendBody == /\ stage = "model"
            /\ Go(Write(lang, schema, value), "body")
            /\ UNCHANGED <<lang, schema, origin>>
\* The documentation of the servers allows nothing else in a query.
RECURSIVE Flat(_)
Flat(s) == IF s.form = "properties" THEN \A k \in Names(s.req \o s.opt) : Where(s.req \o s.opt, k).form \in {"type", "enum"}
           ELSE s.form = "discriminator" /\ \A p \in ToSet(s.mapping) : Flat(p[2])
SendQuery == /\ stage = "model" /\ Flat(schema)
             /\ Go(Query(lang, schema, value), "query")
             /\ UNCHANGED <<lang, schema, origin>>
Take(r) == /\ stage' = IF r.ok THEN "params" ELSE "refused"
           /\ value' = IF r.ok THEN r.v ELSE value
           /\ origin' = Undef
           /\ UNCHANGED <<lang, schema>>
TakeBody == stage = "body" /\ Take(Taken(schema, value))
TakeQuery == stage = "query" /\ Take(Called(schema, value))
\* An infinity that came in a query makes an answer that is no document.
Answer == /\ stage = "params"
          /\ LET w == Written(schema, value) IN Go(IF Broken(w) THEN Thrown ELSE w, "answer")
          /\ lang' \in Langs /\ origin' = value
          /\ UNCHANGED schema
Next == ReadAnswer \/ SendBody \/ SendQuery \/ TakeBody \/ TakeQuery \/ Answer
Spec == Init /\ [][Next]_vars

(***************************************************************************)
(* Properties.  A place is a part of a schema with the part of the value   *)
(* that stands there.                                                      *)
(***************************************************************************)
RECURSIVE Places(_, _)
Children(s, x) ==
  CASE s.form = "elements" /\ x.t = "arr" -> {<<s.elements, x.items[i]>> : i \in DOMAIN x.items}
    [] s.form = "values" -> {<<s.values, Get(x, k)>> : k \in Keys(x)}
    [] s.form = "properties" -> {<<p[2], Get(x, p[1])>> : p \in ToSet(s.req \o s.opt)}
    [] s.form = "discriminator" -> {<<p[2], x>> : p \in {q \in ToSet(s.mapping) : S(q[1]) = Get(x, s.key)}}
    [] s.form = "ref" /\ IsObject(x) -> {<<Named[s.ref], x>>}
    [] OTHER -> {}
Places(s, x) == {<<s, x>>} \cup UNION {Places(c[1], c[2]) : c \in Children(s, x)}
IsType(s, types) == s.form = "type" /\ s.type \in types

\* What a client does not read: a text in the place of a date or of a large
\* integer that is none, a number of too many milliseconds, a record of records,
\* and at the top no object at all.
Unreadable(l, s, x) ==
  \/ l \in {"dart", "kotlin"} /\ IsType(s, {"timestamp"}) /\ x.t = "str" /\ DateOf(x) = D("invalid")
  \/ l = "dart" /\ IsType(s, {"timestamp"}) /\ x.t = "num" /\ InType("int64", x.n) /\ DateOf(x) = D("invalid")
  \/ l \in {"ts", "dart"} /\ IsType(s, Bigs) /\ x.t = "str" /\ x.s \notin Integer
  \/ l = "ts" /\ IsType(s, Bigs) /\ x = N("1.5")
  \/ l = "ts" /\ s.form = "values" /\ s.values.form = "values" /\ Keys(x) # {}
\* A client reads any document, whatever stands in the place of a value.
ReadsAnyAnswer ==
  stage = "answer" /\ Throws(Read(lang, schema, value)) =>
    \/ lang = "dart" /\ value.t # "obj"
    \/ lang = "ts" /\ value = Null
    \/ \E p \in Places(schema, value) : Unreadable(lang, p[1], p[2])

\* A union whose variant the TypeScript client looks for under another key.
Unfound(s, x) == s.form = "discriminator" /\ IsObject(x) /\ Ts!Camel(s.key) # s.key
\* What a client lets through that the server refuses, or that cannot be written.
Unsendable(l, s, x) ==
  \/ l = "ts" /\ s.form = "values" /\ s.values.form = "values" /\ Keys(x) # {}
  \/ l = "ts" /\ s.form = "empty" /\ x = Undef
  \/ l = "ts" /\ x = D("invalid")
  \/ l \in {"ts", "dart"} /\ IsType(s, Bigs) /\ x.t = "big" /\ ~ InType(s.type, x.n)
  \/ l = "dart" /\ IsType(s, Ints) /\ x.t = "num" /\ ~ InType(s.type, x.n)
  \/ l = "kotlin" /\ IsType(s, Floats) /\ x \in {N("NaN"), N("Infinity")}
  \/ l \in {"rust", "swift"} /\ IsType(s, {"float32"}) /\ x = N("Infinity")
  \/ l = "ts" /\ Unfound(s, x)
\* The server takes what a client made of any document, good or bad.  The
\* TypeScript client holds for valid what it read from a server, but for the
\* int64 of which its lower limit, without a sign, leaves none, and a union whose
\* key is not in camel case.
ModelIsTaken ==
  stage = "model" =>
    /\ LET w == Write(lang, schema, value)
       IN (Throws(w) \/ ~ Taken(schema, w).ok) =>
            \E p \in Places(schema, value) : Unsendable(lang, p[1], p[2])
    /\ lang = "ts" /\ origin # Undef =>
         (Ts!Valid(schema, value) <=>
            \A p \in Places(schema, value) :
              ~ (IsType(p[1], {"int64"}) /\ p[2].t = "big") /\ ~ Unfound(p[1], p[2]))

\* What a client does not send back as it got it: null in an optional field, and
\* in Rust the optional fields of a variant, which it takes for required ones.
LostNull(l, s, x) ==
  /\ l # "ts" /\ s.form = "properties"
  /\ \E k \in Names(s.opt) : Get(x, k) = Null /\ (Where(s.opt, k).form = "empty" => l = "dart")
LostOption(l, s, x, there) ==
  /\ l = "rust" /\ s.form = "discriminator"
  /\ \E q \in ToSet(s.mapping) : /\ S(q[1]) = Get(x, s.key)
                               /\ \E k \in Names(q[2].opt) : (Get(x, k) # Undef) = there
\* A server answers with 64 bits in a float32 too.
LostDigits(l, s, x) ==
  /\ l \in {"rust", "swift", "kotlin"} /\ IsType(s, {"float32"})
  /\ x.t = "num" /\ x.n \notin Rust!Exact32
\* The server gets back from a client of any language the value it answered with.
BodyKeeps ==
  stage = "body" /\ origin # Undef =>
    \/ Taken(schema, value) = Ok(origin)
    \/ \E p \in Places(schema, origin) :
         \/ LostNull(lang, p[1], p[2]) \/ LostOption(lang, p[1], p[2], FALSE)
         \/ LostDigits(lang, p[1], p[2])
\* In a query the text null is null and, where nothing is percent encoded, a
\* separator ends the text.
LostText(l, s, x) ==
  \/ s.form = "type" /\ s.type = "string" /\ s.nullable /\ x = S("null")
  \/ l \in {"dart", "rust", "kotlin"} /\ x = S("a&b")
  \/ l = "ts" /\ s.form = "type" /\ s.type = "timestamp" /\ x = Null
\* The same by way of a query.
QueryKeeps ==
  stage = "query" /\ origin # Undef =>
    \/ Called(schema, value) = Ok(origin)
    \/ \E p \in Places(schema, origin) :
         \/ LostNull(lang, p[1], p[2]) \/ LostOption(lang, p[1], p[2], TRUE)
         \/ LostText(lang, p[1], p[2]) \/ LostDigits(lang, p[1], p[2])
==============================================================================
