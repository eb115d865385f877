------------------------------ MODULE SchemaOps ------------------------------
(***************************************************************************)
(* A schema in use.  The server reads a request, hands the value to a      *)
(* handler and writes the response; a client reads it back.  Any of these  *)
(* steps may be done by the closures of the schema or by its compiled       *)
(* validator: rpc.ts falls back to the closures for every procedure once   *)
(* one schema fails to compile, and the two ends decide separately.        *)
(***************************************************************************)
EXTENDS TsCompiled

CONSTANTS Schemas, Inputs,
          Bottomless   \* a depth no input reaches
ASSUME BottomlessAssumption == Bottomless \in Nat /\ Bottomless > DepthLimit
ASSUME InputsAreValues == \A x \in Inputs : x.t \in
  {"undef", "null", "bool", "num", "big", "str", "date", "arr", "obj", "text"}

VARIABLES schema,   \* the schema of the message
          value,    \* what the last step returned
          stage,    \* how far the message got
          sent      \* the value that was written, or Undef
vars == <<schema, value, stage, sent>>

By == {"closures", "compiled"}
Other(by) == CHOOSE o \in By : o # by

ParseBy(by, s, x, co) == IF by = "closures" THEN Parse(s, x, TRUE, co) ELSE CompiledParse(s, x, co)
ValidateBy(by, s, x) == IF by = "closures" THEN Holds(Validate(s, x)) ELSE CompiledValidate(s, x)
SerializeBy(by, s, x) == IF by = "closures" THEN Serialize(s, x) ELSE CompiledSerialize(s, x)

Init == schema \in Schemas /\ value \in Inputs /\ stage = "given" /\ sent = Undef

\* A step that fails ends the message's journey.
Take(r, next) == IF r.ok THEN value' = r.v /\ stage' = next
                 ELSE UNCHANGED value /\ stage' = "failed"
ParseStep(by, co) ==
  /\ stage = "given"
  /\ Take(ParseBy(by, schema, value, co), "parsed")
  /\ UNCHANGED <<schema, sent>>
ValidateStep(by) ==
  /\ stage = "given"
  /\ stage' = IF ValidateBy(by, schema, value) = Yes THEN "parsed" ELSE "failed"
  /\ UNCHANGED <<schema, value, sent>>
SerializeStep(by) ==
  /\ stage = "parsed"
  /\ Take(SerializeBy(by, schema, value), "written")
  /\ sent' = IF stage' = "written" THEN value ELSE sent
  /\ UNCHANGED schema
ReadBackStep(by) ==
  /\ stage = "written"
  /\ Take(ParseBy(by, schema, value, FALSE), "read")
  /\ UNCHANGED <<schema, sent>>
Next == \E by \in By :
  \/ \E co \in BOOLEAN : ParseStep(by, co)
  \/ ValidateStep(by)
  \/ SerializeStep(by)
  \/ ReadBackStep(by)
Spec == Init /\ [][Next]_vars

(***************************************************************************)
(* What the two implementations are known to treat differently is excluded *)
(* by schema: Sound(s) for what a document is worth, Strict(s) for what it  *)
(* must be refused for.                                                    *)
(***************************************************************************)
Parts(s) == CASE s.form = "elements" -> {s.elements}
              [] s.form = "values" -> {s.values}
              [] s.form = "properties" -> {p[2] : p \in ToSet(s.req \o s.opt)}
              [] s.form = "discriminator" -> {p[2] : p \in ToSet(s.mapping)}
              [] OTHER -> {}
RECURSIVE Below(_)
Below(s) == UNION {{p} \cup Below(p) : p \in Parts(s)}
\* No flag the closures do not follow (extend, pick, partial); no function for
\* a recursive schema but at the top; no record in a record; no strict variant,
\* which the closures validate against its fields without the discriminator;
\* no any, whose undefined the two write in different ways.
Sound(s) ==
  /\ \A p \in Below(s) \cup {s} : p.nullable = p.accepts /\ p.form # "empty"
  /\ \A p \in Below(s) : ~ Recursive(p)
  /\ \A p \in Below(s) \cup {s} : p.form = "values" => \A q \in Below(p) : q.form # "values"
  /\ \A p \in Below(s) \cup {s} : p.form = "discriminator" => \A v \in Parts(p) : ~ v.strict
\* The templates inside a document do not limit int64 and uint64 and take any
\* text for a date; the template of a float refuses NaN, the closure does not.
Lenient(s) == s.form = "type" /\ s.type \in Bigs \cup {"timestamp"} \cup Floats
Strict(s) == Sound(s) /\ ~ Lenient(s) /\ \A p \in Below(s) : ~ Lenient(p)

\* An object the closures do not coerce the fields of.
Picked(s) == \E p \in Below(s) \cup {s} : p.form = "properties" /\ ~ p.coerces

RECURSIVE Leaves(_)
Leaves(x) == CASE x.t = "arr" -> UNION {Leaves(x.items[i]) : i \in DOMAIN x.items}
               [] x.t = "obj" -> {S(k) : k \in DOMAIN x.f} \cup UNION {Leaves(x.f[k]) : k \in DOMAIN x.f}
               [] x.t = "text" -> Leaves(x.v)
               [] OTHER -> {x}
\* Texts that one of the two takes for null or undefined when it coerces.
Words == {S("null"), S("undefined")}
\* What JSON cannot express, and the key whose pattern may not be declared.
Unwritable == {N("NaN"), N("Infinity"), D("invalid"), S(LongKey)}
Timestamp(s) == s.form = "type" /\ s.type = "timestamp"
Compared(s, x, co) == co => (Leaves(x) \cap Words = {} /\ ~ Timestamp(s))

\* The compiled code has no limit to the depth: it is compared with closures whose
\* limit no input reaches, and the closures are those up to theirs.
Unlimited(s, x, co) == ParseWithin(s, x, TRUE, co, Bottomless)
\* The depth alone keeps the closures from reading a value, or from writing it.
TooDeep(s, x) == Unlimited(s, x, FALSE).ok /\ ~ Parse(s, x, TRUE, FALSE).ok
TooDeepToWrite(s, x) == Throws(Written(s, x)) /\ ~ Throws(WrittenWithin(s, x, Bottomless))

\* What the closures of a schema read, its compiled parser reads, and as the same
\* value; what they refuse to read or call invalid, the compiled code refuses too,
\* and its validation never throws.  Whoever read a value, both call it valid - no
\* later check fails on it - and both write it, as the same JSON document.  But the
\* compiled code reads and writes what is too deep for the closures, and coerces
\* the fields of a picked schema.
CompiledAgrees ==
  /\ stage = "given" =>
    /\ \A co \in BOOLEAN : Compared(schema, value, co) =>
         LET r == Unlimited(schema, value, co)
             c == CompiledParse(schema, value, co)
         IN /\ Parse(schema, value, TRUE, co) \in {r, Err}
            /\ Sound(schema) /\ r.ok => c = r
            /\ Strict(schema) /\ ~ (co /\ Picked(schema)) /\ ~ r.ok => ~ c.ok
    /\ Strict(schema) => CompiledValidate(schema, value) = Holds(Validate(schema, value))
  /\ stage = "parsed" =>
    /\ Strict(schema) => \A by \in By : ValidateBy(by, schema, value) = Yes
    /\ Sound(schema) /\ Leaves(value) \cap Unwritable = {} /\ ~ TooDeepToWrite(schema, value) =>
         LET r == Serialize(schema, value)
         IN r.ok /\ CompiledSerialize(schema, value) = r /\ (r.v.t = "text" /\ schema.form # "type" => ~ Broken(r.v.v))

\* Whoever wrote a valid value and whoever reads it, it comes back as it was, less the
\* fields its schema does not know, unless it is too deep for the closures: one is
\* written at depths at which it is not read.  A nullable scalar takes the text null.
RoundTrip ==
  /\ Sound(schema) /\ Validate(schema, sent) /\ Leaves(sent) \cap Unwritable = {}
  /\ ~ (schema.nullable /\ sent = S("null")) /\ ~ TooDeep(schema, sent)
  => /\ stage # "failed"
     /\ stage = "read" => value = Parse(schema, sent, FALSE, FALSE).v
===============================================================================
