------------------------------ MODULE TsCompiled ------------------------------
(***************************************************************************)
(* The compiled validators of @arrirpc/schema (compile.ts and compiler/):   *)
(* templates produce the text of JavaScript functions.  What the text does *)
(* depends on the variables it names, so validation is evaluated over the   *)
(* expressions of the text.                                                *)
(***************************************************************************)
EXTENDS TsSchema

(***************************************************************************)
(* Sites: for every schema with an id that contains a reference to itself,  *)
(* the expression at which the template first met it.  The body of its     *)
(* function is written there.  An expression is a variable and a path.     *)
(***************************************************************************)
Expr(base, path) == [base |-> base, path |-> path]
Field(e, k) == [e EXCEPT !.path = Append(@, k)]
KeyOf(e) == Field(e, "[key]")

RECURSIVE Refers(_, _)
Refers(s, id) ==
  CASE s.form = "ref" -> s.ref = id
    [] s.form = "elements" -> Refers(s.elements, id)
    [] s.form = "values" -> Refers(s.values, id)
    [] s.form = "properties" ->
         \E i \in DOMAIN (s.req \o s.opt) : Refers((s.req \o s.opt)[i][2], id)
    [] s.form = "discriminator" ->
         \E i \in DOMAIN s.mapping : Refers(s.mapping[i][2], id)
    [] OTHER -> FALSE
Recursive(s) == s.form \in {"properties", "discriminator"} /\ s.id # "" /\ Refers(s, s.id)
\* item: the loop variable of an array; deep: inside the loop of a record.
RECURSIVE Site(_, _)
SiteIn(ps, e) == FoldLeft(LAMBDA acc, p : acc @@ Site(p[2], Field(e, p[1])), <<>>, ps)
Site(s, e) ==
  LET inner == CASE s.form = "elements" -> Site(s.elements, Expr("item", <<>>))
                 [] s.form = "values" -> Site(s.values, KeyOf(e))
                 [] s.form = "properties" -> SiteIn(s.req \o s.opt, e)
                 [] s.form = "discriminator" ->
                      FoldLeft(LAMBDA acc, p : acc @@ Site(p[2], e), <<>>, s.mapping)
                 [] OTHER -> <<>>
  IN IF Recursive(s) THEN inner @@ (s.id :> e) ELSE inner

(***************************************************************************)
(* validate: one expression.  A template gives the operands of its text in  *)
(* order, with "or" where the text has || outside parentheses; an operand   *)
(* is true, false or an exception.                                         *)
(***************************************************************************)
Yes == "true"
No == "false"
Throw == "throw"
Holds(b) == IF b THEN Yes ELSE No
\* && binds more tightly than ||; both are evaluated from the left.
Evaluate(text) ==
  LET step(a, r) == CASE a.done -> a
                      [] r = "or" -> IF a.cur = No THEN [a EXCEPT !.cur = Yes]
                                     ELSE [a EXCEPT !.done = TRUE]
                      [] a.cur = Yes -> [a EXCEPT !.cur = r]
                      [] OTHER -> a
  IN FoldLeft(step, [cur |-> Yes, done |-> FALSE], text).cur
\* Reading an expression: a property of undefined or null throws, and so does
\* a variable that is not declared where the text stands.
Read(e, env) ==
  FoldLeft(LAMBDA v, k :
      LET key == IF k = "[key]" THEN env.key ELSE k
      IN IF v \in {Thrown, Undef, Null} \/ key = "" THEN Thrown ELSE Get(v, key),
    IF e.base = "input" THEN env.input ELSE env.item, e.path)
\* typeof e === 'object' && e !== null: typeof accepts an undeclared variable.
IsObjectText(e, env) ==
  LET v == Read(e, env)
  IN IF v = Thrown /\ e.path # <<>> THEN Throw ELSE Holds(IsObject(v))

RECURSIVE Checks(_, _, _, _)
CheckScalar(s, v) ==
  Holds(CASE s.form = "enum" -> v.t = "str" /\ v.s \in s.enum
          [] s.type \in Floats -> v.t = "num" /\ v.n # "NaN"
          [] s.type = "uint64" -> v.t = "big" /\ Rank[v.n] >= Rank["0"]
          [] OTHER -> ValidateType(s.type, v))
\* tag is the discriminator's field when the object is a variant of a union.
CheckStruct(s, e, env, tag, sites) ==
  LET v == Read(e, env)
      head == IF tag = <<>> THEN IsObjectText(e, env)
              ELSE Holds(\A k \in DOMAIN tag : Get(v, k) = tag[k])
      allowed == Names(s.req) \cup Names(s.opt) \cup
                 (IF tag = <<>> THEN {"undefined"} ELSE DOMAIN tag)
      strict == IF v \in {Undef, Null, Thrown} THEN Throw
                ELSE Holds(s.strict => Keys(v) \subseteq allowed)
      part(p) == Checks(p[2], Field(e, p[1]), env, sites)
      opt(p) == IF Read(Field(e, p[1]), env) = Undef THEN <<Yes>>
                ELSE <<Evaluate(part(p))>>
  IN <<head, strict>> \o FlattenSeq([i \in DOMAIN s.req |-> part(s.req[i])])
                      \o FlattenSeq([i \in DOMAIN s.opt |-> opt(s.opt[i])])
CheckUnion(s, e, env, sites) ==
  LET variants == FoldLeft(LAMBDA a, p :
        a \o <<"or">> \o CheckStruct(p[2], e, env, s.key :> S(p[1]), sites), <<No>>, s.mapping)
  IN <<IsObjectText(e, env), Evaluate(variants)>>
\* The call of a function: only its parameter is bound in its body.
Call(s, v, sites) ==
  LET env == [input |-> v, item |-> Thrown, key |-> ""]
  IN Evaluate(IF s.form = "properties" THEN CheckStruct(s, sites[s.id], env, <<>>, sites)
              ELSE CheckUnion(s, sites[s.id], env, sites))
CheckList(s, v, env, sites) ==
  [i \in DOMAIN v.items |-> Evaluate(
     Checks(s.elements, Expr("item", <<>>), [env EXCEPT !.item = v.items[i]], sites))]
CheckRecord(s, e, v, env, sites) ==
  LET ks == SetToSeq(Keys(v))
  IN [i \in DOMAIN ks |-> Evaluate(Checks(s.values, KeyOf(e), [env EXCEPT !.key = ks[i]], sites))]
CheckForm(s, e, v, env, sites) ==
  CASE s.form \in {"type", "enum"} -> <<CheckScalar(s, v)>>
    [] s.form = "ref" -> <<Call(Named[s.ref], v, sites)>>
    [] Recursive(s) -> <<Call(s, v, sites)>>
    [] s.form = "elements" ->
         <<IF v.t = "arr" THEN Evaluate(CheckList(s, v, env, sites)) ELSE No>>
    [] s.form = "values" ->
         <<IF IsObject(v) THEN Evaluate(CheckRecord(s, e, v, env, sites)) ELSE No>>
    [] s.form = "properties" -> CheckStruct(s, e, env, <<>>, sites)
    [] s.form = "discriminator" -> CheckUnion(s, e, env, sites)
Checks(s, e, env, sites) ==
  LET v == Read(e, env) IN
  CASE s.form = "empty" -> <<Yes>>
    \* a nullable int64 or uint64 is the only template without parentheses
    [] s.nullable /\ s.form = "type" /\ s.type \in Bigs ->
         IF v = Thrown THEN <<Throw, "or", Throw>>
         ELSE <<CheckScalar(s, v), "or", Holds(v = Null)>>
    [] v = Thrown -> <<Throw>>
    [] s.nullable /\ s.form = "ref" /\ v = Null -> <<Yes>>
    [] s.nullable ->
         <<Evaluate(<<Evaluate(CheckForm(s, e, v, env, sites)), "or", Holds(v = Null)>>)>>
    [] OTHER -> CheckForm(s, e, v, env, sites)
CompiledValidate(s, x) ==
  LET top == Expr("input", <<>>)
  IN Evaluate(Checks(s, top, [input |-> x, item |-> Thrown, key |-> ""], Site(s, top)))

(***************************************************************************)
(* parse and coerce.  Scalars at the top have decoders of their own.       *)
(***************************************************************************)
DecodeBoolean(x, co) ==
  CASE x.t = "bool" -> Ok(x)
    [] x = S("true") \/ (co /\ x \in {S("TRUE"), S("1"), N("1")}) -> Ok(B(TRUE))
    [] x = S("false") \/ (co /\ x \in {S("FALSE"), S("0"), N("0")}) -> Ok(B(FALSE))
    [] OTHER -> Err
DecodeNumber(ty, x) ==
  LET n == CASE x.t = "num" -> x.n [] IsString(x) -> NumberOf(x) [] OTHER -> "NaN"
  IN Result(IF ty \in Floats THEN n # "NaN" ELSE InType(ty, n), N(n))
DecodeBigInt(ty, x) ==
  LET n == CASE x.t = "big" -> x.n
             [] x.t = "num" \/ IsString(x) -> BigOf(x)
             [] OTHER -> "NaN"
  IN Result(n # "NaN" /\ InType(ty, n), Big(n))
DecodeTimestamp(x, co) ==
  CASE x.t = "date" -> Ok(x)
    [] IsString(x) \/ (co /\ x.t = "num") -> Result(DateOf(x) # D("invalid"), DateOf(x))
    [] OTHER -> Err
DecodeTop(s, x, co) ==
  CASE s.nullable /\ x \in {Null, S("null")} -> Ok(Null)
    [] s.form = "enum" -> Result(x.t = "str" /\ x.s \in s.enum, x)
    [] s.type = "string" -> Result(IsString(x), x)
    [] s.type = "boolean" -> DecodeBoolean(x, co)
    [] s.type = "timestamp" -> DecodeTimestamp(x, co)
    [] s.type \in Bigs -> DecodeBigInt(s.type, x)
    [] OTHER -> DecodeNumber(s.type, x)

\* The templates of the scalars inside a document.
TemplateBigInt(s, x) ==
  LET n == CASE x.t = "big" -> x.n
             [] x.t = "num" \/ IsString(x) -> BigOf(x)
             [] OTHER -> "NaN"
  IN Result(n # "NaN" /\ (s.type = "uint64" => Rank[n] >= Rank["0"]), Big(n))
TemplateTimestamp(x, co) ==
  CASE x.t = "date" -> Ok(x)
    [] co /\ (IsString(x) \/ x.t = "num") -> Result(DateOf(x) # D("invalid"), DateOf(x))
    [] IsString(x) -> Ok(DateOf(x))
    [] OTHER -> Err
TemplateNumber(s, x, co) ==
  LET n == CASE x.t = "num" -> x.n [] co /\ IsString(x) -> NumberOf(x) [] OTHER -> "NaN"
  IN Result(IF s.type \in Floats THEN n # "NaN" ELSE InType(s.type, n), N(n))
TemplateScalar(s, x, co) ==
  CASE s.nullable /\ x = Null -> Ok(Null)
    [] s.form = "enum" -> Result(x.t = "str" /\ x.s \in s.enum, x)
    [] s.type = "string" -> Result(IsString(x), x)
    \* what follows also takes the text null when it coerces
    [] s.nullable /\ co /\ x = S("null") -> Ok(Null)
    [] s.type = "boolean" -> IF co THEN DecodeBoolean(x, co) ELSE Result(x.t = "bool", x)
    [] s.type = "timestamp" -> TemplateTimestamp(x, co)
    [] s.type \in Bigs -> TemplateBigInt(s, x)
    [] OTHER -> TemplateNumber(s, x, co)

RECURSIVE Template(_, _, _, _)
\* Mutant: optional fields are read as if they were required.
TemplateAllFields(s, x, co, tag, sites) ==
  LET r == [k \in Names(s.req \o s.opt) |-> Template(Where(s.req \o s.opt, k), Get(x, k), co, sites)]
  IN Result(All(r), Present(Vals(r) @@ tag))
TemplateStruct(s, x, co, tag, sites) ==
  LET given == {k \in Names(s.opt) : Get(x, k) # Undef}
      r == [k \in Names(s.req) |-> Template(Where(s.req, k), Get(x, k), co, sites)] @@
           [k \in given |-> Template(Where(s.opt, k), Get(x, k), co, sites)]
      allowed == Names(s.req) \cup Names(s.opt) \cup DOMAIN tag
  IN Result((s.strict => Keys(x) \subseteq allowed) /\ All(r), Present(Vals(r) @@ tag))
TemplateUnion(s, x, co, sites) ==
  LET v == Get(x, s.key)
  IN IF v.t = "str" /\ v.s \in Names(s.mapping)
     THEN TemplateStruct(Where(s.mapping, v.s), x, co, s.key :> v, sites)
     ELSE Err
\* The function of a recursive schema.  When its text was written for the items
\* of an array, renaming the item renames the target too: nothing is returned.
TemplateCall(s, x, co, sites) ==
  LET r == IF ~ IsObject(x) THEN Err
           ELSE IF s.form = "properties" THEN TemplateStruct(s, x, co, <<>>, sites)
           ELSE TemplateUnion(s, x, co, sites)
  IN IF r.ok /\ sites[s.id] = Expr("item", <<>>) THEN Ok(Undef) ELSE r
Template(s, x, co, sites) ==
  CASE s.form \in {"type", "enum"} -> TemplateScalar(s, x, co)
    [] s.form = "empty" -> Ok(x)
    [] s.nullable /\ x = Null -> Ok(Null)
    [] s.form = "ref" -> TemplateCall(Named[s.ref], x, co, sites)
    [] Recursive(s) -> TemplateCall(s, x, co, sites)
    [] s.form = "elements" ->
         IF x.t # "arr" THEN Err
         ELSE LET r == [i \in DOMAIN x.items |-> Template(s.elements, x.items[i], co, sites)]
              IN Result(All(r), A(Vals(r)))
    [] ~ IsObject(x) -> Err
    [] s.form = "values" ->
         LET r == [k \in Keys(x) |-> Template(s.values, Get(x, k), co, sites)]
         IN Result(All(r), O(Vals(r)))
    [] s.form = "properties" -> TemplateStruct(s, x, co, <<>>, sites)
    [] s.form = "discriminator" -> TemplateUnion(s, x, co, sites)
\* JSON.parse of what is not a string: of an array it reads the text of its items.
ParseAny(x) ==
  CASE IsString(x) -> IF JsonParse(x) = Bad THEN x ELSE JsonParse(x)
    [] x.t = "arr" /\ Len(x.items) = 1 /\ x.items[1].t \in {"num", "bool", "str"} ->
         LET item == x.items[1]
             y == JsonParse(IF IsString(item) THEN item ELSE Text(item))
         IN IF y = Bad THEN x ELSE y
    [] OTHER -> x
CompiledParse(s, x, co) ==
  CASE s.form \in {"type", "enum"} -> DecodeTop(s, x, co)
    [] s.form = "empty" -> Ok(ParseAny(x))
    [] IsString(x) -> IF JsonParse(x) = Bad THEN Err
                      ELSE Template(s, JsonParse(x), co, Site(s, Expr("input", <<>>)))
    [] OTHER -> Template(s, x, co, Site(s, Expr("input", <<>>)))

(***************************************************************************)
(* serialize.  Nothing: the template writes neither key nor value.          *)
(* inRecord: the value is read through the loop variable of a record.      *)
(***************************************************************************)
Nothing == [t |-> "nothing"]
EmitScalar(s, x) ==
  CASE s.nullable /\ (x = Null \/ x = N("NaN")) -> Null
    [] x = N("NaN") -> Thrown
    [] OTHER -> WrittenScalar(x)
RECURSIVE Emit(_, _, _)
\* The fields in order; a required field but the first is written after a comma.
EmitStruct(s, x, tag, inRecord) ==
  LET fields == s.req \o SelectSeq(s.opt, LAMBDA p : Get(x, p[1]) # Undef)
      w == [i \in DOMAIN fields |-> Emit(fields[i][2], Get(x, fields[i][1]), inRecord)]
      shown == {i \in DOMAIN fields : w[i] # Nothing}
      first == tag # <<>> \/ s.req = <<>> \/ shown = {} \/ 1 \in shown
      body == [k \in {fields[i][1] : i \in shown} |->
                 w[CHOOSE i \in shown : fields[i][1] = k]]
  IN IF \E i \in shown : Throws(w[i]) THEN Thrown
     ELSE IF first THEN O(body @@ tag) ELSE Bad
EmitList(s, x) ==
  LET w == [i \in DOMAIN x.items |-> Emit(s.elements, x.items[i], FALSE)]
  IN CASE \A i \in DOMAIN w : w[i] # Nothing -> A(w)
       [] Len(w) = 1 -> A(<<>>)
       [] OTHER -> Bad
EmitRecord(s, x, inRecord) ==
  IF inRecord /\ Keys(x) # {} THEN Thrown          \* const innerVal = innerVal[key]
  ELSE O([k \in Keys(x) |-> LET w == Emit(s.values, Get(x, k), TRUE)
                            IN IF w = Nothing THEN Bad ELSE w])
EmitForm(s, x, inRecord) ==
  CASE s.form = "properties" -> EmitStruct(s, x, <<>>, inRecord)
    [] s.form = "discriminator" ->
         LET v == Get(x, s.key) IN EmitStruct(Where(s.mapping, v.s), x, s.key :> v, inRecord)
Emit(s, x, inRecord) ==
  CASE s.form \in {"type", "enum"} -> EmitScalar(s, x)
    [] s.form = "empty" -> IF x = Undef THEN Nothing ELSE WrittenAny(x)
    [] s.nullable /\ ~ IsObject(x) -> Null
    [] s.form = "ref" -> EmitForm(Named[s.ref], x, FALSE)
    [] s.form = "elements" -> EmitList(s, x)
    [] s.form = "values" -> EmitRecord(s, x, inRecord)
    [] OTHER -> EmitForm(s, x, inRecord /\ ~ Recursive(s))
\* The pattern of the characters to escape is declared when a string template asks for it.
RECURSIVE Strings(_)
Strings(s) ==
  CASE s.form = "type" -> s.type = "string"
    [] s.form = "elements" -> Strings(s.elements)
    [] s.form = "values" -> Strings(s.values)
    [] s.form = "properties" -> \E i \in DOMAIN (s.req \o s.opt) : Strings((s.req \o s.opt)[i][2])
    [] s.form = "discriminator" -> \E i \in DOMAIN s.mapping : Strings(s.mapping[i][2])
    [] OTHER -> FALSE
LongKey == "longKey"                               \* 42 characters or more
RECURSIVE LongKeys(_, _)
LongKeys(s, x) ==
  CASE s.form = "values" /\ IsObject(x) ->
         LongKey \in Keys(x) \/ \E k \in Keys(x) : LongKeys(s.values, Get(x, k))
    [] s.form = "elements" /\ x.t = "arr" -> \E i \in DOMAIN x.items : LongKeys(s.elements, x.items[i])
    [] s.form = "properties" -> \E p \in Range(s.req \o s.opt) : LongKeys(p[2], Get(x, p[1]))
    [] OTHER -> FALSE
CompiledSerialize(s, x) ==
  LET w == Emit(s, x, FALSE)
  IN CASE s.form = "type" -> IF s.nullable /\ x = Null THEN Ok(S("null")) ELSE
                             IF x = D("invalid") THEN Err ELSE Ok(Bare(x))
       [] s.form = "enum" -> Ok(IF s.nullable /\ ~ (x.t = "str" /\ x.s \in s.enum)
                                THEN S("null") ELSE x)
       [] w = Nothing -> Ok(S(""))
       [] Throws(w) \/ (~ Strings(s) /\ LongKeys(s, x)) -> Err
       [] OTHER -> Ok(Text(w))
===============================================================================
