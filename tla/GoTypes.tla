------------------------------- MODULE GoTypes -------------------------------
(***************************************************************************)
(* The Go types a handler's messages are made of, as reflection shows them *)
(* to the Go server, their zero values, the names of their fields on the   *)
(* wire, and the definition (an Arri schema) the server publishes of them. *)
(* Structs[n] is the struct a type refers to by name, so types can recur.  *)
(* A type nests less than the 1000 levels type_def.go allows.              *)
(***************************************************************************)
EXTENDS JsData

CONSTANT Structs

Kind(k) == [kind |-> k]          \* int8 .. uint64, float32, float64, string, boolean, timestamp, any
Slice(e) == [kind |-> "slice", elem |-> e]
GoMap(e) == [kind |-> "map", elem |-> e]
Ordered(e) == [kind |-> "ordered", elem |-> e]
Ptr(e) == [kind |-> "ptr", elem |-> e]
NullableOf(e) == [kind |-> "nullable", elem |-> e]
\* name is "" for an anonymous struct, key and enum are the tags.
Field(name, type) == [name |-> name, type |-> type, opt |-> FALSE, key |-> "", enum |-> <<>>]
OptField(name, type) == [Field(name, type) EXCEPT !.opt = TRUE]
Tagged(f, key, enum) == [f EXCEPT !.key = key, !.enum = enum]
StructOf(name, fields) == [kind |-> "struct", name |-> name, fields |-> fields]
\* variants: the discriminator's values with their structs.
UnionOf(name, key, variants) == [kind |-> "union", name |-> name, key |-> key, variants |-> variants]
StructRef(name) == [kind |-> "named", name |-> name]
Actual(T) == IF T.kind = "named" THEN Structs[T.name] ELSE T

\* A union's value: its only pointer that is set, or none of them.
Variant(tag, v) == [t |-> "variant", tag |-> tag, v |-> v]
Nil == [t |-> "nil"]             \* a nil slice

RECURSIVE Zero(_)
Zero(T) ==
  LET k == T.kind IN
  CASE k = "string" -> S("")
    [] k = "boolean" -> B(FALSE)
    [] k = "timestamp" -> D("isoZero")
    [] k \in Bigs -> Big("0")
    [] k \in Ints \cup Floats -> N("0")
    [] k = "slice" -> Nil
    [] k \in {"map", "ordered"} -> O(<<>>)
    [] k \in {"ptr", "nullable", "any"} -> Null
    [] k = "named" -> Zero(Structs[T.name])
    [] k = "union" -> Variant("", Null)
    [] k = "struct" -> O([n \in {T.fields[i].name : i \in DOMAIN T.fields} |->
         LET f == T.fields[CHOOSE i \in DOMAIN T.fields : T.fields[i].name = n]
         IN IF f.opt THEN Undef ELSE Zero(f.type)])

(***************************************************************************)
(* Names on the wire.  The casings are those of the strcase library.       *)
(***************************************************************************)
Casings == {"CAMEL_CASE", "SNAKE_CASE", "PASCAL_CASE"}
Forms == [Kind |-> <<"kind", "kind", "Kind">>, MaxAge |-> <<"maxAge", "max_age", "MaxAge">>,
          Next |-> <<"next", "next", "Next">>, Old_Name |-> <<"oldName", "old_name", "OldName">>]
ToLowerCamel(name) == Forms[name][1]
ToSnake(name) == Forms[name][2]
ToCamel(name) == Forms[name][3]
Cased(name, casing) == CASE casing = "PASCAL_CASE" -> name
                         [] casing = "SNAKE_CASE" -> ToSnake(name)
                         [] OTHER -> ToLowerCamel(name)
SerialKey(f, casing) == IF f.key # "" THEN f.key ELSE Cased(f.name, casing)
\* The definition asks strcase for PascalCase too, the codec uses the name.
DefKey(f, casing) == IF f.key = "" /\ casing = "PASCAL_CASE" THEN ToCamel(f.name)
                     ELSE SerialKey(f, casing)

(***************************************************************************)
(* The definition.  nullable, enum and parents are the context's: a type   *)
(* inherits the enum tag of the field it is reached from, whatever is in   *)
(* between, until a field of its own has a tag.                            *)
(***************************************************************************)
AsNullable(s, nullable) == IF nullable THEN Nullable(s) ELSE s
Cx(nullable, enum, parents, casing) ==
  [nullable |-> nullable, enum |-> enum, parents |-> parents, casing |-> casing]

RECURSIVE TypeDef(_, _)
FieldDef(f, cx) == <<DefKey(f, cx.casing),
  TypeDef(f.type, [cx EXCEPT !.nullable = FALSE, !.enum = IF f.enum # <<>> THEN f.enum ELSE @])>>
StructToTypeDef(T, cx) ==
  LET in == [cx EXCEPT !.parents = IF T.name = "" THEN @ ELSE @ \cup {T.name}]
      defs(opt) == LET fs == SelectSeq(T.fields, LAMBDA f : f.opt = opt)
                   IN [i \in DOMAIN fs |-> FieldDef(fs[i], in)]
  IN IF T.name # "" /\ T.name \in cx.parents THEN Ref(T.name)
     ELSE Struct(T.name, defs(FALSE), defs(TRUE), FALSE)
TaggedUnionToTypeDef(T, cx) ==
  LET in == [cx EXCEPT !.parents = @ \cup {T.name}, !.nullable = FALSE]
  IN IF T.name \in cx.parents THEN Ref(T.name)
     ELSE [Union(T.key, [i \in DOMAIN T.variants |->
             <<T.variants[i][1], StructToTypeDef(Actual(T.variants[i][2]), in)>>]) EXCEPT !.id = T.name]
PrimitiveToTypeDef(T, cx) ==
  IF T.kind = "string" /\ cx.enum # <<>> THEN Enum(ToSet(cx.enum)) ELSE Type(T.kind)
TypeDef(T, cx) ==
  LET k == T.kind
      inner(nullable) == TypeDef(T.elem, [cx EXCEPT !.nullable = nullable])
  IN CASE k = "ptr" -> inner(TRUE)
       [] k = "nullable" -> Nullable(TypeDef(T.elem, cx))
       \* What a pointer to an ordered map may be goes to its values.
       [] k = "ordered" -> Record(inner(cx.nullable))
       [] k = "slice" -> AsNullable(List(inner(FALSE)), cx.nullable)
       [] k = "map" -> AsNullable(Record(inner(FALSE)), cx.nullable)
       [] k = "any" -> AsNullable(AnyS, cx.nullable)
       [] k = "named" -> TypeDef(Structs[T.name], cx)
       [] k = "struct" -> AsNullable(StructToTypeDef(T, cx), cx.nullable)
       [] k = "union" -> AsNullable(TaggedUnionToTypeDef(T, cx), cx.nullable)
       [] OTHER -> AsNullable(PrimitiveToTypeDef(T, cx), cx.nullable)
ToTypeDef(T, casing) == TypeDef(T, Cx(FALSE, <<>>, {}, casing))
===============================================================================
