--------------------------- MODULE ReferenceModels ---------------------------
(***************************************************************************)
(* The models of the reference client (ts-codegen-reference), which every  *)
(* generator of the repository is tested with: an object with a field of   *)
(* every type, the same with all of its fields optional and with all of    *)
(* them nullable, a union of three variants and an object that holds       *)
(* itself.                                                                 *)
(***************************************************************************)
EXTENDS JsData

LOCAL INSTANCE ClientData WITH Named <- <<>>

Book == Struct("Book", << <<"id", Type("string")>>, <<"name", Type("string")>>,
  <<"createdAt", Type("timestamp")>>, <<"updatedAt", Type("timestamp")>> >>, <<>>, FALSE)
BookParams == Struct("BookParams", << <<"bookId", Type("string")>> >>, <<>>, FALSE)
NestedObject == Struct("NestedObject",
  << <<"id", Type("string")>>, <<"content", Type("string")>> >>, <<>>, FALSE)
Enumerator == EnumFrom("FOO", {"BAR", "BAZ"})
DiscriminatorA == Struct("DiscriminatorA", << <<"id", Type("string")>> >>, <<>>, FALSE)
DiscriminatorB == Struct("DiscriminatorB",
  << <<"id", Type("string")>>, <<"name", Type("string")>> >>, <<>>, FALSE)
DiscriminatorC == Struct("DiscriminatorC",
  << <<"id", Type("string")>>, <<"name", Type("string")>>, <<"date", Type("timestamp")>> >>, <<>>, FALSE)
Discriminator == Union("typeName",
  << <<"A", DiscriminatorA>>, <<"B", DiscriminatorB>>, <<"C", DiscriminatorC>> >>)

Scalars == << <<"string", Type("string")>>, <<"boolean", Type("boolean")>>,
  <<"timestamp", Type("timestamp")>>, <<"float32", Type("float32")>>, <<"float64", Type("float64")>>,
  <<"int8", Type("int8")>>, <<"uint8", Type("uint8")>>, <<"int16", Type("int16")>>,
  <<"uint16", Type("uint16")>>, <<"int32", Type("int32")>>, <<"uint32", Type("uint32")>>,
  <<"int64", Type("int64")>>, <<"uint64", Type("uint64")>>, <<"enum", Enumerator>> >>
EveryType == Scalars \o << <<"object", NestedObject>>, <<"array", List(Type("boolean"))>>,
  <<"record", Record(Type("boolean"))>>, <<"discriminator", Discriminator>>, <<"any", AnyS>> >>
AllNullable(fields) == [i \in DOMAIN fields |-> <<fields[i][1], Nullable(fields[i][2])>>]
ObjectWithEveryType == Struct("ObjectWithEveryType", EveryType, <<>>, FALSE)
ObjectWithOptionalFields == Struct("ObjectWithOptionalFields", <<>>, EveryType, FALSE)
ObjectWithNullableFields == Struct("ObjectWithNullableFields", AllNullable(EveryType), <<>>, FALSE)

RecursiveObject == Struct("RecursiveObject", << <<"left", Nullable(Ref("RecursiveObject"))>>,
  <<"right", Nullable(Ref("RecursiveObject"))>> >>, <<>>, FALSE)
==============================================================================
