-------------------------------- MODULE Codec --------------------------------
(***************************************************************************)
(* Schemas and the codec that scripts/codegen/typescript/main.ts generates *)
(* from them (web/src/protocol/generated/rpc.ts, wire.ts): how a value of  *)
(* a schema type becomes a CborValue and back.  A struct's or a variant's  *)
(* fields are a function from field names to values; an optional field     *)
(* that is absent is not in its domain.  Primitive values are CborValues.  *)
(***************************************************************************)
EXTENDS Cbor

U53 == [kind |-> "u53"]
I53 == [kind |-> "i53"]
Float == [kind |-> "f64"]
String == [kind |-> "text"]
Boolean == [kind |-> "bool"]
Binary == [kind |-> "bytes"]
Void == [kind |-> "void"]
ListOf(item) == [kind |-> "list", item |-> item]
Enum(ids) == [kind |-> "enum", ids |-> ids]
ByName(members) ==
    [name \in {members[i].name : i \in DOMAIN members} |->
        members[CHOOSE i \in DOMAIN members : members[i].name = name]]
Struct(fields) == [kind |-> "struct", fields |-> ByName(fields)]
Union(variants) == [kind |-> "union", variants |-> ByName(variants), first |-> variants[1].name]
Variant(id, name, fields) == [id |-> id, name |-> name, fields |-> ByName(fields)]
Required(id, name, type) == [id |-> id, name |-> name, type |-> type, optional |-> FALSE]
Optional(id, name, type) == [id |-> id, name |-> name, type |-> type, optional |-> TRUE]

StructValue(fields) == [k |-> "struct", fields |-> fields]
UnionValue(name, fields) == [k |-> "union", variant |-> name, fields |-> fields]
ListValue(items) == [k |-> "list", elements |-> items]
VoidValue == [k |-> "void"]

\* validateUniqueIds, for the fields or the variants of a declaration, and
\* validateSchema for a type and those it is made of.
UniqueIds(members) ==
    \A m, n \in DOMAIN members : members[m].id = members[n].id => m = n

RECURSIVE Valid(_)
ValidFields(fields) ==
    UniqueIds(fields) /\ \A name \in DOMAIN fields : Valid(fields[name].type)
Valid(type) ==
    CASE type.kind = "list" -> Valid(type.item)
      [] type.kind = "struct" -> ValidFields(type.fields)
      [] type.kind = "union" ->
            /\ UniqueIds(type.variants)
            /\ \A name \in DOMAIN type.variants : ValidFields(type.variants[name].fields)
      [] type.kind = "enum" -> IsInjective(type.ids)
      [] OTHER -> TRUE

-----------------------------------------------------------------------------
(* Encoding: the encode...Value functions, on values of their type *)

RECURSIVE encodeValue(_, _)

\* emitEncodeField, for every field that is there.
encodeFields(fields, values) ==
    LET Named(id) == CHOOSE name \in DOMAIN values : fields[name].id = id
    IN  Map(Kept([id \in {fields[name].id : name \in DOMAIN values} |->
                     encodeValue(fields[Named(id)].type, values[Named(id)])]))

encodeUnion(variants, value) ==
    Array(<<Whole(variants[value.variant].id),
            encodeFields(variants[value.variant].fields, value.fields)>>)

encodeOf(type, value) ==
    CASE type.kind = "void" -> Null
      [] type.kind = "list" ->
            Array(Kept([i \in DOMAIN value.elements |->
                           encodeValue(type.item, value.elements[i])]))
      [] type.kind = "struct" -> encodeFields(type.fields, value.fields)
      [] type.kind = "union" -> encodeUnion(type.variants, value)
      [] OTHER -> value
encodeValue(type, value) == Bind(type, LAMBDA t : Bind(value, LAMBDA v : encodeOf(t, v)))

-----------------------------------------------------------------------------
(* Defaults of absent required fields, and decoding *)

RECURSIVE defaultValue(_)
defaultFields(fields) ==
    [name \in {n \in DOMAIN fields : ~fields[n].optional} |-> defaultValue(fields[name].type)]

defaultValue(type) ==
    CASE type.kind = "void" -> VoidValue
      [] type.kind = "list" -> ListValue(<<>>)
      [] type.kind = "text" -> Text(<<>>)
      [] type.kind = "bool" -> Bool(FALSE)
      [] type.kind = "bytes" -> Bytes(<<>>)
      [] type.kind \in {"u53", "i53"} -> Whole(0)
      [] type.kind = "f64" -> F64(<<0, 0, 0, 0, 0, 0, 0, 0>>)
      [] type.kind = "enum" -> Whole(type.ids[1])
      [] type.kind = "struct" -> StructValue(defaultFields(type.fields))
      [] type.kind = "union" ->
            UnionValue(type.first, defaultFields(type.variants[type.first].fields))

Decoded(value) == [status |-> "ok", value |-> value]

\* integer, textValue, boolValue, bytesValue, f64Value: the kind is checked, a
\* sign is not.
Expect(kind, c) == IF c.k = kind THEN Decoded(c) ELSE Bad

RECURSIVE decodeValue(_, _)

\* The values of a function of results, if all are good.
AllDecoded(results) ==
    Bind(Kept(results), LAMBDA each :
        IF \E x \in DOMAIN each : each[x].status = "bad" THEN Bad
        ELSE Decoded(Kept([x \in DOMAIN each |-> each[x].value])))

\* optionalField and fieldOrDefault; fields the schema does not name are ignored.
decodeFields(fields, entries) ==
    LET Field(f) == IF f.id \in DOMAIN entries THEN decodeValue(f.type, entries[f.id])
                    ELSE Decoded(defaultValue(f.type))
    IN  AllDecoded([name \in {n \in DOMAIN fields :
                                  ~fields[n].optional \/ fields[n].id \in DOMAIN entries} |->
                       Field(fields[name])])

\* expectUnion and the switch over the variants.
decodeUnion(variants, c) ==
    LET wellFormed == c.k = "array" /\ Len(c.items) = 2
                          /\ c.items[1].k = "int" /\ c.items[2].k = "map"
        Known == {name \in DOMAIN variants : Whole(variants[name].id) = c.items[1]}
    IN  IF ~wellFormed \/ Known = {} THEN Bad
        ELSE Bind(CHOOSE name \in Known : TRUE, LAMBDA name :
             Then(decodeFields(variants[name].fields, c.items[2].entries), LAMBDA fields :
                  Decoded(UnionValue(name, fields.value))))

decodeList(item, c) ==
    IF c.k # "array" THEN Bad
    ELSE Then(AllDecoded([i \in DOMAIN c.items |-> decodeValue(item, c.items[i])]),
              LAMBDA r : Decoded(ListValue(r.value)))

decodeStruct(fields, c) ==
    IF c.k # "map" THEN Bad
    ELSE Then(decodeFields(fields, c.entries), LAMBDA r : Decoded(StructValue(r.value)))

decodeEnum(ids, c) ==
    IF \E i \in DOMAIN ids : c = Whole(ids[i]) THEN Decoded(c) ELSE Bad

decodeOf(type, c) ==
    CASE type.kind = "void" -> Decoded(VoidValue)
      [] type.kind = "list" -> decodeList(type.item, c)
      [] type.kind = "struct" -> decodeStruct(type.fields, c)
      [] type.kind = "union" -> decodeUnion(type.variants, c)
      [] type.kind = "enum" -> decodeEnum(type.ids, c)
      [] type.kind \in {"u53", "i53"} -> Expect("int", c)
      [] OTHER -> Expect(type.kind, c)
decodeValue(type, value) == Bind(type, LAMBDA t : Bind(value, LAMBDA c : decodeOf(t, c)))
=============================================================================
