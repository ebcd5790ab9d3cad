----------------------------- MODULE WireFormat -----------------------------
(***************************************************************************)
(* The bytes of a frame (dol-wire): the encoder, the decoder into what the *)
(* code calls DTOs, and the lowering of those into values of the core.     *)
(*                                                                         *)
(* Every number of the code, whatever its width, is one byte here, and the *)
(* header of 20 bytes has six: magic, major and minor version, kind,       *)
(* flags and length.  Nothing else of the layout is left out.              *)
(***************************************************************************)
EXTENDS WireValues

CONSTANT MaxMantissa   \* of a decimal, 2^96 - 1 in the code, where the wire has 128 bits

HeaderLen == 6
Magic == 13
MajorVersion == 1
MinorVersion == 0

PayloadKinds == <<"TypeDef", "TypedDatum", "ModelDef", "ModelSet">>

Tag(names, name) == CHOOSE i \in DOMAIN names : names[i] = name

\* The first of two errors, and of a sequence.
Either(first, second) == IF first # None THEN first ELSE second

FirstError(errors) == FoldRight(LAMBDA e, later : Either(e, later), errors, None)

Bit(condition) == IF condition THEN 1 ELSE 0

-----------------------------------------------------------------------------
(***************************************************************************)
(* The encoder.  A value is a sequence of writes, each under a limit.      *)
(***************************************************************************)
Op(limit, n, bytes) == [limit |-> limit, n |-> n, bytes |-> bytes]
Node(depth) == <<Op("node", depth, <<>>)>>
Byte(n) == <<Op("none", 0, <<n % (2 ^ ByteBits)>>)>>
Text(text) == <<Op("string", Len(text), <<Len(text)>> \o text)>>
Literal(bytes) == <<Op("literal", Len(bytes), <<Len(bytes)>> \o bytes)>>
Check(error) == <<Op("check", error, <<>>)>>

\* count and ensure_node_capacity, for n items of so many nodes.
Items(n, nodes) == <<Op("items", n, <<n>>), Op("capacity", n * nodes, <<>>)>>

\* The writes of a sequence of items, each given as writes.
Each(writes, nodes) == Items(Len(writes), nodes) \o FlattenSeq(writes)

Written(ops) == FlattenSeq([i \in DOMAIN ops |-> ops[i].bytes])

OpError(e, op, limits) ==
  LET fits == CASE op.limit = "node" -> op.n <= limits.depth /\ e.nodes < limits.nodes
                [] op.limit = "capacity" -> e.nodes + op.n <= limits.nodes
                [] op.limit = "items" -> op.n <= limits.items
                [] op.limit = "string" -> op.n <= limits.string
                [] op.limit = "literal" -> op.n <= limits.literal
                [] OTHER -> TRUE
  IN  CASE op.limit = "check" -> op.n
        [] op.limit # "check" /\ (~ fits \/ Len(e.bytes) + Len(op.bytes) > limits.total - HeaderLen) ->
             "LimitExceeded"
        [] OTHER -> None

\* Encoder::write and its callers, up to the first failure.
RunEncoder(ops, limits) ==
  LET Step(e, op) ==
        LET error == OpError(e, op, limits)
        IN  CASE e.error # None -> e
              [] e.error = None /\ error # None -> [e EXCEPT !.error = error]
              [] OTHER -> [e EXCEPT !.bytes = @ \o op.bytes, !.nodes = @ + Bit(op.limit = "node")]
  IN  FoldLeft(Step, [bytes |-> <<>>, nodes |-> 0, error |-> None], ops)

ParameterTags == <<"bool", "int", "uint", "string">>

\* Encoder::scalar.
EmitScalar(shape) ==
  Byte(Tag(ScalarNames, shape.repr) - 1) \o (IF shape.repr \in {"int", "uint"} THEN Byte(shape.bits) ELSE <<>>)

EmitParameter(p, depth) ==
  Node(depth) \o Text(p[1]) \o Byte(Tag(ParameterTags, p[2].kind) - 1)
    \o (IF p[2].kind = "string" THEN Text(p[2].text) ELSE Byte(p[2].n))

ShapeTags == <<"scalar", "list", "map", "tuple", "record">>

\* Encoder::ty and Encoder::shape.
RECURSIVE EmitType(_, _)
EmitType(ty, depth) ==
  LET shape == ty.shape
      parts == Parts(shape)
      Part(i) == EmitType(parts[i], depth + 1)
      Field(i) ==
        Node(depth + 1) \o Text(shape.fields[i].name) \o Byte(Bit(shape.fields[i].optional)) \o Part(i)
  IN  Node(depth) \o Text(ty.key) \o Byte(ty.version) \o Byte(Bit(ty.nullable)) \o Byte(ty.properties)
        \o Each([i \in DOMAIN ty.parameters |-> EmitParameter(ty.parameters[i], depth + 1)], 1)
        \o Byte(Tag(ShapeTags, shape.kind) - 1)
        \o CASE shape.kind = "scalar" -> EmitScalar(shape)
             [] shape.kind \in {"list", "map"} -> FlattenSeq([i \in DOMAIN parts |-> Part(i)])
             [] shape.kind = "tuple" -> Each([i \in DOMAIN parts |-> Part(i)], 1)
             [] shape.kind = "record" -> Each([i \in DOMAIN parts |-> Field(i)], 1)

ValueTags ==
  <<"bool", "truth", "int", "uint", "float32", "float64", "decimal", "char", "string", "bytes", "uuid", "list",
    "map", "tuple", "record", "date", "time", "localDateTime", "instant", "duration">>

\* What Encoder::value writes of a value with no data in it.
EmitAtom(value) ==
  CASE value.kind \in Numbers -> Byte(value.n)
    [] value.kind = "decimal" -> LET least == Normalize(value) IN Byte(least.n) \o Byte(least.scale)
    [] value.kind \in Clocks -> FlattenSeq([i \in DOMAIN value.parts |-> Byte(value.parts[i])])
    [] value.kind = "string" -> Text(value.text)
    [] value.kind = "bytes" -> Literal(value.text)

\* The temporary encodings of the keys of a map: each under all the limits, and together in a frame.
KeysError(keys, limits) ==
  LET encoded == [i \in DOMAIN keys |-> RunEncoder(keys[i], limits)]
      bytes == FoldLeft(LAMBDA n, e : n + Len(e.bytes), 0, encoded)
  IN  FirstError(Append([i \in DOMAIN encoded |-> encoded[i].error],
                        IF bytes > limits.total - HeaderLen THEN "LimitExceeded" ELSE None))

\* Encoder::map, of entries given as the writes of their keys and values.
EmitEntries_AsGiven(entries, limits) ==
  Items(Len(entries), 2)
    \o Check(KeysError([i \in DOMAIN entries |-> entries[i][1]], limits))
    \o FlattenSeq([i \in DOMAIN entries |-> entries[i][1] \o entries[i][2]])

EmitEntries(entries, limits) ==
  LET ByKey(a, b) == Precedes(Written(a[1]), Written(b[1]))
      ordered == SortSeq(entries, ByKey)
  IN  Items(Len(entries), 2)
        \o Check(KeysError([i \in DOMAIN entries |-> entries[i][1]], limits))
        \o FlattenSeq([i \in DOMAIN ordered |-> ordered[i][1] \o ordered[i][2]])

\* Encoder::datum and Encoder::value.
RECURSIVE EmitDatum(_, _, _)
EmitDatum(datum, depth, limits) ==
  LET value == datum.value
      Inner(d) == EmitDatum(d, depth + 1, limits)
      Composite ==
        CASE value.kind \in {"list", "tuple"} -> Each([i \in DOMAIN value.items |-> Inner(value.items[i])], 1)
          [] value.kind = "map" ->
               EmitEntries([i \in DOMAIN value.entries |->
                              <<Inner(value.entries[i][1]), Inner(value.entries[i][2])>>], limits)
          [] value.kind = "record" ->
               Each([i \in DOMAIN value.entries |-> Text(value.entries[i][1]) \o Inner(value.entries[i][2])], 1)
  IN  CASE datum.state = "missing" -> Node(depth) \o Byte(0)
        [] datum.state = "null" -> Node(depth) \o Byte(1)
        [] datum.state = "value" ->
             Node(depth) \o Byte(2) \o Byte(Tag(ValueTags, value.kind) - 1)
               \o (IF value.kind \in {"list", "tuple", "map", "record"} THEN Composite ELSE EmitAtom(value))

CardinalityTags == <<"one", "optionalOne", "many">>

\* Encoder::string_keys, of a model at depth 0.
EmitKeys(keys) == Each([i \in DOMAIN keys |-> Node(2) \o Text(keys[i])], 1)

EmitField(field, limits) ==
  Node(1) \o Text(field.key) \o Text(field.name) \o Byte(Bit(field.optional))
    \o Check(CoreError(ValidateType(field.ty, limits))) \o EmitType(field.ty, 1)

EmitRelation(r) ==
  Node(1) \o Text(r.key) \o Text(r.name) \o Text(r.target) \o Byte(Tag(CardinalityTags, r.cardinality) - 1)
    \o Each([i \in DOMAIN r.pairs |-> Node(2) \o Text(r.pairs[i][1]) \o Text(r.pairs[i][2])], 1)

EmitReference(r) == Node(1) \o EmitKeys(r.source) \o Text(r.target) \o EmitKeys(r.fields)

\* Encoder::model.
EmitModel(model, limits) ==
  Node(0) \o Text(model.key) \o Text(model.name)
    \o Each([i \in DOMAIN model.fields |-> EmitField(model.fields[i], limits)], 1)
    \o (IF model.identity = None THEN Byte(0) ELSE Byte(1) \o EmitKeys(model.identity.keys))
    \o Each([i \in DOMAIN model.unique |-> Node(1) \o EmitKeys(model.unique[i])], 1)
    \o Each([i \in DOMAIN model.relations |-> EmitRelation(model.relations[i])], 1)
    \o Each([i \in DOMAIN model.references |-> EmitReference(model.references[i])], 1)

\* encode_type_def, encode_typed_datum, encode_model_def and encode_model_set, with limits.
EmitMessage(message, limits) ==
  LET start == Check(IF limits.total < HeaderLen THEN "LimitExceeded" ELSE None)
      Checked(ty) == Check(CoreError(ValidateType(ty, limits)))
  IN  CASE message.kind = "TypeDef" -> Checked(message.ty) \o start \o EmitType(message.ty, 0)
        [] message.kind = "TypedDatum" ->
             Checked(message.ty)
               \o Check(CoreError(<<Sound(ValidDatum(message.ty, message.optional, message.datum))>>)) \o start
               \o EmitType(message.ty, 0) \o Byte(Bit(message.optional)) \o EmitDatum(message.datum, 0, limits)
        [] message.kind = "ModelDef" -> start \o EmitModel(message.model, limits)
        [] message.kind = "ModelSet" ->
             start \o Each([i \in DOMAIN message.models |-> EmitModel(message.models[i], limits)], 1)

\* encode_envelope, around what the encoder wrote; its own limit on the total is met by then.
EncodeEnvelope(kind, payload) ==
  [error |-> payload.error,
   bytes |-> IF payload.error # None THEN <<>>
             ELSE <<Magic, MajorVersion, MinorVersion, Tag(PayloadKinds, kind), 0, Len(payload.bytes)>>
                    \o payload.bytes]

Encode(message, limits) == EncodeEnvelope(message.kind, RunEncoder(EmitMessage(message, limits), limits))

-----------------------------------------------------------------------------
(***************************************************************************)
(* The decoder: where it is in the payload, the nodes it has counted, the  *)
(* first failure, and what it read last.                                   *)
(***************************************************************************)
Decoder(payload, limits) ==
  [input |-> payload, limits |-> limits, at |-> 0, nodes |-> 0, error |-> None, out |-> None]

Fail(d, error) == [d EXCEPT !.error = error]

Remaining(d) == Len(d.input) - d.at

\* take.
Take(d, n) ==
  IF n > Remaining(d) THEN Fail(d, "UnexpectedEof")
  ELSE [d EXCEPT !.at = @ + n, !.out = SubSeq(d.input, d.at + 1, d.at + n)]

TakeByte(d) ==
  LET t == Take(d, 1) IN IF t.error # None THEN t ELSE [t EXCEPT !.out = @[1]]

\* An error if the condition holds, where none came before.
FailIf(d, condition, error) == IF d.error = None /\ condition THEN Fail(d, error) ELSE d

\* Decoder::string and Decoder::literal, whose bytes may be any.
TakeText(d, limit, valid) ==
  LET length == TakeByte(d)
      text == IF length.out > limit THEN Fail(length, "LimitExceeded") ELSE Take(length, length.out)
  IN  CASE length.error # None -> length
        [] length.error = None /\ text.error # None -> text
        [] OTHER -> FailIf(text, ~ (Range(text.out) \subseteq valid), "InvalidUtf8")

\* Decoder::scalar.
TakeScalar(d) ==
  LET tag == TakeByte(d)
      name == ScalarNames[tag.out + 1]
      bits == TakeByte(tag)
  IN  CASE tag.error # None -> tag
        [] tag.error = None /\ tag.out >= Len(ScalarNames) -> Fail(tag, "InvalidTag")
        [] OTHER -> IF name \notin {"int", "uint"} THEN [tag EXCEPT !.out = Scalar(name, 0)]
                    ELSE IF bits.error # None THEN bits ELSE [bits EXCEPT !.out = Scalar(name, @)]

AsSigned(n) == IF n >= 2 ^ (ByteBits - 1) THEN n - 2 ^ ByteBits ELSE n

Primitives == {"text", "literal", "scalar", "unsigned", "signed", "flag"}

\* Decoder::u8 to u128, i64 and i128, bool, string, literal and scalar.
TakePrimitive(d, what) ==
  LET byte == TakeByte(d)
  IN  CASE what = "text" -> TakeText(d, d.limits.string, 0 .. MaxChar)
        [] what = "literal" -> TakeText(d, d.limits.literal, 0 .. 2 ^ ByteBits - 1)
        [] what = "scalar" -> TakeScalar(d)
        [] OTHER -> CASE byte.error # None \/ what = "unsigned" -> byte
                      [] byte.error = None /\ what = "signed" -> [byte EXCEPT !.out = AsSigned(@)]
                      [] byte.error = None /\ what = "flag" ->
                           FailIf([byte EXCEPT !.out = (@ = 1)], byte.out > 1, "InvalidTag")

\* Decoder::node.
TakeNode(d, depth) ==
  IF d.error # None THEN d
  ELSE FailIf([d EXCEPT !.nodes = @ + 1], depth > d.limits.depth \/ d.nodes >= d.limits.nodes, "LimitExceeded")

\* What a tag stands for, from 0 on.
Alternatives ==
  "shape" :> <<"scalar", "list of", "map of", "tuple of", "record of">>
    @@ "parameter" :> <<"bool parameter", "int parameter", "uint parameter", "string parameter">>
    @@ "state" :> <<"missing", "null", "some">>
    @@ "value" :> ValueTags
    @@ "identity" :> <<"no identity", "an identity">>

\* The items of a collection.
ItemOf ==
  "parameters" :> "named parameter" @@ "tuple of" :> "type" @@ "record of" :> "record field"
    @@ "list" :> "datum" @@ "tuple" :> "datum" @@ "map" :> "entry" @@ "record" :> "named datum"
    @@ "fields" :> "field" @@ "keys" :> "key" @@ "unique" :> "unique keys" @@ "relations" :> "relation"
    @@ "pairs" :> "pair" @@ "references" :> "reference" @@ "models" :> "model"

\* The bytes that an item of a collection takes at least: the code's constants, with numbers of one byte.
LeastBytes_OfValues(what) ==
  CASE what = "fields" -> 5
    [] what = "relations" -> 4
    [] what \in {"parameters", "record of", "references"} -> 3
    [] what \in {"list", "tuple", "map", "record", "pairs"} -> 2
    [] OTHER -> 1

LeastBytes(what) ==
  CASE what = "fields" -> 5
    [] what = "relations" -> 4
    [] what \in {"parameters", "record of", "references"} -> 3
    [] what \in {"map", "record", "pairs"} -> 2
    [] OTHER -> 1

\* Decoder::ensure_node_capacity.
EnsureNodeCapacity(d, nodes) == FailIf(d, d.nodes + nodes > d.limits.nodes, "LimitExceeded")

\* Decoder::count, and the nodes for as many items.
TakeCount(d, what) ==
  LET count == TakeByte(d)
  IN  IF count.error # None THEN count
      ELSE EnsureNodeCapacity(
             FailIf(FailIf(count, count.out > d.limits.items, "LimitExceeded"),
                    count.out * LeastBytes(what) > Remaining(count), "UnexpectedEof"),
             IF what = "map" THEN 2 * count.out ELSE count.out)

\* What is read in a row: the kinds that count as a node, those whose parts lie one level deeper, and the parts.
Counted ==
  {"type", "named parameter", "record field", "datum", "model", "field", "key", "unique keys", "relation", "pair",
   "reference"}

Deeper == {"list of", "map of", "an identity"}

PartsOf(what) ==
  CASE what = "type" -> <<"text", "unsigned", "flag", "unsigned", "parameters", "shape">>
    [] what = "named parameter" -> <<"text", "parameter">>
    [] what \in {"list of", "TypeDef"} -> <<"type">>
    [] what = "map of" -> <<"type", "type">>
    [] what = "record field" -> <<"text", "flag", "type">>
    [] what = "datum" -> <<"state">>
    [] what = "some" -> <<"value">>
    [] what = "entry" -> <<"datum", "datum">>
    [] what = "named datum" -> <<"text", "datum">>
    [] what = "TypedDatum" -> <<"type", "flag", "datum">>
    [] what \in {"missing", "null", "no identity"} -> <<>>
    [] what \in {"an identity", "unique keys"} -> <<"keys">>
    [] what = "field" -> <<"text", "text", "flag", "type">>
    [] what = "pair" -> <<"text", "text">>
    [] what = "relation" -> <<"text", "text", "text", "unsigned", "pairs">>
    [] what = "reference" -> <<"keys", "text", "keys">>
    [] what = "model" -> <<"text", "text", "fields", "identity", "unique", "relations", "references">>
    [] what = "ModelDef" -> <<"model">>
    [] what = "ModelSet" -> <<"models">>
    [] what = "decimal" -> <<"signed", "unsigned">>
    [] what = "time" -> <<"unsigned", "unsigned", "unsigned", "unsigned">>
    [] what = "localDateTime" -> <<"signed", "unsigned", "unsigned", "unsigned", "unsigned">>
    [] what = "bytes" -> <<"literal">>
    [] what \in {"bool", "bool parameter"} -> <<"flag">>
    [] what \in {"string", "string parameter", "key"} -> <<"text">>
    [] what \in Signed \cup {"int parameter"} -> <<"signed">>
    [] OTHER -> <<"unsigned">>

\* A value, or a parameter, of what was read.
BuildValue(what, p) ==
  CASE what \in {"bool", "bool parameter"} -> [kind |-> "bool", n |-> Bit(p[1])]
    [] what = "int parameter" -> [kind |-> "int", n |-> p[1]]
    [] what = "uint parameter" -> [kind |-> "uint", n |-> p[1]]
    [] what \in Texts -> [kind |-> what, text |-> p[1]]
    [] what = "string parameter" -> [kind |-> "string", text |-> p[1]]
    [] what = "decimal" -> [kind |-> what, n |-> p[1], scale |-> p[2]]
    [] what \in Clocks -> [kind |-> what, parts |-> p]
    [] OTHER -> [kind |-> what, n |-> p[1]]

\* The DTOs.
Build(what, p) ==
  CASE what = "type" ->
         [key |-> p[1], version |-> p[2], nullable |-> p[3], properties |-> p[4], parameters |-> p[5], shape |-> p[6]]
    [] what \in {"named parameter", "entry", "named datum", "pair"} -> p
    [] what = "list of" -> ListShape(p[1])
    [] what = "map of" -> MapShape(p[1], p[2])
    [] what = "record field" -> [name |-> p[1], optional |-> p[2], ty |-> p[3]]
    [] what \in {"datum", "unique keys", "key"} -> p[1]
    [] what = "missing" -> MissingDatum
    [] what = "null" -> NullDatum
    [] what = "some" -> Datum(p[1])
    [] what = "no identity" -> None
    [] what = "an identity" -> [keys |-> p[1]]
    [] what = "field" -> [key |-> p[1], name |-> p[2], optional |-> p[3], ty |-> p[4]]
    [] what = "relation" -> [key |-> p[1], name |-> p[2], target |-> p[3], cardinality |-> p[4], pairs |-> p[5]]
    [] what = "reference" -> [source |-> p[1], target |-> p[2], fields |-> p[3]]
    [] what = "model" ->
         [key |-> p[1], name |-> p[2], fields |-> p[3], identity |-> p[4], unique |-> p[5], relations |-> p[6],
          references |-> p[7]]
    [] what = "TypeDef" -> [kind |-> what, ty |-> p[1]]
    [] what = "TypedDatum" -> [kind |-> what, ty |-> p[1], optional |-> p[2], datum |-> p[3]]
    [] what = "ModelDef" -> [kind |-> what, model |-> p[1]]
    [] what = "ModelSet" -> [kind |-> what, models |-> p[1]]
    [] OTHER -> BuildValue(what, p)

BuildCollection(what, items) ==
  CASE what = "tuple of" -> TupleShape(items)
    [] what = "record of" -> RecordShape(items)
    [] what \in {"list", "tuple"} -> [kind |-> what, items |-> items]
    [] what \in {"map", "record"} -> [kind |-> what, entries |-> items]
    [] OTHER -> items

\* The methods of Decoder: read one thing of a kind, and leave it in out.
RECURSIVE Read(_, _, _)
Read(d, what, depth) ==
  LET InTurn(kinds, start, level) ==
        FoldLeft(LAMBDA r, kind :
                   LET next == Read(r.decoder, kind, level)
                   IN  IF r.decoder.error # None THEN r
                       ELSE [decoder |-> next, outs |-> Append(r.outs, next.out)],
                 [decoder |-> start, outs |-> <<>>], kinds)
      Finished(r, value) == IF r.decoder.error # None THEN r.decoder ELSE [r.decoder EXCEPT !.out = value]
      tag == TakeByte(d)
      names == Alternatives[what]
      count == TakeCount(d, what)
      items == InTurn([i \in 1 .. count.out |-> ItemOf[what]], count, IF what = "models" THEN depth ELSE depth + 1)
      start == IF what \in Counted THEN TakeNode(d, depth) ELSE d
      row == InTurn(PartsOf(what), start, IF what \in Deeper THEN depth + 1 ELSE depth)
  IN  CASE what \in Primitives -> TakePrimitive(d, what)
        [] what \in DOMAIN Alternatives ->
             IF tag.error # None THEN tag
             ELSE IF tag.out >= Len(names) THEN Fail(tag, "InvalidTag") ELSE Read(tag, names[tag.out + 1], depth)
        [] what \in DOMAIN ItemOf ->
             IF count.error # None THEN count ELSE Finished(items, BuildCollection(what, items.outs))
        [] OTHER -> IF start.error # None THEN start ELSE Finished(row, Build(what, row.outs))

\* decode_envelope and expected_envelope.
EnvelopeError(bytes, kind, limits) ==
  CASE Len(bytes) > limits.total -> "LimitExceeded"
    [] Len(bytes) <= limits.total /\ Len(bytes) < HeaderLen -> "UnexpectedEof"
    [] OTHER -> FirstError(<<IF bytes[1] # Magic THEN "InvalidMagic" ELSE None,
                             IF bytes[2] # MajorVersion \/ bytes[3] > MinorVersion THEN "UnsupportedVersion" ELSE None,
                             IF bytes[4] \notin DOMAIN PayloadKinds THEN "UnsupportedPayload" ELSE None,
                             IF bytes[5] # 0 THEN "InvalidHeader" ELSE None,
                             IF bytes[6] # Len(bytes) - HeaderLen THEN "LengthMismatch" ELSE None,
                             IF bytes[4] # Tag(PayloadKinds, kind) THEN "UnsupportedPayload" ELSE None>>)

-----------------------------------------------------------------------------
(***************************************************************************)
(* Lowering (validate/mod.rs): DTOs become values of the core.             *)
(***************************************************************************)

\* What Decimal's parser makes of a mantissa that it cannot hold: it drops digits behind the point, with rounding.
RECURSIVE ParseDecimal(_)
ParseDecimal(decimal) ==
  LET size == IF decimal.n < 0 THEN - decimal.n ELSE decimal.n
      rounded == (size + 5) \div 10
  IN  CASE size <= MaxMantissa -> decimal
        [] size > MaxMantissa /\ decimal.scale = 0 -> [decimal EXCEPT !.kind = "none"]
        [] OTHER -> ParseDecimal([decimal EXCEPT !.n = IF @ < 0 THEN - rounded ELSE rounded, !.scale = @ - 1])

Temporal(n) == n \in - MaxClock .. MaxClock

\* lower_value, of a value with no data in it.
AtomError(value) ==
  CASE value.kind = "truth" /\ value.n > 2 -> "InvalidTag"
    [] value.kind = "char" /\ value.n > MaxChar -> "InvalidValue"
    [] value.kind \in {"date", "instant", "duration"} /\ ~ Temporal(value.n) -> "InvalidValue"
    [] value.kind \in Clocks /\ (\E i \in DOMAIN value.parts : ~ Temporal(value.parts[i])) -> "InvalidValue"
    [] value.kind = "decimal" /\ (value.scale > MaxScale \/ ParseDecimal(value).kind = "none") -> "InvalidValue"
    [] OTHER -> None

\* The failures of lower_datum, in its order.
RECURSIVE DatumErrors(_)
DatumErrors(datum) ==
  LET value == datum.value
      Repeated(i) == \E j \in 1 .. i - 1 : value.entries[j][1] = value.entries[i][1]
      Entry(i) ==
        IF value.kind = "map" THEN DatumErrors(value.entries[i][1]) \o DatumErrors(value.entries[i][2])
        ELSE Append(DatumErrors(value.entries[i][2]), IF Repeated(i) THEN "InvalidValue" ELSE None)
  IN  CASE datum.state # "value" -> <<>>
        [] datum.state = "value" /\ value.kind \in {"list", "tuple"} ->
             FlattenSeq([i \in DOMAIN value.items |-> DatumErrors(value.items[i])])
        [] datum.state = "value" /\ value.kind \in {"map", "record"} ->
             FlattenSeq([i \in DOMAIN value.entries |-> Entry(i)])
        [] OTHER -> <<AtomError(value)>>

\* lower_datum and lower_value: a record is a map by name.
RECURSIVE LowerDatum(_)
LowerDatum(datum) ==
  LET value == datum.value
      ByName(a, b) == Precedes(a[1], b[1])
  IN  CASE datum.state # "value" -> datum
        [] datum.state = "value" /\ value.kind = "decimal" -> Datum(ParseDecimal(value))
        [] datum.state = "value" /\ value.kind \in {"list", "tuple"} ->
             Datum([value EXCEPT !.items = [i \in DOMAIN @ |-> LowerDatum(@[i])]])
        [] datum.state = "value" /\ value.kind = "map" ->
             Datum([value EXCEPT !.entries = [i \in DOMAIN @ |-> <<LowerDatum(@[i][1]), LowerDatum(@[i][2])>>]])
        [] datum.state = "value" /\ value.kind = "record" ->
             Datum([value EXCEPT !.entries = SortSeq([i \in DOMAIN @ |-> <<@[i][1], LowerDatum(@[i][2])>>], ByName)])
        [] OTHER -> datum

\* lower_type, and the type that a DTO stands for.
TypeError(dto, limits) == CoreError(ValidateType(CanonicalType(dto), limits))

\* A model before it is frozen.
Drafted(dto) ==
  [dto EXCEPT !.fields = [i \in DOMAIN @ |-> [@[i] EXCEPT !.ty = CanonicalType(@)]],
              !.relations = [i \in DOMAIN @ |-> [@[i] EXCEPT !.cardinality = CardinalityTags[@ + 1]]]]

\* lower_model.
ModelError(dto, limits) ==
  Either(FirstError([i \in DOMAIN dto.fields |-> TypeError(dto.fields[i].ty, limits)]
                      \o [i \in DOMAIN dto.relations |->
                            IF dto.relations[i].cardinality > 2 THEN "InvalidTag" ELSE None]),
         CoreError(ModelChecks(Drafted(dto), limits)))

LowerModel(dto) == CanonicalModel(Drafted(dto))

LowerModels(dtos) ==
  LET ByKey(a, b) == Precedes(a.key, b.key)
  IN  SortSeq([i \in DOMAIN dtos |-> LowerModel(dtos[i])], ByKey)

\* lower_type, lower_typed_datum, lower_model and lower_model_set.
Lower(dto) ==
  CASE dto.kind = "TypeDef" -> [dto EXCEPT !.ty = CanonicalType(@)]
    [] dto.kind = "TypedDatum" -> [dto EXCEPT !.ty = CanonicalType(@), !.datum = LowerDatum(@)]
    [] dto.kind = "ModelDef" -> [dto EXCEPT !.model = LowerModel(@)]
    [] dto.kind = "ModelSet" -> [dto EXCEPT !.models = LowerModels(@)]

DatumError(dto) ==
  Either(FirstError(DatumErrors(dto.datum)),
         CoreError(<<Sound(ValidDatum(CanonicalType(dto.ty), dto.optional, LowerDatum(dto.datum)))>>))

ModelsError(dtos, limits) ==
  Either(FirstError([i \in DOMAIN dtos |-> ModelError(dtos[i], limits)]),
         CoreError(<<Sound(ValidModelSet(LowerModels(dtos)))>>))

LowerError(dto, limits) ==
  CASE dto.kind = "TypeDef" -> TypeError(dto.ty, limits)
    [] dto.kind = "TypedDatum" ->
         Either(TypeError(dto.ty, limits), DatumError(dto))
    [] dto.kind = "ModelDef" -> ModelError(dto.model, limits)
    [] dto.kind = "ModelSet" -> ModelsError(dto.models, limits)

\* require_canonical, of a value that was read from bytes.
CanonicalError(message, bytes, limits) ==
  LET Compare(again) == Either(again.error, IF again.bytes # bytes THEN "NonCanonical" ELSE None)
  IN  Compare(Encode(message, limits))

\* A result, unless there is an error.
Unless(error, result) == IF error # None THEN [error |-> error, message |-> None] ELSE result

Canonical(message, bytes, limits) ==
  Unless(CanonicalError(message, bytes, limits), [error |-> None, message |-> message])

Lowered(dto, bytes, limits) == Unless(LowerError(dto, limits), Canonical(Lower(dto), bytes, limits))

\* Decoder::finish.
Finish(d, bytes, limits) ==
  Unless(Either(d.error, IF Remaining(d) > 0 THEN "InvalidValue" ELSE None), Lowered(d.out, bytes, limits))

\* decode_type_def, decode_typed_datum, decode_model_def and decode_model_set.
Decode(bytes, kind, limits) ==
  Unless(EnvelopeError(bytes, kind, limits),
         Finish(Read(Decoder(SubSeq(bytes, HeaderLen + 1, Len(bytes)), limits), kind, 0), bytes, limits))
=============================================================================
