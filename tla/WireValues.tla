----------------------------- MODULE WireValues -----------------------------
(***************************************************************************)
(* What crosses the wire (dol-core): types, data and models, the order in  *)
(* which they are kept and the checks that accept them.                    *)
(*                                                                         *)
(* A text is a sequence of bytes.  A number has one byte, of ByteBits      *)
(* bits, in two's complement where it is signed.  A check that fails is    *)
(* reported to the wire as what core_error makes of it: an exceeded limit, *)
(* or an invalid value.                                                    *)
(***************************************************************************)
EXTENDS Integers, Sequences, SequencesExt, FiniteSetsExt, TLC

CONSTANTS
  None,
  ByteBits,        \* of a byte, and so of the widest integers, i128 and u128 in the code
  IntegerBits,     \* the widths an integer type may have, 8 to 128 in the code
  MaxChar,         \* the largest byte of a valid text
  MaxScale,        \* of a decimal, 28 in the code
  MaxClock         \* of each part of a time, and of a day

ASSUME WireAssumption == ByteBits \in IntegerBits /\ MaxChar < 2 ^ ByteBits

\* The order of Strings, and of sequences of them.
RECURSIVE Precedes(_, _)
Precedes(a, b) ==
  CASE b = <<>> -> FALSE
    [] b # <<>> /\ a = <<>> -> TRUE
    [] OTHER -> IF Head(a) = Head(b) THEN Precedes(Tail(a), Tail(b)) ELSE Head(a) < Head(b)

\* A sequence of texts as one: every text, and the sequence, has an end below all bytes.
Joined(texts) == Append(FlattenSeq([i \in DOMAIN texts |-> Append(texts[i], -1)]), -2)

TextsPrecede(a, b) == Precedes(Joined(a), Joined(b))

NoRepeats(keys) == Cardinality(Range(keys)) = Len(keys)

-----------------------------------------------------------------------------
(***************************************************************************)
(* Types (types/def.rs, types/validate.rs).                                *)
(***************************************************************************)
ScalarNames ==
  <<"bool", "truth", "int", "uint", "float32", "float64", "decimal", "char", "string", "bytes", "uuid", "date",
    "time", "localDateTime", "instant", "duration">>

Scalar(repr, bits) == [kind |-> "scalar", repr |-> repr, bits |-> bits]
ListShape(element) == [kind |-> "list", element |-> element]
MapShape(key, value) == [kind |-> "map", key |-> key, value |-> value]
TupleShape(elements) == [kind |-> "tuple", elements |-> elements]
RecordShape(fields) == [kind |-> "record", fields |-> fields]

\* The types that a type is made of.
Parts(shape) ==
  CASE shape.kind = "scalar" -> <<>>
    [] shape.kind = "list" -> <<shape.element>>
    [] shape.kind = "map" -> <<shape.key, shape.value>>
    [] shape.kind = "tuple" -> shape.elements
    [] shape.kind = "record" -> [i \in DOMAIN shape.fields |-> shape.fields[i].ty]

\* Two of the eight properties matter here.
Keyable(ty) == ty.properties % 2 = 1 /\ (ty.properties \div 4) % 2 = 1

\* TypeDef::canonicalize, and the map of its parameters, where the last of a name stays.
RECURSIVE CanonicalType(_)
CanonicalType(ty) ==
  LET names == SetToSortSeq({p[1] : p \in Range(ty.parameters)}, Precedes)
      LastOf(name) == SelectLastInSeq(ty.parameters, LAMBDA p : p[1] = name)
      Field(f) == [f EXCEPT !.ty = CanonicalType(@)]
      ByName(f, g) == Precedes(f.name, g.name)
      shape == ty.shape
  IN  [ty EXCEPT
         !.parameters = [i \in DOMAIN names |-> ty.parameters[LastOf(names[i])]],
         !.shape = CASE shape.kind = "scalar" -> shape
                     [] shape.kind = "list" -> ListShape(CanonicalType(shape.element))
                     [] shape.kind = "map" -> MapShape(CanonicalType(shape.key), CanonicalType(shape.value))
                     [] shape.kind = "tuple" ->
                          TupleShape([i \in DOMAIN shape.elements |-> CanonicalType(shape.elements[i])])
                     [] shape.kind = "record" ->
                          RecordShape(SortSeq([i \in DOMAIN shape.fields |-> Field(shape.fields[i])], ByName))]

\* A check: whether it holds, and whether its message is one of those that name a limit.
Within(holds) == [holds |-> holds, limit |-> TRUE]
Sound(holds) == [holds |-> holds, limit |-> FALSE]

\* core_error, of the first check that fails.
CoreError_Unclassified(checks) ==
  IF \A i \in DOMAIN checks : checks[i].holds THEN None ELSE "InvalidValue"

CoreError(checks) ==
  LET failed == SelectSeq(checks, LAMBDA check : ~ check.holds)
  IN  IF failed = <<>> THEN None ELSE IF failed[1].limit THEN "LimitExceeded" ELSE "InvalidValue"

\* validate_name.
NameChecks(name, limits) == <<Sound(name # <<>>), Within(Len(name) <= limits.string)>>

\* The types in a type with their depths, in the order of validate_structure_limits.
RECURSIVE Depths(_, _)
Depths(ty, depth) ==
  LET parts == Parts(ty.shape)
  IN  <<depth>> \o FlattenSeq([i \in DOMAIN parts |-> Depths(parts[i], depth + 1)])

\* validate_structure_limits: too many nodes is no limit by its message.
StructureChecks(ty, limits) ==
  LET depths == Depths(ty, 0)
  IN  FlattenSeq([i \in DOMAIN depths |-> <<Within(depths[i] <= limits.depth), Sound(i <= limits.nodes)>>])

ParameterChecks(p, limits) ==
  NameChecks(p[1], limits)
    \o (IF p[2].kind = "string" THEN <<Within(Len(p[2].text) <= limits.string)>> ELSE <<>>)

\* What validate_type_at_depth says of a shape before the fields of a record.
ShapeChecks(shape, limits) ==
  CASE shape.kind = "scalar" -> <<Sound(shape.repr \in {"int", "uint"} => shape.bits \in IntegerBits)>>
    [] shape.kind \in {"tuple", "record"} -> <<Within(Len(Parts(shape)) <= limits.items)>>
    [] OTHER -> <<>>

\* validate_type_at_depth; the form of a key, namespace/name, is left out.
RECURSIVE TypeChecks(_, _)
TypeChecks(ty, limits) ==
  LET shape == ty.shape
      parts == Parts(shape)
      Named(i) ==
        IF shape.kind # "record" THEN <<>>
        ELSE Append(NameChecks(shape.fields[i].name, limits),
                    Sound(\A j \in 1 .. i - 1 : shape.fields[j].name # shape.fields[i].name))
  IN  NameChecks(ty.key, limits) \o <<Sound(ty.version # 0)>>
        \o FlattenSeq([i \in DOMAIN ty.parameters |-> ParameterChecks(ty.parameters[i], limits)])
        \o ShapeChecks(shape, limits)
        \o FlattenSeq([i \in DOMAIN parts |-> Named(i) \o TypeChecks(parts[i], limits)])
        \o (IF shape.kind = "map" THEN <<Sound(~ shape.key.nullable /\ Keyable(shape.key))>> ELSE <<>>)

\* validate_type.
ValidateType(ty, limits) == StructureChecks(ty, limits) \o TypeChecks(ty, limits)

-----------------------------------------------------------------------------
(***************************************************************************)
(* Data (value/logical.rs, value/validate.rs).                             *)
(***************************************************************************)
MissingDatum == [state |-> "missing"]
NullDatum == [state |-> "null"]
Datum(value) == [state |-> "value", value |-> value]

\* Kinds of values that are one number, a sequence of them, or a text.
Signed == {"int", "date", "instant", "duration"}
Numbers == Signed \cup {"bool", "truth", "uint", "float32", "float64", "char", "uuid"}
Clocks == {"time", "localDateTime"}
Texts == {"string", "bytes"}

ScalarFits(shape, value) ==
  /\ value.kind = shape.repr
  /\ value.kind = "int" => value.n \in -(2 ^ (shape.bits - 1)) .. 2 ^ (shape.bits - 1) - 1
  /\ value.kind = "uint" => value.n \in 0 .. 2 ^ shape.bits - 1

\* The number that a decimal is, with the least scale.
RECURSIVE Normalize(_)
Normalize(decimal) ==
  CASE decimal.n = 0 -> [decimal EXCEPT !.scale = 0]
    [] decimal.n # 0 /\ decimal.scale > 0 /\ decimal.n % 10 = 0 ->
         Normalize([decimal EXCEPT !.n = @ \div 10, !.scale = @ - 1])
    [] OTHER -> decimal

\* Value::eq, as equality of meanings: maps are sets, and zeros have no sign.
RECURSIVE Meaning(_)
Meaning(datum) ==
  IF datum.state # "value" THEN datum
  ELSE LET value == datum.value
           All(items) == [i \in DOMAIN items |-> Meaning(items[i])]
       IN  CASE value.kind = "decimal" -> Datum(Normalize(value))
             [] value.kind \in {"float32", "float64"} /\ value.n = 2 ^ (ByteBits - 1) -> Datum([value EXCEPT !.n = 0])
             [] value.kind \in {"list", "tuple"} -> Datum([value EXCEPT !.items = All(@)])
             [] value.kind = "map" ->
                  Datum([kind |-> "map", all |-> {<<Meaning(e[1]), Meaning(e[2])>> : e \in Range(value.entries)}])
             [] value.kind = "record" ->
                  Datum([value EXCEPT !.entries = [i \in DOMAIN @ |-> <<@[i][1], Meaning(@[i][2])>>]])
             [] OTHER -> datum

\* No key of a map is equal to an earlier one.
DistinctKeys_Bitwise(entries) == NoRepeats([i \in DOMAIN entries |-> entries[i][1]])

DistinctKeys(entries) == NoRepeats([i \in DOMAIN entries |-> Meaning(entries[i][1])])

\* validate_value and validate_nested.
RECURSIVE Fits(_, _)
Fits(ty, datum) ==
  LET shape == ty.shape
      value == datum.value
      Entry(name) == CHOOSE e \in Range(value.entries) : e[1] = name
      names == {e[1] : e \in Range(value.entries)}
  IN  CASE datum.state = "missing" -> FALSE
        [] datum.state = "null" -> ty.nullable
        [] datum.state = "value" /\ shape.kind = "scalar" -> ScalarFits(shape, value)
        [] datum.state = "value" /\ shape.kind # "scalar" /\ value.kind # shape.kind -> FALSE
        [] OTHER ->
             CASE shape.kind = "list" -> \A i \in DOMAIN value.items : Fits(shape.element, value.items[i])
               [] shape.kind = "tuple" ->
                    /\ Len(value.items) = Len(shape.elements)
                    /\ \A i \in DOMAIN value.items : Fits(shape.elements[i], value.items[i])
               [] shape.kind = "map" ->
                    /\ \A e \in Range(value.entries) : Fits(shape.key, e[1]) /\ Fits(shape.value, e[2])
                    /\ DistinctKeys(value.entries)
               [] shape.kind = "record" ->
                    /\ names \subseteq {f.name : f \in Range(shape.fields)}
                    /\ \A f \in Range(shape.fields) :
                         IF f.name \in names THEN Fits(f.ty, Entry(f.name)[2]) ELSE f.optional

\* validate_datum.
ValidDatum(ty, optional, datum) ==
  IF datum.state = "missing" THEN optional ELSE Fits(ty, datum)

-----------------------------------------------------------------------------
(***************************************************************************)
(* Models (model/builder.rs, model/relation.rs, model/set.rs).             *)
(***************************************************************************)

\* RelationDef::new, ModelBuilder::canonicalize.
CanonicalModel(model) ==
  LET SortedTexts(texts) == SortSeq(texts, Precedes)
      PairsPrecede(p, q) == TextsPrecede(p, q)
      ByKey(a, b) == Precedes(a.key, b.key)
      Key(r) == Joined(<<r.target>>) \o Joined(r.source) \o Joined(r.fields)
      ByTarget(r, s) == Precedes(Key(r), Key(s))
      Relation(r) == [r EXCEPT !.pairs = SortSeq(@, PairsPrecede)]
      Field(f) == [f EXCEPT !.ty = CanonicalType(@)]
  IN  [model EXCEPT
         !.fields = SortSeq([i \in DOMAIN @ |-> Field(@[i])], ByKey),
         !.unique = SetToSortSeq({SortedTexts(u) : u \in Range(@)}, TextsPrecede),
         !.relations = SortSeq([i \in DOMAIN @ |-> Relation(@[i])], ByKey),
         !.references = SetToSortSeq(Range(@), ByTarget)]

Keys(model) == {f.key : f \in Range(model.fields)}

FieldOf(model, key) == CHOOSE f \in Range(model.fields) : f.key = key

\* validate_type_universe: one definition for a key and a version, null or not.
RECURSIVE TypesIn(_)
TypesIn(ty) == {[ty EXCEPT !.nullable = FALSE]} \cup UNION {TypesIn(p) : p \in Range(Parts(ty.shape))}

OneUniverse(types) ==
  \A t, u \in UNION {TypesIn(ty) : ty \in types} : t.key = u.key /\ t.version = u.version => t = u

FieldTypes(model) == {f.ty : f \in Range(model.fields)}

\* validate_field_tuple.
ValidTuple(model, keys) == keys # <<>> /\ NoRepeats(keys) /\ Range(keys) \subseteq Keys(model)

ConstraintsValid(model) ==
  /\ model.identity # None =>
       /\ ValidTuple(model, model.identity.keys)
       /\ \A k \in Range(model.identity.keys) :
            LET field == FieldOf(model, k) IN ~ field.optional /\ ~ field.ty.nullable /\ Keyable(field.ty)
  /\ \A u \in Range(model.unique) :
       ValidTuple(model, u) /\ (\A k \in Range(u) : Keyable(FieldOf(model, k).ty))

RelationsValid(model) ==
  /\ NoRepeats([i \in DOMAIN model.relations |-> model.relations[i].key])
  /\ NoRepeats([i \in DOMAIN model.relations |-> model.relations[i].name])
  /\ \A r \in Range(model.relations) :
       /\ <<>> \notin {r.key, r.name, r.target} \cup {p[2] : p \in Range(r.pairs)}
       /\ ValidTuple(model, [i \in DOMAIN r.pairs |-> r.pairs[i][1]])
       /\ NoRepeats([i \in DOMAIN r.pairs |-> r.pairs[i][2]])

ReferencesValid(model) ==
  \A r \in Range(model.references) :
    /\ <<>> \notin {r.target} \cup Range(r.fields)
    /\ Len(r.source) = Len(r.fields)
    /\ ValidTuple(model, r.source)
    /\ NoRepeats(r.fields)

ConstraintCount(model) ==
  Len(model.unique) + Len(model.references) + (IF model.identity = None THEN 0 ELSE 1)

TypeNodes(model) ==
  FoldLeft(LAMBDA n, f : n + Len(Depths(f.ty, 0)), 0, model.fields)

\* ModelBuilder::freeze, before it canonicalizes: the limits come before the rest.
ModelChecks(model, limits) ==
  NameChecks(model.key, limits) \o NameChecks(model.name, limits)
    \o <<Within(Len(model.fields) <= limits.items), Within(Len(model.relations) <= limits.items),
         Within(ConstraintCount(model) <= limits.items), Within(TypeNodes(model) <= limits.nodes),
         Sound(\A f \in Range(model.fields) : f.key # <<>> /\ f.name # <<>>),
         Sound(NoRepeats([i \in DOMAIN model.fields |-> model.fields[i].key])),
         Sound(NoRepeats([i \in DOMAIN model.fields |-> model.fields[i].name])),
         Sound(OneUniverse(FieldTypes(model))),
         Sound(ConstraintsValid(model)), Sound(RelationsValid(model)), Sound(ReferencesValid(model))>>

\* is_unique.
IsUnique(model, keys) ==
  \/ model.identity # None /\ Range(model.identity.keys) = keys
  \/ \E u \in Range(model.unique) : Range(u) = keys

SameValueType(left, right) == [left EXCEPT !.nullable = FALSE] = [right EXCEPT !.nullable = FALSE]

\* Fields of a model paired with fields of another that exist and have the same types.
Resolved(model, target, pairs) ==
  \A p \in Range(pairs) :
    p[2] \in Keys(target) /\ SameValueType(FieldOf(model, p[1]).ty, FieldOf(target, p[2]).ty)

\* ModelSet::new.
ValidModelSet(models) ==
  LET Target(key) == CHOOSE m \in Range(models) : m.key = key
      known == {m.key : m \in Range(models)}
  IN  /\ NoRepeats([i \in DOMAIN models |-> models[i].key])
      /\ OneUniverse(UNION {FieldTypes(m) : m \in Range(models)})
      /\ \A m \in Range(models) :
           /\ \A r \in Range(m.relations) :
                /\ r.target \in known
                /\ Resolved(m, Target(r.target), r.pairs)
                /\ r.cardinality # "many" => IsUnique(Target(r.target), {p[2] : p \in Range(r.pairs)})
           /\ \A r \in Range(m.references) :
                /\ r.target \in known
                /\ Resolved(m, Target(r.target), [i \in DOMAIN r.source |-> <<r.source[i], r.fields[i]>>])
                /\ IsUnique(Target(r.target), Range(r.fields))
=============================================================================
