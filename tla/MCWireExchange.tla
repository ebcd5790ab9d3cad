--------------------------- MODULE MCWireExchange ---------------------------
(***************************************************************************)
(* Values of every kind, sent in frames of at most 68 bytes.               *)
(***************************************************************************)
EXTENDS WireExchange

MCGenerous == [total |-> 69, nodes |-> 63, depth |-> 63, string |-> 63, literal |-> 63, items |-> 63]
FewNodes == [MCGenerous EXCEPT !.nodes = 5]
Flat == [MCGenerous EXCEPT !.depth = 1, !.items = 2]
Short == [MCGenerous EXCEPT !.total = 42, !.string = 1, !.literal = 1, !.items = 1]
MCLimits == {MCGenerous, FewNodes, Flat, Short}

A == <<1>>
B == <<2>>
Long == <<3, 4>>

\* 5 is the properties of keys: equality and keyable.
Type(key, shape) ==
  [key |-> key, version |-> 1, nullable |-> FALSE, properties |-> 5, parameters |-> <<>>, shape |-> shape]
Nullable(ty) == [ty EXCEPT !.nullable = TRUE]
Of(repr) == Type(A, Scalar(repr, 0))
IntOf(bits) == Type(A, Scalar("int", bits))
UIntOf(bits) == Type(A, Scalar("uint", bits))
Number(kind, n) == Datum([kind |-> kind, n |-> n])
TextOf(kind, text) == Datum([kind |-> kind, text |-> text])
Tuple(items) == Datum([kind |-> "tuple", items |-> items])

TypeDefOf(ty) == [kind |-> "TypeDef", ty |-> ty]
TypedDatumOf(ty, optional, datum) == [kind |-> "TypedDatum", ty |-> ty, optional |-> optional, datum |-> datum]

RecordOf(x, y) == RecordShape(<<[name |-> A, optional |-> FALSE, ty |-> x], [name |-> B, optional |-> TRUE, ty |-> y]>>)

Types ==
  {TypeDefOf([Type(Long, RecordOf(IntOf(2), Nullable(Of("string")))) EXCEPT
                !.parameters = <<<<A, [kind |-> "bool", n |-> 1]>>, <<B, [kind |-> "string", text |-> Long]>>>>]),
   TypeDefOf(Type(B, MapShape(UIntOf(6), Type(B, ListShape(Type(A, TupleShape(<<Of("decimal"), Of("date")>>))))))),
   TypeDefOf([IntOf(6) EXCEPT !.parameters = <<<<A, [kind |-> "int", n |-> -3]>>, <<B, [kind |-> "uint", n |-> 3]>>>>])}

MapOf(kind, k, v, x, y) ==
  Datum([kind |-> "map", entries |-> <<<<Number(kind, k), Number("int", v)>>, <<Number(kind, x), Number("int", y)>>>>])

Data ==
  {TypedDatumOf(Type(B, MapShape(UIntOf(2), IntOf(2))), FALSE, MapOf("uint", 3, -1, 2, 1)),
   TypedDatumOf(Type(B, MapShape(Of("float32"), IntOf(2))), FALSE, MapOf("float32", 0, 1, 31, 0)),
   TypedDatumOf(Type(B, ListShape(Nullable(IntOf(6)))), FALSE,
                Datum([kind |-> "list", items |-> <<NullDatum, Number("int", -32), NullDatum>>])),
   TypedDatumOf(Type(B, ListShape(Nullable(IntOf(6)))), FALSE,
                Datum([kind |-> "list", items |-> <<NullDatum, NullDatum>>])),
   TypedDatumOf(Type(B, RecordOf(IntOf(2), UIntOf(2))), FALSE,
                Datum([kind |-> "record", entries |-> <<<<A, Number("int", 1)>>, <<B, Number("uint", 2)>>>>])),
   TypedDatumOf(Type(B, RecordOf(IntOf(2), UIntOf(2))), TRUE,
                Datum([kind |-> "record", entries |-> <<<<A, Number("int", -2)>>>>])),
   TypedDatumOf(Of("decimal"), FALSE, Datum([kind |-> "decimal", n |-> 20, scale |-> 2])),
   TypedDatumOf(Of("decimal"), FALSE, Datum([kind |-> "decimal", n |-> -3, scale |-> 1])),
   TypedDatumOf(Type(B, TupleShape(<<Of("truth"), Of("char"), Of("bytes"), Of("string")>>)), FALSE,
                Tuple(<<Number("truth", 2), Number("char", 50), TextOf("bytes", <<63, 0>>), TextOf("string", Long)>>)),
   TypedDatumOf(Type(B, TupleShape(<<Of("uuid"), Of("date"), Of("time")>>)), FALSE,
                Tuple(<<Number("uuid", 63), Number("date", -1), Datum([kind |-> "time", parts |-> <<1, 2, 3, 4>>])>>)),
   TypedDatumOf(Type(B, TupleShape(<<Of("localDateTime"), Of("instant"), Of("duration"), Of("bool")>>)), FALSE,
                Tuple(<<Datum([kind |-> "localDateTime", parts |-> <<-2, 1, 2, 3, 20>>]), Number("instant", -20),
                        Number("duration", 20), Number("bool", 1)>>)),
   TypedDatumOf(Of("float64"), TRUE, MissingDatum),
   TypedDatumOf(Nullable(Of("float64")), FALSE, NullDatum)}

ModelOf(key, fields) ==
  [key |-> key, name |-> key, fields |-> fields, identity |-> None, unique |-> <<>>, relations |-> <<>>,
   references |-> <<>>]
FieldDefOf(key) == [key |-> key, name |-> key, optional |-> FALSE, ty |-> Of("uuid")]
RelationOf(target, cardinality, pairs) ==
  [key |-> A, name |-> A, target |-> target, cardinality |-> cardinality, pairs |-> pairs]

One == ModelOf(A, <<FieldDefOf(A)>>)
Two == ModelOf(A, <<FieldDefOf(A), FieldDefOf(B)>>)
Linked(cardinality) == [ModelOf(B, <<FieldDefOf(A)>>) EXCEPT !.relations = <<RelationOf(A, cardinality, <<<<A, A>>>>)>>]

Models ==
  {[kind |-> "ModelDef", model |-> m] :
     m \in {[One EXCEPT !.identity = [keys |-> <<A>>], !.unique = <<<<A>>>>],
            [Two EXCEPT !.identity = [keys |-> <<B, A>>], !.unique = <<<<A>>, <<B>>>>],
            [Two EXCEPT !.relations = <<RelationOf(B, "many", <<<<A, B>>, <<B, A>>>>)>>],
            [One EXCEPT !.identity = [keys |-> <<A>>],
                        !.references = <<[source |-> <<A>>, target |-> A, fields |-> <<A>>],
                                         [source |-> <<A>>, target |-> B, fields |-> <<B>>]>>]}}
    \cup {[kind |-> "ModelSet", models |-> ms] :
            ms \in {<<[One EXCEPT !.identity = [keys |-> <<A>>]], Linked("one")>>, <<One, Linked("many")>>, <<>>}}

MCMessages == Types \cup Data \cup Models
=============================================================================
