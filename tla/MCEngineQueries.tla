-------------------------- MODULE MCEngineQueries --------------------------
(***************************************************************************)
(* A model C with a field for every kind of presence and nullability, of   *)
(* signed, unsigned, truth and binary types, and a model D with a decimal, *)
(* which only PostgreSQL represents.  Integers have three bits, unsigned   *)
(* ones and binary data two.                                               *)
(***************************************************************************)
EXTENDS EngineQueries

I3 == [base |-> "int", bits |-> 3, nullable |-> FALSE]
N3 == [I3 EXCEPT !.nullable = TRUE]
U2 == [base |-> "uint", bits |-> 2, nullable |-> FALSE]
B2 == [base |-> "bytes", bits |-> 2, nullable |-> FALSE]
D2 == [base |-> "decimal", bits |-> 2, nullable |-> FALSE]
T2 == [base |-> "instant", bits |-> 2, nullable |-> FALSE]

MCModels ==
  [C |-> [fields |-> [id |-> I3, r |-> N3, o |-> N3, u |-> U2, t |-> TruthType, b |-> B2],
          identity |-> {"id"}, optional |-> {"o", "u", "t"}],
   D |-> [fields |-> [id |-> I3, d |-> D2], identity |-> {"id"}, optional |-> {}]]

\* C before its field u was unsigned.
Older == [MCModels.C EXCEPT !.fields.u = I3]

MCDefinitions == {MCModels.C, Older}

Col(value) == [value |-> value, presence |-> None]
Opt(value, presence) == [value |-> value, presence |-> presence]

PgC == [id |-> Col("id"), r |-> Col("r"), o |-> Opt("o", "hasO"), u |-> Opt("u", "hasU"),
        t |-> Opt("t", "hasT"), b |-> Col("b")]
MongoC == [id |-> "id", r |-> "r", o |-> "o", u |-> "u", t |-> "t", b |-> "b"]

MCLayout ==
  [postgres |-> [C |-> PgC, D |-> [id |-> Col("id"), d |-> Col("d")]],
   mongodb |-> [C |-> MongoC, D |-> [id |-> "id", d |-> "d"]]]

\* Besides the right mapping: a column used twice, a presence column left out.
MCMappings ==
  [postgres |-> {PgC, [PgC EXCEPT !.u = Opt("u", "hasO")], [PgC EXCEPT !.o = Col("o")]},
   mongodb |-> {MongoC, [MongoC EXCEPT !.u = "o"]}]

C(id, r, o, u, t, b) == [id |-> id, r |-> r, o |-> o, u |-> u, t |-> t, b |-> b]

MCDatabases ==
  {[C |-> <<C(1, 1, 1, 1, True, 1), C(2, Null, Null, Missing, Unknown, 0), C(3, 2, Missing, 3, Missing, 2),
            C(-1, 1, 2, 0, False, 1)>>,
    D |-> <<[id |-> 1, d |-> 1]>>],
   [C |-> <<>>, D |-> <<>>]}

-----------------------------------------------------------------------------
Field(name) ==
  [kind |-> "field", ty |-> MCModels.C.fields[name], model |-> "C", alias |-> NoAlias, name |-> name,
   scope |-> 0, lifted |-> FALSE]
Lit(ty, v) == [kind |-> "literal", ty |-> ty, value |-> v]
Param(ty) == [kind |-> "parameter", ty |-> ty]
Op(op, ty, input) == [kind |-> "unary", op |-> op, ty |-> ty, input |-> input]
Test(op, left, right) == [kind |-> "binary", op |-> op, ty |-> TruthType, left |-> left, right |-> right]
Coalesce(left, right) == [kind |-> "binary", op |-> "coalesce", ty |-> right.ty, left |-> left, right |-> right]
In(input, candidates, negate) ==
  [kind |-> "membership", ty |-> TruthType, input |-> input, candidates |-> candidates, negate |-> negate]
If(condition, yes, no) ==
  [kind |-> "conditional", ty |-> yes.ty, condition |-> condition, whenTrue |-> yes, whenFalse |-> no]
Exists(tree) == [kind |-> "exists", ty |-> TruthType, subquery |-> tree]

From(model) == [kind |-> "source", model |-> model, alias |-> NoAlias]
Where(tree, condition) == [kind |-> "filter", input |-> tree, condition |-> condition]
Chosen(tree, expressions) ==
  [kind |-> "project", input |-> tree,
   projection |-> [form |-> IF Len(expressions) = 1 THEN "value" ELSE "tuple", expressions |-> expressions]]
Sliced(tree, offset, limit) == [kind |-> "slice", input |-> tree, offset |-> offset, limit |-> limit]

O == Field("o")
U == Field("u")
T == Field("t")
Id == Field("id")

Pairs == {<<O, Lit(N3, 1)>>, <<Field("r"), O>>, <<U, Lit(U2, 1)>>, <<Op("lift", N3, Id), O>>,
          <<Field("b"), Lit(B2, 1)>>}

Comparisons == {Test(op, pair[1], pair[2]) : op \in EqualityOps \cup OrderOps, pair \in Pairs}

OIsOne == Test("eq", O, Lit(N3, 1))
UIsOne == Test("eq", U, Lit(U2, 1))

Others ==
  {Op("isNull", TruthType, O), Op("isMissing", TruthType, U), Op("isPresent", TruthType, T),
   Op("not", TruthType, OIsOne), Test("and", OIsOne, UIsOne), Test("or", OIsOne, Test("ne", U, Lit(U2, 1))),
   Test("eq", T, Lit(TruthType, True)), Test("isDistinctFrom", T, Lit(TruthType, Unknown)),
   Test("eq", Coalesce(O, Id), Lit(I3, 2)), Coalesce(T, Lit(TruthType, True)),
   Op("not", TruthType, Coalesce(T, Lit(TruthType, False))),
   Test("eq", If(OIsOne, Id, Lit(I3, 2)), Lit(I3, 2)), If(UIsOne, OIsOne, Op("isMissing", TruthType, T)),
   In(O, <<Lit(N3, 1), Field("r")>>, TRUE), In(O, <<Lit(N3, 1), Lit(N3, Null)>>, FALSE), In(U, <<>>, TRUE),
   \* not supported: a condition that may be absent, arithmetic, a subquery
   T, Op("not", TruthType, T), Test("and", T, OIsOne), Test("eq", Op("negate", I3, Id), Lit(I3, 1)),
   Exists(Where(From("D"), OIsOne)), If(T, OIsOne, UIsOne)}

Projections ==
  {<<Id>>, <<O>>, <<U>>, <<Coalesce(O, Id), Op("isMissing", TruthType, T)>>, <<Field("b"), Field("r")>>,
   <<If(OIsOne, Lit(N3, Null), Field("r"))>>, <<OIsOne>>}

Trees ==
  {Where(From("C"), c) : c \in Comparisons \cup Others}
  \cup {Chosen(From("C"), p) : p \in Projections}
  \cup {Sliced(Where(From("C"), Test("ne", Field("b"), Lit(B2, 0))), s[1], s[2]) :
          s \in {<<0, None>>, <<1, 1>>, <<0, 0>>, <<9, None>>, <<0, 9>>}}
  \cup {Sliced(Chosen(From("C"), <<U>>), 0, 1), Chosen(Sliced(From("C"), 1, 2), <<Field("r")>>),
        Where(Chosen(From("C"), <<Id>>), Lit(TruthType, True)), Where(From("D"), OIsOne),
        [kind |-> "distinct", input |-> From("C")], Chosen(From("D"), <<[Field("id") EXCEPT !.model = "D"]>>),
        [kind |-> "join", left |-> From("C"), right |-> From("D"), join |-> "cross", condition |-> None],
        Sliced(Sliced(Sliced(Sliced(From("C"), 0, None), 0, None), 0, None), 0, None)}

Asking ==
  {Where(From("C"), Test("eq", O, Param(N3))), Chosen(From("C"), <<Coalesce(Param(N3), Id)>>),
   Where(From("C"), In(O, <<Param(N3)>>, FALSE)), Where(From("C"), Test("isNotDistinctFrom", O, Param(N3)))}

Nothing1 == [ty |-> I3, datum |-> 1]

MCRequests ==
  {[tree |-> tree, bound |-> Nothing1] : tree \in Trees}
  \cup {[tree |-> tree, bound |-> bound] : tree \in Asking,
          bound \in {[ty |-> N3, datum |-> 1], [ty |-> N3, datum |-> Null], [ty |-> N3, datum |-> Missing],
                     [ty |-> N3, datum |-> 9], Nothing1}}

MCPolicies == {RemoteOnly, Hybrid(1, 1, 1), Hybrid(0, 1, 1)}

MCPipelineLimits == [maxNodes |-> 8, expression |-> [maxNodes |-> 9, maxDepth |-> 5]]

MCEngineLimits == [maxPlanNodes |-> 4, maxExpressionNodes |-> 12, maxConcurrency |-> 1]

Corruption(e, set, dropped, nullable) == [engine |-> e, set |-> set, dropped |-> dropped, nullable |-> nullable]

MCCorruptions ==
  {Corruption("postgres", s, {}, {}) :
     s \in {[u |-> SqlValue("numeric", 9)], [u |-> SqlValue("numeric", -1)], [t |-> SqlInteger(7)]}}
  \cup {Corruption("postgres", [u |-> SqlValue("numeric", SqlNull)], {}, {"u"}),
        Corruption("postgres", [id |-> SqlInteger(SqlNull)], {}, {"id"}),
        Corruption("postgres", <<>>, {"r"}, {})}
  \cup {Corruption("mongodb", s, {}, {}) :
          s \in {[u |-> BsonNull], [u |-> Bson("decimal", 1)], [u |-> Bson("decimal", 18)], [u |-> Bson("long", 1)],
                 [id |-> Bson("long", 9)], [id |-> Bson("int", 2)], [t |-> BsonInt(7)], [b |-> Bson("binData", 3)],
                 [o |-> BsonText("one")]}}
  \cup {Corruption("mongodb", <<>>, {"r"}, {}), Corruption("mongodb", <<>>, {"o"}, {})}
=============================================================================
