-------------------------- MODULE MCMemoryExecutor --------------------------
(***************************************************************************)
(* Two models: A with a nullable and optional integer and a list, B with a *)
(* reference to A.  Integers have three bits.                              *)
(***************************************************************************)
EXTENDS MemoryExecutor

I3 == [base |-> "int", bits |-> 3, nullable |-> FALSE]
N3 == [I3 EXCEPT !.nullable = TRUE]
L3 == [base |-> "list", element |-> I3, nullable |-> FALSE]

MCModels ==
  [A |-> [fields |-> [id |-> I3, v |-> N3, tags |-> L3], identity |-> {"id"}],
   B |-> [fields |-> [id |-> I3, a |-> I3], identity |-> {"id"}]]

MCPipelineLimits == [maxNodes |-> 8, expression |-> [maxNodes |-> 7, maxDepth |-> 4]]

-----------------------------------------------------------------------------
Field(model, alias, name) ==
  [kind |-> "field", ty |-> MCModels[model].fields[name], model |-> model, alias |-> alias, name |-> name,
   scope |-> 0, lifted |-> FALSE]

Lit(ty, v) == [kind |-> "literal", ty |-> ty, value |-> v]
Lift(node) == [kind |-> "unary", op |-> "lift", ty |-> N3, input |-> node]
IsNull(node) == [kind |-> "unary", op |-> "isNull", ty |-> TruthType, input |-> node]
Test(op, left, right) == [kind |-> "binary", op |-> op, ty |-> TruthType, left |-> left, right |-> right]
Exists(tree) == [kind |-> "exists", ty |-> TruthType, subquery |-> tree]

From(model, alias) == [kind |-> "source", model |-> model, alias |-> alias]
Where(tree, condition) == [kind |-> "filter", input |-> tree, condition |-> condition]
Only(expression) == [form |-> "value", expressions |-> <<expression>>]
Tuple(expressions) == [form |-> "tuple", expressions |-> expressions]
Chosen(tree, projection) == [kind |-> "project", input |-> tree, projection |-> projection]

AId == Field("A", NoAlias, "id")
AV == Field("A", NoAlias, "v")
BA == Field("B", NoAlias, "a")
BId == Field("B", NoAlias, "id")
Here(name) == Field("A", "here", name)
There(name) == Field("A", "there", name)

One1 == Lit(N3, 1)
Ones == Where(From("A", NoAlias), Test("eq", AV, One1))

\* Is there a B that refers to this A and has a namesake among the A of the same value?
Nested ==
  Exists(Where(From("B", NoAlias),
               Conjunction(Test("eq", BA, Here("id")),
                           Exists(Where(From("A", "there"),
                                        Conjunction(Test("eq", There("id"), BId),
                                                    Test("eq", There("v"), Here("v"))))))))

\* Three subqueries within one another, one too many.
Deep ==
  LET Some(alias, condition) == Exists(Where(From("B", alias), condition))
  IN  Some("one", Some("two", Some("three", Lit(TruthType, True))))

\* A set operation over the rows of joins.
Pairs == [kind |-> "join", left |-> From("A", NoAlias), right |-> From("B", NoAlias), join |-> "cross",
          condition |-> None]
Twice == [kind |-> "set", left |-> Pairs, right |-> Pairs, operator |-> "unionAll"]

MCSources == {From("A", NoAlias), From("A", "here"), From("B", NoAlias), Twice}

MCOthers == {From("B", NoAlias), From("A", "there"), Ones, Chosen(From("A", NoAlias), Only(AV))}

MCConditions ==
  {Test("eq", AV, One1), Exists(Where(From("B", NoAlias), Test("eq", BA, AId))), Nested, Deep,
   IsNull(Lift(BId)), Test("lt", BId, Lit(I3, 2)), Lit(TruthType, True)}

MCJoinConditions == {Test("eq", AId, BA), Test("eq", Lift(BA), AV), Test("eq", Here("v"), There("v"))}

MCProjections == {Only(AV), Only(Field("A", NoAlias, "tags")), Tuple(<<Lift(BId), AV>>)}

Agg(fn, input) == [fn |-> fn, input |-> input, present |-> TRUE]

MCReductions ==
  {[groups |-> None, selection |-> [form |-> "tuple", aggregates |-> <<Agg("countRows", None), Agg("sum", AV)>>]],
   [groups |-> Only(AV), selection |-> [form |-> "tuple", aggregates |-> <<Agg("countPresent", AV), Agg("max", AId)>>]],
   [groups |-> None, selection |-> [form |-> "value", aggregates |-> <<Agg("min", BId)>>]]}

By(expression, descending) == <<[expression |-> expression, descending |-> descending]>>

Ranking(fn, partition, order) ==
  [fn |-> fn, input |-> None, present |-> FALSE, partition |-> partition, order |-> order, frame |-> None]

Summing(partition, order, start, end) ==
  [fn |-> "sum", input |-> AV, present |-> TRUE, partition |-> partition, order |-> order,
   frame |-> [start |-> start, end |-> end]]

MCWindows ==
  {Ranking("rowNumber", None, By(AId, TRUE)), Ranking("rowNumber", None, By(AV, FALSE)),
   Ranking("rank", None, By(AV, TRUE)), Ranking("denseRank", Only(AV), By(AId, FALSE)),
   Summing(None, By(AId, TRUE), -1, 0), Summing(Only(AV), <<>>, Before, After)}

MCSortExpressions == {AV, BId}

MCSlices == {<<0, None>>, <<1, 1>>}

A(id, v, tags) == [id |-> id, v |-> v, tags |-> tags]
B(id, a) == [id |-> id, a |-> a]

MCDatabases ==
  {[A |-> <<A(3, 1, <<1, 2>>), A(1, Null, <<>>), A(2, 1, <<1>>)>>, B |-> <<B(2, 3), B(1, 1)>>],
   [A |-> <<A(2, 2, <<>>), A(1, Missing, Missing), A(3, 3, <<2, 2>>)>>, B |-> <<B(1, 1), B(3, 1)>>],
   [A |-> <<>>, B |-> <<B(1, 2)>>]}

Option(batchRows, maxPlanNodes, timeout, maxRows, maxBytes) ==
  [batchRows |-> batchRows, maxPlanNodes |-> maxPlanNodes, timeout |-> timeout, maxRows |-> maxRows,
   maxBytes |-> maxBytes]

MCOptions == {Option(2, 9, FALSE, None, None), Option(1, 4, TRUE, 3, 280), Option(0, 9, FALSE, None, None)}

MCBoundParameter == [ty |-> I3, datum |-> 1]
=============================================================================
