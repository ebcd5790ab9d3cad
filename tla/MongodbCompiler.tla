-------------------------- MODULE MongodbCompiler --------------------------
(***************************************************************************)
(* The MongoDB engine between a plan and an aggregation, and between a     *)
(* document and a datum (engines/mongodb/src: mapping, compiler, codec).   *)
(* As for PostgreSQL, a datum is a pair of expressions, for its state and  *)
(* its value.                                                              *)
(*                                                                         *)
(* A BSON value has a type and a content.  The content of a decimal is     *)
(* counted in halves, so that there are fractional ones; that of binary    *)
(* data is twice a number, and one more if its subtype is not the generic  *)
(* one.  What MongoDB makes of a pipeline is external, modelled by the     *)
(* stages and operators that are generated.                                *)
(***************************************************************************)
EXTENDS PostgresCompiler

CONSTANT ServerError     \* the server refuses a pipeline

ASSUME ServerAssumption == ServerError \in ExecutionFailures

Bson(type, v) == [type |-> type, v |-> v]
BsonMissing == Bson("missing", 0)
BsonNull == Bson("null", 0)
BsonInt(n) == Bson("int", n)
BsonBool(b) == Bson("bool", IF b THEN 1 ELSE 0)
BsonText(text) == Bson("string", text)

-----------------------------------------------------------------------------
(***************************************************************************)
(* Mappings and types.                                                     *)
(***************************************************************************)

\* CollectionMapping::validate.  A mapping has, by field, the name of a BSON field.
ValidCollectionMapping(definition, mapping) ==
  /\ DOMAIN mapping = DOMAIN definition.fields
  /\ IsInjective(mapping)

\* MongodbCatalog::collection.
CollectionMapped(model, catalog) ==
  IF OfDefinition(model, catalog) THEN ValidCollectionMapping(Models[model], catalog[model].mapping) ELSE FALSE

\* ensure_supported_type.
MongodbBases == {"int", "uint", "truth", "bytes"}

\* encode_datum, encode_value.
BsonEncode(ty, datum) ==
  CASE Absent(datum) -> BsonNull
    [] ~ Absent(datum) /\ ty.base = "truth" -> BsonInt(TruthTag(datum))
    [] ~ Absent(datum) /\ ty.base = "int" -> Bson("long", datum)
    [] ~ Absent(datum) /\ ty.base \in {"uint", "decimal"} -> Bson("decimal", 2 * datum)
    [] ~ Absent(datum) /\ ty.base = "bytes" -> Bson("binData", 2 * datum)

-----------------------------------------------------------------------------
(***************************************************************************)
(* Aggregation expressions (external).  Values are ordered by their types  *)
(* first, numbers of all types together, and any value counts as a         *)
(* condition.                                                              *)
(***************************************************************************)
Path(of, key) == [bson |-> "path", of |-> of, key |-> key]
Literal(value) == [bson |-> "literal", value |-> value]
LiteralInt(n) == Literal(BsonInt(n))
TypeOf(of) == [bson |-> "type", of |-> of]
CompareBson(op, left, right) == [bson |-> "compare", op |-> op, left |-> left, right |-> right]
EqualsInt(of, n) == CompareBson("eq", of, LiteralInt(n))
IsOfType(of, type) == CompareBson("eq", TypeOf(of), Literal(BsonText(type)))
AndBson(parts) == [bson |-> "and", parts |-> parts]
OrBson(parts) == [bson |-> "or", parts |-> parts]
NotBson(of) == [bson |-> "not", of |-> of]
Cond(predicate, yes, no) == [bson |-> "cond", predicate |-> predicate, yes |-> yes, no |-> no]

TypeRank(value) ==
  CASE value.type = "missing" -> 1 [] value.type = "null" -> 2
    [] value.type \in {"int", "long", "decimal"} -> 3 [] value.type = "string" -> 4
    [] value.type = "binData" -> 5 [] value.type = "bool" -> 6

Content(value) == IF value.type \in {"int", "long"} THEN 2 * value.v ELSE value.v

BsonOrder(op, left, right) ==
  IF TypeRank(left) # TypeRank(right) THEN CompareNumbers(op, TypeRank(left), TypeRank(right))
  ELSE CompareNumbers(op, Content(left), Content(right))

Truthy(value) ==
  CASE value.type \in {"missing", "null"} -> FALSE
    [] value.type \in {"string", "binData"} -> TRUE
    [] OTHER -> value.v # 0

RECURSIVE EvalBson(_, _)
EvalBson(e, document) ==
  CASE e.bson = "path" -> IF e.key \in DOMAIN document[e.of] THEN document[e.of][e.key] ELSE BsonMissing
    [] e.bson = "literal" -> e.value
    [] e.bson = "type" -> BsonText(EvalBson(e.of, document).type)
    [] e.bson = "compare" ->
         BsonBool(BsonOrder(e.op, EvalBson(e.left, document), EvalBson(e.right, document)))
    [] e.bson = "and" -> BsonBool(\A i \in DOMAIN e.parts : Truthy(EvalBson(e.parts[i], document)))
    [] e.bson = "or" -> BsonBool(\E i \in DOMAIN e.parts : Truthy(EvalBson(e.parts[i], document)))
    [] e.bson = "not" -> BsonBool(~ Truthy(EvalBson(e.of, document)))
    [] e.bson = "cond" -> EvalBson(IF Truthy(EvalBson(e.predicate, document)) THEN e.yes ELSE e.no, document)

-----------------------------------------------------------------------------
(***************************************************************************)
(* Expressions.                                                            *)
(***************************************************************************)
BsonTruth(value) == SqlDatum(LiteralInt(StateValue), value, TruthType, TRUE)

TrueBson == LiteralInt(1)
FalseBson == LiteralInt(0)
UnknownBson == LiteralInt(2)

\* bound_datum.
BsonBound(ty, datum) ==
  IF ty.base \notin MongodbBases \/ ~ Conforms(ty, datum) THEN NotCompiled
  ELSE SqlDatum(LiteralInt(StateTag(datum)), Literal(BsonEncode(ty, datum)), ty, ~ Absent(datum))

BsonUnary(op, input, ty) ==
  CASE op = "isNull" -> BsonTruth(Cond(EqualsInt(input.state, StateNull), TrueBson, FalseBson))
    [] op = "isMissing" -> BsonTruth(Cond(EqualsInt(input.state, StateMissing), TrueBson, FalseBson))
    [] op = "isPresent" -> BsonTruth(Cond(EqualsInt(input.state, StateMissing), FalseBson, TrueBson))
    [] op = "lift" -> [input EXCEPT !.ty = ty]
    [] op = "not" ->
         IF ~ TotalTruth(input) THEN NotCompiled
         ELSE BsonTruth(Cond(EqualsInt(input.value, 1), FalseBson,
                             Cond(EqualsInt(input.value, 0), TrueBson, UnknownBson)))
    [] op \in {"cast", "negate", "abs"} -> NotCompiled

\* comparison_truth.
BsonComparison(left, right, comparison) ==
  BsonTruth(Cond(OrBson(<<CompareBson("ne", left.state, LiteralInt(StateValue)),
                          CompareBson("ne", right.state, LiteralInt(StateValue))>>),
                 UnknownBson, Cond(comparison, TrueBson, FalseBson)))

\* same_scalar_repr.
Comparable(left, right) ==
  left.ty.base \in MongodbBases /\ right.ty.base \in MongodbBases /\ SameShape(left.ty, right.ty)

\* value_equal.
BsonEqual(left, right) == CompareBson("eq", left.value, right.value)

\* value_order has no order for binary data.  Its order over truths (truth_order_rank) is left
\* out: truths have no ordering, and the validation of expressions refuses one over them.
BsonOrdered(op, left, right) ==
  IF left.ty.base = "bytes" THEN NotCompiled
  ELSE BsonComparison(left, right, CompareBson(op, left.value, right.value))

\* The condition of IS [NOT] DISTINCT FROM.
BsonSame(left, right) ==
  AndBson(<<CompareBson("eq", left.state, right.state),
            Cond(AndBson(<<EqualsInt(left.state, StateValue), EqualsInt(right.state, StateValue)>>),
                 BsonEqual(left, right), Literal(BsonBool(TRUE)))>>)

BsonConnective(decides, other, left, right) ==
  BsonTruth(Cond(OrBson(<<EqualsInt(left.value, decides), EqualsInt(right.value, decides)>>), LiteralInt(decides),
                 Cond(AndBson(<<EqualsInt(left.value, other), EqualsInt(right.value, other)>>),
                      LiteralInt(other), UnknownBson)))

BsonChoice(predicate, yes, no, ty, always) ==
  SqlDatum(Cond(predicate, yes.state, no.state), Cond(predicate, yes.value, no.value), ty, always)

BsonCompared(op, left, right) ==
  CASE op = "eq" -> BsonComparison(left, right, BsonEqual(left, right))
    [] op = "ne" -> BsonComparison(left, right, NotBson(BsonEqual(left, right)))
    [] op \in OrderOps -> BsonOrdered(op, left, right)
    [] op = "isNotDistinctFrom" -> BsonTruth(Cond(BsonSame(left, right), TrueBson, FalseBson))
    [] op = "isDistinctFrom" -> BsonTruth(Cond(NotBson(BsonSame(left, right)), TrueBson, FalseBson))

BsonBinary(op, left, right, ty) ==
  CASE op \in EqualityOps \cup OrderOps ->
         IF Comparable(left, right) THEN BsonCompared(op, left, right) ELSE NotCompiled
    [] op \in {"and", "or"} ->
         IF ~ (TotalTruth(left) /\ TotalTruth(right)) THEN NotCompiled
         ELSE IF op = "and" THEN BsonConnective(0, 1, left, right) ELSE BsonConnective(1, 0, left, right)
    [] op = "coalesce" ->
         BsonChoice(EqualsInt(left.state, StateValue), left, right, ty, left.always \/ right.always)
    [] op \in ArithmeticOps -> NotCompiled

BsonMembership(input, candidates, negate) ==
  LET hit == IF negate THEN FalseBson ELSE TrueBson
      miss == IF negate THEN TrueBson ELSE FalseBson
      Some(tag) ==
        OrBson([i \in DOMAIN candidates |->
                  EqualsInt(BsonComparison(input, candidates[i], BsonEqual(input, candidates[i])).value, tag)])
  IN  CASE \E i \in DOMAIN candidates : ~ Comparable(input, candidates[i]) -> NotCompiled
        [] candidates = <<>> -> BsonTruth(miss)
        [] OTHER -> BsonTruth(Cond(Some(1), hit, Cond(Some(2), UnknownBson, miss)))

BsonConditional(condition, yes, no, ty) ==
  IF ~ TotalTruth(condition) THEN NotCompiled
  ELSE BsonChoice(EqualsInt(condition.value, 1), yes, no, ty, yes.always /\ no.always)

BsonField(node, scopes) ==
  IF node.lifted \/ node.scope \notin DOMAIN scopes THEN NotCompiled
  ELSE IF scopes[node.scope] # node.model THEN NotCompiled
  ELSE SqlDatum(Path("state", node.name), Path("value", node.name), node.ty,
                Always(node.ty, Presence(node.model, node.name)))

BsonNode(node, inputs, scopes, bound) ==
  IF \E i \in DOMAIN inputs : ~ inputs[i].ok THEN NotCompiled
  ELSE CASE node.kind = "field" -> BsonField(node, scopes)
         [] node.kind = "literal" -> BsonBound(node.ty, node.value)
         [] node.kind = "parameter" -> IF bound.ty = node.ty THEN BsonBound(node.ty, bound.datum) ELSE NotCompiled
         [] node.kind = "exists" -> NotCompiled
         [] node.kind = "unary" -> BsonUnary(node.op, inputs[1], node.ty)
         [] node.kind = "binary" -> BsonBinary(node.op, inputs[1], inputs[2], node.ty)
         [] node.kind = "membership" -> BsonMembership(inputs[1], Tail(inputs), node.negate)
         [] node.kind = "conditional" -> BsonConditional(inputs[1], inputs[2], inputs[3], node.ty)

RECURSIVE BsonNodes(_, _, _)
BsonNodes(node, scopes, bound) ==
  BsonNode(node, [i \in DOMAIN Children(node) |-> BsonNodes(Children(node)[i], scopes, bound)], scopes, bound)

\* compile_expr.
BsonExpr(expression, scopes, bound) ==
  IF expression.outer # 0 THEN NotCompiled ELSE BsonNodes(expression.node, scopes, bound)

\* supports_node; expression_support repeats PostgreSQL's on the types MongoDB represents.
MongodbSupports(node, catalog) ==
  IF node.kind # "source" THEN StageSupported(node, MongodbBases)
  ELSE /\ CollectionMapped(node.model, catalog)
       /\ \A f \in DOMAIN Models[node.model].fields : Models[node.model].fields[f].base \in MongodbBases

-----------------------------------------------------------------------------
(***************************************************************************)
(* The source, what its documents have to be like, and the other stages.   *)
(***************************************************************************)

\* source_state.
SourceState(value) ==
  Cond(IsOfType(value, "missing"), LiteralInt(StateMissing),
       Cond(IsOfType(value, "null"), LiteralInt(StateNull), LiteralInt(StateValue)))

BetweenBson(value, least, greatest) ==
  AndBson(<<CompareBson("ge", value, Literal(least)), CompareBson("le", value, Literal(greatest))>>)

\* source_value_valid.
SourceValueValid(ty, value) ==
  LET integer == OrBson(<<IsOfType(value, "int"), IsOfType(value, "long")>>)
      never == Literal(BsonBool(FALSE))
  IN  CASE ty.base = "truth" ->
             Cond(integer, OrBson([tag \in 1 .. 3 |-> EqualsInt(value, tag - 1)]), never)
        [] ty.base = "int" ->
             Cond(integer, BetweenBson(value, Bson("long", -(2 ^ (ty.bits - 1))), Bson("long", 2 ^ (ty.bits - 1) - 1)),
                  never)
        [] ty.base = "uint" ->
             Cond(IsOfType(value, "decimal"),
                  BetweenBson(value, Bson("decimal", 0), Bson("decimal", 2 * (2 ^ ty.bits - 1))), never)
        [] ty.base = "bytes" -> IsOfType(value, "binData")

\* Mutation: null is accepted wherever a field may be missing.
PresenceValid_NullIsMissing(presence, ty, state) ==
  CASE presence = "required" /\ ~ ty.nullable -> EqualsInt(state, StateValue)
    [] presence = "required" /\ ty.nullable -> CompareBson("ne", state, LiteralInt(StateMissing))
    [] presence = "optional" -> Literal(BsonBool(TRUE))

PresenceValid(presence, ty, state) ==
  CASE presence = "required" /\ ~ ty.nullable -> EqualsInt(state, StateValue)
    [] presence = "required" /\ ty.nullable -> CompareBson("ne", state, LiteralInt(StateMissing))
    [] presence = "optional" /\ ~ ty.nullable -> CompareBson("ne", state, LiteralInt(StateNull))
    [] presence = "optional" /\ ty.nullable -> Literal(BsonBool(TRUE))

\* source_field_valid.
SourceFieldValid(presence, ty, state, value) ==
  AndBson(<<PresenceValid(presence, ty, state),
            Cond(EqualsInt(state, StateValue), SourceValueValid(ty, value), Literal(BsonBool(TRUE)))>>)

\* compile_source: the relation, and what is valid of every document.
BsonSource(model, catalog) ==
  LET fields == Models[model].fields
      Value(f) == Path("column", catalog[model].mapping[f])
      names == SetToSeq(DOMAIN fields)
  IN  IF ~ CollectionMapped(model, catalog) \/ (\E f \in DOMAIN fields : fields[f].base \notin MongodbBases)
      THEN NotCompiled
      ELSE Relation(model,
             <<Selected([f \in DOMAIN fields |-> [state |-> SourceState(Value(f)), value |-> Value(f)]])>>,
             <<model>>, fields, ModelOutput(model))
           @@ [valid |-> AndBson([i \in DOMAIN names |->
                 SourceFieldValid(Presence(model, names[i]), fields[names[i]], SourceState(Value(names[i])),
                                  Value(names[i]))])]

BsonFilter(relation, condition, truth) ==
  IF ~ truth.ok THEN NotCompiled
  ELSE IF condition.ty.base # "truth" \/ ~ truth.always THEN NotCompiled
  ELSE [relation EXCEPT !.stages =
          Append(@, [kind |-> "match",
                     condition |-> AndBson(<<EqualsInt(truth.state, StateValue), EqualsInt(truth.value, 1)>>)])]

BsonProject(relation, projection, data) ==
  IF \E i \in DOMAIN data : ~ data[i].ok \/ projection.expressions[i].ty.base \notin MongodbBases
  THEN NotCompiled
  ELSE [relation EXCEPT
          !.stages = Append(@, Selected([i \in DOMAIN data |-> [state |-> data[i].state, value |-> data[i].value]])),
          !.scopes = <<>>,
          !.types = [i \in DOMAIN data |-> projection.expressions[i].ty],
          !.output = ValueOutput(projection.ty)]

BsonSlice(relation, offset, limit) ==
  IF offset > MaxSlice \/ (limit # None /\ limit > MaxSlice) THEN NotCompiled
  ELSE [relation EXCEPT !.stages =
          @ \o (IF offset = 0 THEN <<>> ELSE <<[kind |-> "skip", n |-> offset]>>)
            \o (IF limit = None THEN <<>> ELSE <<[kind |-> "limit", n |-> limit]>>)]

BsonStage(node, input, bound) ==
  CASE node.kind = "filter" -> BsonFilter(input, node.condition, BsonExpr(node.condition, input.scopes, bound))
    [] node.kind = "project" ->
         BsonProject(input, node.projection,
                     [i \in DOMAIN node.projection.expressions |->
                        BsonExpr(node.projection.expressions[i], input.scopes, bound)])
    [] node.kind = "slice" -> BsonSlice(input, node.offset, node.limit)
    [] OTHER -> NotCompiled

BsonNext(relations, node, catalog, bound) ==
  CASE node.kind = "source" -> BsonSource(node.model, catalog)
    [] node.kind \in {"filter", "project", "slice"} /\ relations[node.input].ok ->
         BsonStage(node, relations[node.input], bound)
    [] OTHER -> NotCompiled

\* compile.
BsonCompile(plan, catalog, bound) ==
  CompiledRoot(plan,
    FoldLeft(LAMBDA relations, node : Append(relations, BsonNext(relations, node, catalog, bound)), <<>>, plan.nodes))

-----------------------------------------------------------------------------
(***************************************************************************)
(* Execution (external) and decoding.  A missing value is left out of a    *)
(* projected document.                                                     *)
(***************************************************************************)
Documents(documents) == [i \in DOMAIN documents |-> [column |-> documents[i]]]

Computed(columns, part, document) ==
  LET Of(k) == EvalBson(IF part = "state" THEN columns[k].state ELSE columns[k].value, document)
  IN  [k \in {k \in DOMAIN columns : Of(k).type # "missing"} |-> Of(k)]

BsonRows(documents, stage) ==
  CASE stage.kind = "select" ->
         [i \in DOMAIN documents |-> [state |-> Computed(stage.columns, "state", documents[i]),
                                      value |-> Computed(stage.columns, "value", documents[i])]]
    [] stage.kind = "match" -> SelectSeq(documents, LAMBDA d : Truthy(EvalBson(stage.condition, d)))
    [] stage.kind = "skip" -> ExecuteSlice(documents, stage.n, None)
    [] stage.kind = "limit" -> ExecuteSlice(documents, 0, stage.n)

\* The server takes no limit of zero.
RefusedByServer(relation) ==
  \E i \in DOMAIN relation.stages : relation.stages[i].kind = "limit" /\ relation.stages[i].n = 0

\* decode_value.
BsonDecode(ty, value) ==
  CASE ty.base = "truth" /\ value.type \in {"int", "long"} ->
         IF value.v \in 0 .. 2 THEN TagTruth(value.v) ELSE InvalidDatum
    [] ty.base = "int" /\ value.type \in {"int", "long"} -> value.v
    [] ty.base = "uint" /\ value.type = "decimal" ->
         IF value.v >= 0 /\ value.v % 2 = 0 THEN value.v \div 2 ELSE InvalidDatum
    [] ty.base = "bytes" /\ value.type = "binData" ->
         IF value.v % 2 = 0 THEN value.v \div 2 ELSE InvalidDatum
    [] OTHER -> InvalidDatum

\* RowDecoder::decode of one datum: a state is an integer.
BsonDatumOf(ty, state, value) ==
  CASE state = BsonInt(StateMissing) -> Missing
    [] state = BsonInt(StateNull) -> Null
    [] state = BsonInt(StateValue) -> BsonDecode(ty, value)
    [] OTHER -> InvalidDatum

BsonRowOf(relation, document) ==
  DecodeOutput(relation.output,
    [k \in DOMAIN relation.types |->
       BsonDatumOf(relation.types[k], EvalBson(Path("state", k), document), EvalBson(Path("value", k), document))])

\* The preflight of MongodbStream::open: no document is invalid.
Preflight(relation, documents) ==
  \A i \in DOMAIN documents : Truthy(EvalBson(relation.valid, [column |-> documents[i]]))

MongodbRows(relation, documents) ==
  IF RefusedByServer(relation) THEN Failed(ServerError)
  ELSE LET answer == FoldLeft(BsonRows, Documents(documents), relation.stages)
       IN  Delivered([i \in DOMAIN answer |-> BsonRowOf(relation, answer[i])])
=============================================================================
