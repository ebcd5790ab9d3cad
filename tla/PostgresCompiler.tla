-------------------------- MODULE PostgresCompiler --------------------------
(***************************************************************************)
(* The PostgreSQL engine between a plan and a statement, and between a row *)
(* and a datum (engines/postgres/src: mapping, compiler, codec, inspect).  *)
(* A datum is a pair of SQL expressions, for its state and its value.      *)
(*                                                                         *)
(* An SQL value has a type and is null or not.  A table has columns, with  *)
(* their types and NOT NULL constraints, and rows.  What PostgreSQL makes  *)
(* of a statement is external, modelled by the SQL that is generated.      *)
(***************************************************************************)
EXTENDS EnginePlacement, MemoryStages

CONSTANTS
  SqlNull,
  MaxSlice     \* the largest offset or limit a server can be given, i64::MAX in the code

ASSUME SliceAssumption == MaxSlice \in Nat

StateMissing == 0
StateNull == 1
StateValue == 2

\* Truth values as numbers, in SQL, BSON and the transport of both.
TruthTag(truth) == CASE truth = False -> 0 [] truth = True -> 1 [] truth = Unknown -> 2

TagTruth(tag) == CASE tag = 0 -> False [] tag = 1 -> True [] tag = 2 -> Unknown

SqlValue(type, v) == [type |-> type, v |-> v]
SqlInteger(n) == SqlValue("integer", n)
SqlBoolean(b) == SqlValue("boolean", b)

Always(ty, presence) == presence = "required" /\ ~ ty.nullable

-----------------------------------------------------------------------------
(***************************************************************************)
(* Types and mappings.  The integer types differ in width only.            *)
(***************************************************************************)

\* postgres_type, postgres_catalog_type.
PostgresType(ty) ==
  CASE ty.base \in {"int", "truth"} -> "integer"
    [] ty.base \in {"uint", "decimal"} -> "numeric"
    [] ty.base = "bytes" -> "bytea"
    [] OTHER -> "unsupported"

PostgresBases == {"int", "uint", "decimal", "truth", "bytes"}

Presence(model, field) == IF field \in Models[model].optional THEN "optional" ELSE "required"

\* TableMapping::validate.  A mapping has, by field, a value column and, or None, a
\* presence column.
ValidTableMapping(definition, mapping) ==
  LET fields == DOMAIN definition.fields
      Columns(f) == IF mapping[f].presence = None THEN <<mapping[f].value>>
                    ELSE <<mapping[f].value, mapping[f].presence>>
  IN  /\ DOMAIN mapping = fields
      /\ \A f \in fields : (mapping[f].presence # None) = (f \in definition.optional)
      /\ \A f \in fields : IsInjective(Columns(f))
      /\ \A f, g \in fields : f # g => Range(Columns(f)) \cap Range(Columns(g)) = {}

\* An entry of a catalog belongs to one exact definition of its model.
OfDefinition(model, catalog) ==
  IF model \in DOMAIN catalog THEN catalog[model].fingerprint = Models[model] ELSE FALSE

\* PostgresCatalog::table.
TableMapped(model, catalog) ==
  IF OfDefinition(model, catalog) THEN ValidTableMapping(Models[model], catalog[model].mapping) ELSE FALSE

\* register: an entry is replaced by one of the same definition only.
Registered(catalog, model, definition, mapping, valid) ==
  IF ~ valid THEN catalog
  ELSE IF model \in DOMAIN catalog /\ catalog[model].fingerprint # definition THEN catalog
  ELSE (model :> [fingerprint |-> definition, mapping |-> mapping]) @@ catalog

-----------------------------------------------------------------------------
(***************************************************************************)
(* SQL (external).                                                         *)
(***************************************************************************)
Column(of, key) == [sql |-> "column", of |-> of, key |-> key]
Constant(value) == [sql |-> "constant", value |-> value]
Number(n) == Constant(SqlInteger(n))
\* A bind and the type it is cast to; the code numbers the binds of a statement.
Placeholder(bind, cast) == [sql |-> "bind", bind |-> bind, cast |-> cast]
IsNullSql(of) == [sql |-> "isNull", of |-> of]
CompareSql(op, left, right) == [sql |-> "compare", op |-> op, left |-> left, right |-> right]
EqualsNumber(of, n) == CompareSql("eq", of, Number(n))
AndSql(left, right) == [sql |-> "and", parts |-> <<left, right>>]
OrSql(parts) == [sql |-> "or", parts |-> parts]
NotSql(of) == [sql |-> "not", of |-> of]
CaseSql(whens, otherwise) == [sql |-> "case", whens |-> whens, otherwise |-> otherwise]
CastSql(of, type) == [sql |-> "cast", of |-> of, type |-> type]

CompareNumbers(op, a, b) ==
  CASE op = "eq" -> a = b [] op = "ne" -> a # b [] op = "lt" -> a < b
    [] op = "le" -> a <= b [] op = "gt" -> a > b [] op = "ge" -> a >= b

\* A comparison with null, or of types that do not compare, is not known.
SqlCompare(op, left, right) ==
  SqlBoolean(IF left.type # right.type \/ SqlNull \in {left.v, right.v} THEN SqlNull
             ELSE CompareNumbers(op, left.v, right.v))

SqlConjunction(values) ==
  SqlBoolean(CASE FALSE \in values -> FALSE [] FALSE \notin values /\ SqlNull \in values -> SqlNull
               [] OTHER -> TRUE)

SqlNegation(value) == SqlBoolean(IF value.v = SqlNull THEN SqlNull ELSE ~ value.v)

RECURSIVE EvalSql(_, _)
EvalSql(e, row) ==
  CASE e.sql = "column" -> row[e.of][e.key]
    [] e.sql = "constant" -> e.value
    [] e.sql = "bind" -> SqlValue(e.cast, e.bind.v)
    [] e.sql = "cast" -> SqlValue(e.type, EvalSql(e.of, row).v)
    [] e.sql = "isNull" -> SqlBoolean(EvalSql(e.of, row).v = SqlNull)
    [] e.sql = "compare" -> SqlCompare(e.op, EvalSql(e.left, row), EvalSql(e.right, row))
    [] e.sql = "and" -> SqlConjunction({EvalSql(e.parts[i], row).v : i \in DOMAIN e.parts})
    [] e.sql = "or" ->
         SqlNegation(SqlConjunction({SqlNegation(EvalSql(e.parts[i], row)).v : i \in DOMAIN e.parts}))
    [] e.sql = "not" -> SqlNegation(EvalSql(e.of, row))
    [] e.sql = "case" ->
         LET chosen == SelectSeq(e.whens, LAMBDA when : EvalSql(when[1], row).v = TRUE)
         IN  EvalSql(IF chosen = <<>> THEN e.otherwise ELSE chosen[1][2], row)

-----------------------------------------------------------------------------
(***************************************************************************)
(* Expressions (compiler.rs, compiler/expression.rs).                      *)
(***************************************************************************)
SqlDatum(state, value, ty, always) ==
  [ok |-> TRUE, state |-> state, value |-> value, ty |-> ty, always |-> always]

NotCompiled == [ok |-> FALSE]

TruthDatum(value) == SqlDatum(Number(StateValue), value, TruthType, TRUE)

\* CASE WHEN condition THEN yes ELSE no END.
IfSql(condition, yes, no) == CaseSql(<<<<condition, yes>>>>, no)

TrueSql == Number(1)
FalseSql == Number(0)
UnknownSql == Number(2)

TotalTruth(datum) == datum.ty.base = "truth" /\ datum.always

StateIs(datum, state) == EqualsNumber(datum.state, state)

SqlUnary(op, input, ty) ==
  CASE op = "isNull" -> TruthDatum(IfSql(StateIs(input, StateNull), TrueSql, FalseSql))
    [] op = "isMissing" -> TruthDatum(IfSql(StateIs(input, StateMissing), TrueSql, FalseSql))
    [] op = "isPresent" -> TruthDatum(IfSql(StateIs(input, StateMissing), FalseSql, TrueSql))
    [] op = "lift" -> [input EXCEPT !.ty = ty]
    [] op = "not" ->
         IF ~ TotalTruth(input) THEN NotCompiled
         ELSE TruthDatum(CaseSql(<<<<EqualsNumber(input.value, 1), FalseSql>>,
                                   <<EqualsNumber(input.value, 0), TrueSql>>,
                                   <<EqualsNumber(input.value, 2), UnknownSql>>>>,
                                 Constant(SqlInteger(SqlNull))))
    [] op \in {"cast", "negate", "abs"} -> NotCompiled

\* Mutation: an absent operand is left to the comparison of SQL.
ComparisonTruth_SqlNulls(left, right, comparison) ==
  TruthDatum(CaseSql(<<<<OrSql(<<IsNullSql(left.value), IsNullSql(right.value)>>), UnknownSql>>,
                       <<comparison, TrueSql>>>>, FalseSql))

\* comparison_truth.
ComparisonTruth(left, right, comparison) ==
  TruthDatum(CaseSql(<<<<OrSql(<<CompareSql("ne", left.state, Number(StateValue)),
                                 CompareSql("ne", right.state, Number(StateValue))>>), UnknownSql>>,
                       <<comparison, TrueSql>>>>, FalseSql))

ValueEqualSql(left, right) == CompareSql("eq", left.value, right.value)

\* The inner CASE of IS [NOT] DISTINCT FROM.
SameDatumSql(left, right) ==
  CaseSql(<<<<AndSql(StateIs(left, StateMissing), StateIs(right, StateMissing)), Constant(SqlBoolean(TRUE))>>,
            <<AndSql(StateIs(left, StateNull), StateIs(right, StateNull)), Constant(SqlBoolean(TRUE))>>,
            <<OrSql(<<CompareSql("ne", left.state, Number(StateValue)),
                      CompareSql("ne", right.state, Number(StateValue))>>), Constant(SqlBoolean(FALSE))>>>>,
          ValueEqualSql(left, right))

\* AND and OR, where the one value decides and only two of the other give it.
ConnectiveSql(decides, other, left, right) ==
  TruthDatum(CaseSql(<<<<OrSql(<<EqualsNumber(left.value, decides), EqualsNumber(right.value, decides)>>),
                         Number(decides)>>,
                       <<AndSql(EqualsNumber(left.value, other), EqualsNumber(right.value, other)),
                         Number(other)>>>>, UnknownSql))

\* CASE WHEN condition THEN yes ELSE no END, for both parts of a datum.
ChooseSql(condition, yes, no, ty, always) ==
  SqlDatum(IfSql(condition, yes.state, no.state), IfSql(condition, yes.value, no.value), ty, always)

\* ensure_same_scalar_shape: nullability is no part of the shape.
SameShape(left, right) == left.base = right.base /\ left.bits = right.bits

SqlCompared(op, left, right) ==
  CASE op = "eq" -> ComparisonTruth(left, right, ValueEqualSql(left, right))
    [] op = "ne" -> ComparisonTruth(left, right, NotSql(ValueEqualSql(left, right)))
    [] op \in OrderOps -> ComparisonTruth(left, right, CompareSql(op, left.value, right.value))
    [] op = "isNotDistinctFrom" -> TruthDatum(IfSql(SameDatumSql(left, right), TrueSql, FalseSql))
    [] op = "isDistinctFrom" -> TruthDatum(IfSql(NotSql(SameDatumSql(left, right)), TrueSql, FalseSql))

SqlBinary(op, left, right, ty) ==
  CASE op \in EqualityOps \cup OrderOps ->
         IF SameShape(left.ty, right.ty) THEN SqlCompared(op, left, right) ELSE NotCompiled
    [] op \in {"and", "or"} ->
         IF ~ (TotalTruth(left) /\ TotalTruth(right)) THEN NotCompiled
         ELSE IF op = "and" THEN ConnectiveSql(0, 1, left, right) ELSE ConnectiveSql(1, 0, left, right)
    [] op = "coalesce" ->
         ChooseSql(StateIs(left, StateValue), left, right, ty, left.always \/ right.always)
    [] op \in ArithmeticOps -> NotCompiled

SqlMembership(input, candidates, negate) ==
  LET hit == IF negate THEN FalseSql ELSE TrueSql
      miss == IF negate THEN TrueSql ELSE FalseSql
      Some(tag) ==
        OrSql([i \in DOMAIN candidates |->
                 EqualsNumber(ComparisonTruth(input, candidates[i], ValueEqualSql(input, candidates[i])).value, tag)])
  IN  CASE candidates = <<>> -> TruthDatum(miss)
        [] candidates # <<>> /\ (\E i \in DOMAIN candidates : ~ SameShape(input.ty, candidates[i].ty)) -> NotCompiled
        [] OTHER -> TruthDatum(CaseSql(<<<<Some(1), hit>>, <<Some(2), UnknownSql>>>>, miss))

SqlConditional(condition, yes, no, ty) ==
  IF ~ TotalTruth(condition) THEN NotCompiled
  ELSE ChooseSql(EqualsNumber(condition.value, 1), yes, no, ty, yes.always /\ no.always)

-----------------------------------------------------------------------------
(***************************************************************************)
(* Bound data, and expressions as a whole.                                 *)
(***************************************************************************)

\* The type a value has between the driver and the server.
TransportType(ty) == IF PostgresType(ty) = "numeric" THEN "text" ELSE PostgresType(ty)

\* encode_datum.
SqlEncode(ty, datum) ==
  SqlValue(TransportType(ty), CASE Absent(datum) -> SqlNull
                                [] ~ Absent(datum) /\ ty.base = "truth" -> TruthTag(datum)
                                [] OTHER -> datum)

StateTag(datum) ==
  CASE datum = Missing -> StateMissing [] datum = Null -> StateNull [] OTHER -> StateValue

\* compile_bound_datum.
SqlBound(ty, datum) ==
  IF ~ Conforms(ty, datum) THEN NotCompiled
  ELSE SqlDatum(Placeholder(SqlInteger(StateTag(datum)), "integer"),
                Placeholder(SqlEncode(ty, datum), PostgresType(ty)), ty, ~ Absent(datum))

\* A field of the row, if its model is still in scope.
SqlField(node, scopes) ==
  IF node.lifted \/ node.scope \notin DOMAIN scopes THEN NotCompiled
  ELSE IF scopes[node.scope] # node.model THEN NotCompiled
  ELSE SqlDatum(Column("state", node.name), Column("value", node.name), node.ty,
                Always(node.ty, Presence(node.model, node.name)))

SqlNode(node, inputs, scopes, bound) ==
  IF \E i \in DOMAIN inputs : ~ inputs[i].ok THEN NotCompiled
  ELSE CASE node.kind = "field" -> SqlField(node, scopes)
         [] node.kind = "literal" -> SqlBound(node.ty, node.value)
         [] node.kind = "parameter" -> IF bound.ty = node.ty THEN SqlBound(node.ty, bound.datum) ELSE NotCompiled
         [] node.kind = "exists" -> NotCompiled
         [] node.kind = "unary" -> SqlUnary(node.op, inputs[1], node.ty)
         [] node.kind = "binary" -> SqlBinary(node.op, inputs[1], inputs[2], node.ty)
         [] node.kind = "membership" -> SqlMembership(inputs[1], Tail(inputs), node.negate)
         [] node.kind = "conditional" -> SqlConditional(inputs[1], inputs[2], inputs[3], node.ty)

RECURSIVE SqlNodes(_, _, _)
SqlNodes(node, scopes, bound) ==
  SqlNode(node, [i \in DOMAIN Children(node) |-> SqlNodes(Children(node)[i], scopes, bound)], scopes, bound)

\* compile_expr.
SqlExpr(expression, scopes, bound) ==
  IF expression.outer # 0 THEN NotCompiled ELSE SqlNodes(expression.node, scopes, bound)

-----------------------------------------------------------------------------
(***************************************************************************)
(* Which nodes are supported, decided without parameters: None, or whether *)
(* an expression is known to have a value.                                 *)
(***************************************************************************)
UnaryAlways(op, input) ==
  CASE op \in {"isNull", "isMissing", "isPresent"} -> TRUE
    [] op = "lift" -> input
    [] op = "not" -> IF input THEN TRUE ELSE None
    [] op \in {"cast", "negate", "abs"} -> None

BinaryAlways(op, left, right) ==
  CASE op \in EqualityOps \cup OrderOps -> TRUE
    [] op \in {"and", "or"} -> IF left /\ right THEN TRUE ELSE None
    [] op = "coalesce" -> left \/ right
    [] op \in ArithmeticOps -> None

AlwaysValue(node, inputs) ==
  CASE node.kind = "field" -> IF node.lifted THEN None ELSE FALSE
    [] node.kind = "literal" -> ~ Absent(node.value)
    [] node.kind = "parameter" -> FALSE
    [] node.kind = "exists" -> None
    [] node.kind = "membership" -> TRUE
    [] node.kind = "conditional" -> IF inputs[1] THEN inputs[2] /\ inputs[3] ELSE None
    [] node.kind = "unary" -> UnaryAlways(node.op, inputs[1])
    [] node.kind = "binary" -> BinaryAlways(node.op, inputs[1], inputs[2])

NodeSupport(node, inputs, bases) ==
  IF node.ty.base \notin bases \/ (\E i \in DOMAIN inputs : inputs[i] = None) THEN None
  ELSE AlwaysValue(node, inputs)

RECURSIVE TreeSupport(_, _)
TreeSupport(node, bases) ==
  NodeSupport(node, [i \in DOMAIN Children(node) |-> TreeSupport(Children(node)[i], bases)], bases)

\* expression_support, for the bases of the types an engine represents.
ExpressionSupport(expression, bases) ==
  IF expression.outer # 0 THEN None ELSE TreeSupport(expression.node, bases)

\* Mutation: a condition that may be absent is left to the server.
StageSupported_AnyFilter(node, bases) ==
  CASE node.kind = "filter" -> ExpressionSupport(node.condition, bases) # None
    [] node.kind = "project" ->
         \A i \in DOMAIN node.projection.expressions :
           ExpressionSupport(node.projection.expressions[i], bases) # None
    [] node.kind = "slice" -> node.offset <= MaxSlice /\ (node.limit = None \/ node.limit <= MaxSlice)
    [] OTHER -> FALSE

\* The part of supports_node on which the engines agree.
StageSupported(node, bases) ==
  CASE node.kind = "filter" ->
         node.condition.ty.base = "truth" /\ ExpressionSupport(node.condition, bases) = TRUE
    [] node.kind = "project" ->
         \A i \in DOMAIN node.projection.expressions :
           ExpressionSupport(node.projection.expressions[i], bases) # None
    [] node.kind = "slice" -> node.offset <= MaxSlice /\ (node.limit = None \/ node.limit <= MaxSlice)
    [] OTHER -> FALSE

\* supports_node.
PostgresSupports(node, catalog) ==
  IF node.kind # "source" THEN StageSupported(node, PostgresBases)
  ELSE /\ TableMapped(node.model, catalog)
       /\ \A f \in DOMAIN Models[node.model].fields : Models[node.model].fields[f].base \in PostgresBases

-----------------------------------------------------------------------------
(***************************************************************************)
(* Statements: a source and the stages above it, the models in scope, the  *)
(* columns and the output.                                                 *)
(***************************************************************************)

\* source_state_sql.
SourceStateSql(ty, presence, column) ==
  LET value == Column("column", column.value)
      missing == <<CompareSql("eq", Column("column", column.presence), Constant(SqlBoolean(FALSE))),
                   Number(StateMissing)>>
      null == <<IsNullSql(value), Number(StateNull)>>
  IN  CASE presence = "required" /\ ~ ty.nullable -> Number(StateValue)
        [] presence = "required" /\ ty.nullable -> CaseSql(<<null>>, Number(StateValue))
        [] presence = "optional" /\ ~ ty.nullable -> CaseSql(<<missing>>, Number(StateValue))
        [] presence = "optional" /\ ty.nullable -> CaseSql(<<missing, null>>, Number(StateValue))

Selected(columns) == [kind |-> "select", columns |-> columns]

Relation(model, stages, scopes, types, output) ==
  [ok |-> TRUE, model |-> model, stages |-> stages, scopes |-> scopes, types |-> types, output |-> output]

SqlSource(model, catalog) ==
  LET fields == Models[model].fields
      Mapped(f) == catalog[model].mapping[f]
  IN  IF ~ TableMapped(model, catalog) \/ (\E f \in DOMAIN fields : fields[f].base \notin PostgresBases)
      THEN NotCompiled
      ELSE Relation(model,
             <<Selected([f \in DOMAIN fields |->
                           [state |-> SourceStateSql(fields[f], Presence(model, f), Mapped(f)),
                            value |-> Column("column", Mapped(f).value)]])>>,
             <<model>>, fields, ModelOutput(model))

SqlFilter(relation, condition, truth) ==
  IF ~ truth.ok THEN NotCompiled
  ELSE IF condition.ty.base # "truth" \/ ~ truth.always THEN NotCompiled
  ELSE [relation EXCEPT !.stages =
          Append(@, [kind |-> "where",
                     condition |-> AndSql(StateIs(truth, StateValue), EqualsNumber(truth.value, 1))])]

SqlProject(relation, projection, data) ==
  IF \E i \in DOMAIN data : ~ data[i].ok THEN NotCompiled
  ELSE Relation(relation.model,
         Append(relation.stages,
                Selected([i \in DOMAIN data |-> [state |-> data[i].state, value |-> data[i].value]])),
         <<>>, [i \in DOMAIN data |-> projection.expressions[i].ty], ValueOutput(projection.ty))

SqlSlice(relation, offset, limit) ==
  IF offset > MaxSlice \/ (limit # None /\ limit > MaxSlice) THEN NotCompiled
  ELSE [relation EXCEPT !.stages = Append(@, [kind |-> "slice", offset |-> offset, limit |-> limit])]

SqlStage(node, input, bound) ==
  CASE node.kind = "filter" -> SqlFilter(input, node.condition, SqlExpr(node.condition, input.scopes, bound))
    [] node.kind = "project" ->
         SqlProject(input, node.projection,
                    [i \in DOMAIN node.projection.expressions |->
                       SqlExpr(node.projection.expressions[i], input.scopes, bound)])
    [] node.kind = "slice" -> SqlSlice(input, node.offset, node.limit)
    [] OTHER -> NotCompiled

SqlNext(relations, node, catalog, bound) ==
  CASE node.kind = "source" -> SqlSource(node.model, catalog)
    [] node.kind \in {"filter", "project", "slice"} /\ relations[node.input].ok ->
         SqlStage(node, relations[node.input], bound)
    [] OTHER -> NotCompiled

SqlRelations(plan, catalog, bound) ==
  FoldLeft(LAMBDA relations, node : Append(relations, SqlNext(relations, node, catalog, bound)), <<>>, plan.nodes)

\* What the engines compile of a plan: nothing if any of its nodes fails.
CompiledRoot(plan, relations) ==
  IF \E i \in DOMAIN relations : ~ relations[i].ok THEN NotCompiled
  ELSE IF relations[plan.root].output # plan.output THEN NotCompiled ELSE relations[plan.root]

\* compile.
SqlCompile(plan, catalog, bound) == CompiledRoot(plan, SqlRelations(plan, catalog, bound))

-----------------------------------------------------------------------------
(***************************************************************************)
(* Execution (external) and decoding.                                      *)
(***************************************************************************)
SelectRow(columns, row) ==
  [state |-> [k \in DOMAIN columns |-> EvalSql(columns[k].state, row)],
   value |-> [k \in DOMAIN columns |-> EvalSql(columns[k].value, row)]]

SqlRows(rows, stage) ==
  CASE stage.kind = "select" -> [i \in DOMAIN rows |-> SelectRow(stage.columns, rows[i])]
    [] stage.kind = "where" -> SelectSeq(rows, LAMBDA row : EvalSql(stage.condition, row).v = TRUE)
    [] stage.kind = "slice" -> ExecuteSlice(rows, stage.offset, stage.limit)

RunSql(relation, rows) == FoldLeft(SqlRows, [i \in DOMAIN rows |-> [column |-> rows[i]]], relation.stages)

\* transport_value_sql.
Transported(ty, value) == SqlValue(TransportType(ty), value.v)

\* decode_value: text is parsed as what the type says, and truth values are tags.
SqlDecode(ty, value) ==
  CASE value.v = SqlNull -> InvalidDatum
    [] value.v # SqlNull /\ ty.base = "truth" -> IF value.v \in 0 .. 2 THEN TagTruth(value.v) ELSE InvalidDatum
    [] value.v # SqlNull /\ ty.base = "uint" -> IF value.v >= 0 THEN value.v ELSE InvalidDatum
    [] OTHER -> value.v

\* decode_datum.
SqlDatumOf(ty, state, value) ==
  CASE state.v = StateMissing -> Missing
    [] state.v = StateNull -> Null
    [] state.v = StateValue -> SqlDecode(ty, value)
    [] OTHER -> InvalidDatum

\* Mutation: a row is trusted to be as mapped.
ValidRow_Trusted(model, data) == \A f \in DOMAIN data : data[f] # InvalidDatum

\* DynRow::from_dense: a row of a model is validated.
ValidRow(model, data) ==
  \A f \in DOMAIN data :
    /\ data[f] # InvalidDatum
    /\ data[f] = Missing => Presence(model, f) = "optional"
    /\ Conforms(Models[model].fields[f], data[f])

\* decode_output, assemble_value_output: the row of an output, or a failure.
DecodeOutput(output, data) ==
  IF output.shape = "model"
  THEN IF ValidRow(output.model, data) THEN ModelRow(output.model, data) ELSE InvalidDatum
  ELSE LET datum == Required(output.ty, IF output.ty.base = "tuple" THEN TupleDatum(data) ELSE data[1])
       IN  IF datum \in Failures THEN InvalidDatum ELSE ValueRow(output.ty, datum)

SqlRowOf(relation, row) ==
  DecodeOutput(relation.output,
    [k \in DOMAIN relation.types |->
       SqlDatumOf(relation.types[k], row.state[k], Transported(relation.types[k], row.value[k]))])

\* The rows a stream delivers, or its failure: the first row that cannot be decoded.
Delivered(rows) ==
  IF \E i \in DOMAIN rows : rows[i] = InvalidDatum THEN Failed(InvalidDatum) ELSE Done(rows)

PostgresRows(relation, rows) ==
  LET answer == RunSql(relation, rows)
  IN  Delivered([i \in DOMAIN answer |-> SqlRowOf(relation, answer[i])])

-----------------------------------------------------------------------------
(***************************************************************************)
(* validate_live_contract.  A schema has, for each column, its type and    *)
(* whether it is NOT NULL.                                                 *)
(***************************************************************************)
\* validate_value_column.
ValidValueColumn(ty, presence, column) ==
  column.type = PostgresType(ty) /\ (~ ty.nullable => column.notNull)

\* validate_table.
ValidTable(model, mapping, schema) ==
  \A f \in DOMAIN Models[model].fields :
    /\ mapping[f].value \in DOMAIN schema
    /\ ValidValueColumn(Models[model].fields[f], Presence(model, f), schema[mapping[f].value])
    /\ mapping[f].presence # None =>
         /\ mapping[f].presence \in DOMAIN schema
         /\ schema[mapping[f].presence] = [type |-> "boolean", notNull |-> TRUE]

LiveContract(plan, catalog, schemas) ==
  \A i \in DOMAIN plan.nodes :
    plan.nodes[i].kind = "source" =>
      LET model == plan.nodes[i].model
      IN  TableMapped(model, catalog) /\ ValidTable(model, catalog[model].mapping, schemas[model])
=============================================================================
