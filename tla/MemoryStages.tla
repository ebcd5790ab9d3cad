---------------------------- MODULE MemoryStages ----------------------------
(***************************************************************************)
(* How the memory engine executes the nodes of a plan                      *)
(* (engines/memory/src/executor): every node turns the materialized rows   *)
(* of its inputs into rows of its own, or fails.  A row carries its output *)
(* and the records its expressions may read.                               *)
(*                                                                         *)
(* An environment has the plan, the tables, the value of the parameter,    *)
(* the limits and how deep subqueries are nested.                          *)
(***************************************************************************)
EXTENDS Pipelines

CONSTANTS
  MissingDatum,          \* a missing datum where one is required
  RowLimit, ByteLimit,   \* more rows, or bytes, than may be materialized
  TooDeep,               \* subqueries nested too deeply
  MaxExistentialDepth

ASSUME FailuresAssumption == {MissingDatum, RowLimit, ByteLimit, TooDeep} \subseteq ExecutionFailures

-----------------------------------------------------------------------------
(***************************************************************************)
(* Rows, their size, and the limits of a stage.                            *)
(***************************************************************************)
ModelRow(model, data) == [shape |-> "model", model |-> model, data |-> data]
ValueRow(ty, datum) == [shape |-> "value", ty |-> ty, datum |-> datum]
ProductRow(left, right) == [shape |-> "product", parts |-> <<left, right>>]
Matched(output) == [shape |-> "nullable", of |-> <<output>>]
Unmatched == [shape |-> "nullable", of |-> <<>>]

PresentRecord(model, data) == [model |-> model, data |-> data, extended |-> FALSE]

NullRecord(model) ==
  [model |-> model, data |-> [f \in DOMAIN Models[model].fields |-> Null], extended |-> TRUE]

RECURSIVE DatumBytes(_, _)
DatumBytes(ty, datum) ==
  CASE Absent(datum) -> 1
    [] ~ Absent(datum) /\ ty.base \in {"int", "uint"} -> 17
    [] ~ Absent(datum) /\ ty.base = "truth" -> 2
    [] ~ Absent(datum) /\ ty.base = "list" ->
         FoldLeft(LAMBDA sum, item : sum + DatumBytes(ty.element, item), 9, datum)
    [] ~ Absent(datum) /\ ty.base = "tuple" ->
         FoldLeft(LAMBDA sum, i : sum + DatumBytes(ty.elements[i], datum[i]), 9,
                  [i \in DOMAIN datum |-> i])

\* logical_bytes.
RECURSIVE Bytes(_)
Bytes(output) ==
  CASE output.shape = "model" ->
         FoldLeft(LAMBDA sum, f : sum + DatumBytes(Models[output.model].fields[f], output.data[f]), 32,
                  SetToSeq(DOMAIN output.data))
    [] output.shape = "value" -> DatumBytes(output.ty, output.datum)
    [] output.shape = "product" -> 8 + Bytes(output.parts[1]) + Bytes(output.parts[2])
    [] output.shape = "nullable" -> IF output.of = <<>> THEN 1 ELSE 1 + Bytes(output.of[1])

TotalBytes(rows) == FoldLeft(LAMBDA sum, row : sum + Bytes(row.output), 0, rows)

Exceeds(limit, n) == limit # None /\ n > limit

Done(rows) == [ok |-> TRUE, rows |-> rows, failure |-> None]
Failed(failure) == [ok |-> FALSE, rows |-> <<>>, failure |-> failure]

\* enforce_row_limit, enforce_working_byte_limit.
Bounded(limits, rows) ==
  CASE Exceeds(limits.maxRows, Len(rows)) -> Failed(RowLimit)
    [] ~ Exceeds(limits.maxRows, Len(rows)) /\ Exceeds(limits.maxBytes, TotalBytes(rows)) -> Failed(ByteLimit)
    [] OTHER -> Done(rows)

\* push_stage_row.
Push(limits, stage, row) == IF stage.ok THEN Bounded(limits, Append(stage.rows, row)) ELSE stage

PushAll(limits, stage, emitted) ==
  IF emitted.ok THEN FoldLeft(LAMBDA s, row : Push(limits, s, row), stage, emitted.rows) ELSE emitted

\* A loop over items that pushes rows: each item emits some, given those pushed before
\* it, or fails.
Loop(limits, items, Emit(_, _)) ==
  FoldLeft(LAMBDA stage, item :
             IF ~ stage.ok THEN stage
             ELSE PushAll(limits, stage, Emit(stage.rows, item)),
           Done(<<>>), items)

Nothing == Done(<<>>)
One(row) == Done(<<row>>)

\* validate_datum with a required presence.
Required(ty, datum) ==
  CASE datum \in Failures -> datum
    [] datum = Missing -> MissingDatum
    [] OTHER -> IF Conforms(ty, datum) THEN datum ELSE IF datum = Null THEN NullDatum ELSE InvalidDatum

\* A tuple, or the first of its components that failed; the components are required.
TupleDatum(data) ==
  LET failed == {i \in DOMAIN data : data[i] \in Failures}
  IN  CASE failed # {} -> FirstFailure(data)
        [] failed = {} /\ (\E i \in DOMAIN data : data[i] = Missing) -> MissingDatum
        [] OTHER -> data

-----------------------------------------------------------------------------
(***************************************************************************)
(* Expressions and projections on a row.                                   *)
(***************************************************************************)
\* An expression is evaluated by executing its subqueries, stage by stage.
RECURSIVE EvaluateExpr(_, _, _, _)
RECURSIVE ExecuteStage(_, _, _, _)
RECURSIVE ExecuteSubplan(_, _, _)

Existence(result) == IF result.ok THEN TruthOf(result.rows # <<>>) ELSE result.failure

\* evaluate_exists.
EvaluateExists(env, subquery, outer) ==
  IF env.depth >= MaxExistentialDepth THEN TooDeep
  ELSE Existence(ExecuteSubplan([env EXCEPT !.depth = @ + 1], subquery, outer))

\* evaluate_expr: the records of enclosing pipelines that the expression was bound to,
\* then those of the row; subqueries see both.
EvaluateExpr(env, expression, row, outer) ==
  LET visible == SubSeq(outer, 1, expression.outer) \o row.scopes
  IN  EvaluateDatum(expression.node, expression.models,
        [records |-> visible, bound |-> env.bound,
         exists |-> [tree \in DOMAIN expression.subqueries |->
                       EvaluateExists(env, expression.subqueries[tree], visible)]])

\* One datum, or a tuple of data.
Formed(form, ty, data) == IF form = "value" THEN Required(ty, data[1]) ELSE TupleDatum(data)

EvaluateProjection(env, projection, row, outer) ==
  Formed(projection.form, projection.ty,
         [i \in DOMAIN projection.expressions |-> EvaluateExpr(env, projection.expressions[i], row, outer)])

-----------------------------------------------------------------------------
(***************************************************************************)
(* Sources, filters, projections, unnesting, slices, distinct rows, sets.  *)
(***************************************************************************)
ExecuteSource(env, model) ==
  Bounded(env.limits,
    [i \in DOMAIN env.tables[model] |->
       [output |-> ModelRow(model, env.tables[model][i]),
        scopes |-> <<PresentRecord(model, env.tables[model][i])>>]])

\* A row, if the condition is true for it.
Kept(row, truth) ==
  CASE truth \in Failures -> Failed(truth) [] truth = True -> One(row) [] OTHER -> Nothing

ExecuteFilter(env, condition, input, outer) ==
  Loop(env.limits, input, LAMBDA rows, row : Kept(row, EvaluateExpr(env, condition, row, outer)))

\* A row of a projection has no records any more.
Projected(ty, datum) ==
  IF datum \in Failures THEN Failed(datum) ELSE One([output |-> ValueRow(ty, datum), scopes |-> <<>>])

ExecuteProject(env, projection, input, outer) ==
  Loop(env.limits, input,
       LAMBDA rows, row : Projected(projection.ty, EvaluateProjection(env, projection, row, outer)))

ExecuteUnnest(env, element, input) ==
  LET Elements(list) == [i \in DOMAIN list |-> [output |-> ValueRow(element, list[i]), scopes |-> <<>>]]
  IN  Loop(env.limits, input,
           LAMBDA rows, row : IF Absent(row.output.datum) THEN Nothing ELSE Done(Elements(row.output.datum)))

ExecuteSlice(input, offset, limit) ==
  SubSeq(input, offset + 1, IF limit = None \/ offset + limit > Len(input) THEN Len(input) ELSE offset + limit)

Occurs(row, rows) == \E i \in DOMAIN rows : rows[i].output = row.output

\* execute_distinct, push_unique.
PushUnique(rows, row) == IF Occurs(row, rows) THEN Nothing ELSE One(row)

ExecuteSet(env, operator, left, right) ==
  CASE operator = "unionAll" -> Loop(env.limits, left \o right, LAMBDA rows, row : One(row))
    [] operator = "union" -> Loop(env.limits, left \o right, PushUnique)
    [] operator = "intersect" ->
         Loop(env.limits, left, LAMBDA rows, row : IF Occurs(row, right) THEN PushUnique(rows, row) ELSE Nothing)
    [] operator = "except" ->
         Loop(env.limits, left, LAMBDA rows, row : IF Occurs(row, right) THEN Nothing ELSE PushUnique(rows, row))

-----------------------------------------------------------------------------
(***************************************************************************)
(* Sorting.                                                                *)
(***************************************************************************)

\* compare_datums: missing before null before values.
Rank(datum) == CASE datum = Missing -> 0 [] datum = Null -> 1 [] OTHER -> 2

Less(left, right) ==
  \/ Rank(left) < Rank(right)
  \/ ~ Absent(left) /\ ~ Absent(right) /\ left < right

\* compare_keys, compare_ordered_rows: the first key that differs decides.
KeysLess(left, right, keys) ==
  \E i \in DOMAIN keys :
    /\ IF keys[i].descending THEN Less(right[i], left[i]) ELSE Less(left[i], right[i])
    /\ \A j \in 1 .. i - 1 : left[j] = right[j]

\* The sort keys of some rows.
KeyData(env, keys, rows, outer) ==
  [r \in DOMAIN rows |-> [i \in DOMAIN keys |-> EvaluateExpr(env, keys[i].expression, rows[r], outer)]]

\* The failure met first, row by row.
KeyFailure(data) ==
  LET failed == {r \in DOMAIN data : \E i \in DOMAIN data[r] : data[r][i] \in Failures}
  IN  IF failed = {} THEN None ELSE FirstFailure(data[CHOOSE r \in failed : \A s \in failed : r <= s])

\* Positions in the order of their keys, ties as they came.
Positions(data, keys) ==
  SortSeq([r \in DOMAIN data |-> r],
          LAMBDA r, s : \/ KeysLess(data[r], data[s], keys)
                        \/ ~ KeysLess(data[s], data[r], keys) /\ r < s)

Sorted(keys, input, data) ==
  LET order == Positions(data, keys)
  IN  IF KeyFailure(data) # None THEN Failed(KeyFailure(data))
      ELSE Done([i \in DOMAIN input |-> input[order[i]]])

ExecuteSort(env, keys, input, outer) == Sorted(keys, input, KeyData(env, keys, input, outer))

-----------------------------------------------------------------------------
(***************************************************************************)
(* Joins: nested loops over the pairs, row by row of the left side, each   *)
(* followed by the row itself if it met no other, and at the end the rows  *)
(* of the right side that met none.                                        *)
(***************************************************************************)
\* Mutation: a matched row is not told from a plain one.
WrapPresent_Bare(output, nullable) == output

WrapPresent(output, nullable) == IF nullable THEN Matched(output) ELSE output

LeftNullable(join) == join \in {"right", "full"}
RightNullable(join) == join \in {"left", "full"}

CombinedRow(left, right, join) ==
  [output |-> ProductRow(WrapPresent(left.output, LeftNullable(join)), WrapPresent(right.output, RightNullable(join))),
   scopes |-> left.scopes \o right.scopes]

NullRecords(models) == [i \in DOMAIN models |-> NullRecord(models[i])]

UnmatchedLeft(left, rightShape, join) ==
  [output |-> ProductRow(WrapPresent(left.output, LeftNullable(join)), Unmatched),
   scopes |-> left.scopes \o NullRecords(rightShape)]

UnmatchedRight(right, leftShape, join) ==
  [output |-> ProductRow(Unmatched, WrapPresent(right.output, RightNullable(join))),
   scopes |-> NullRecords(leftShape) \o right.scopes]

\* pair_matches.
PairMatches(env, node, left, right, outer) ==
  IF node.join = "cross" THEN True
  ELSE EvaluateExpr(env, node.condition, CombinedRow(left, right, "inner"), outer)

\* scope_shapes: the models of the records the rows of a node have.
RECURSIVE ScopeShape(_, _)
ScopeShape(nodes, id) ==
  LET node == nodes[id]
  IN  CASE node.kind = "source" -> <<node.model>>
        [] node.kind \in {"filter", "window", "sort", "distinct", "slice"} -> ScopeShape(nodes, node.input)
        [] node.kind \in {"project", "aggregate", "unnest"} -> <<>>
        [] node.kind = "join" -> ScopeShape(nodes, node.left) \o ScopeShape(nodes, node.right)
        [] node.kind = "set" -> ScopeShape(nodes, node.left)

\* Mutation: a pair whose condition is unknown counts as a match of the left row.
UnmatchedRow_UnknownMatches(node, left, right, match, shapes, i, j) ==
  CASE i <= Len(left) /\ j = Len(right) + 1 ->
         IF node.join \in {"left", "full"} /\ \A k \in DOMAIN right : match[i, k] = False
         THEN One(UnmatchedLeft(left[i], shapes[2], node.join)) ELSE Nothing
    [] i = Len(left) + 1 /\ j <= Len(right) ->
         IF node.join \in {"right", "full"} /\ \A k \in DOMAIN left : match[k, j] # True
         THEN One(UnmatchedRight(right[j], shapes[1], node.join)) ELSE Nothing
    [] OTHER -> Nothing

UnmatchedRow(node, left, right, match, shapes, i, j) ==
  CASE i <= Len(left) /\ j = Len(right) + 1 ->
         IF node.join \in {"left", "full"} /\ \A k \in DOMAIN right : match[i, k] # True
         THEN One(UnmatchedLeft(left[i], shapes[2], node.join)) ELSE Nothing
    [] i = Len(left) + 1 /\ j <= Len(right) ->
         IF node.join \in {"right", "full"} /\ \A k \in DOMAIN left : match[k, j] # True
         THEN One(UnmatchedRight(right[j], shapes[1], node.join)) ELSE Nothing
    [] OTHER -> Nothing

\* What the pair of row i of the left side and row j of the right side gives, where
\* a row after the last stands for none.
JoinStep(node, left, right, match, shapes, i, j) ==
  IF i > Len(left) \/ j > Len(right) THEN UnmatchedRow(node, left, right, match, shapes, i, j)
  ELSE CASE match[i, j] \in Failures -> Failed(match[i, j])
         [] match[i, j] = True -> One(CombinedRow(left[i], right[j], node.join))
         [] OTHER -> Nothing

JoinRows(limits, node, left, right, match, shapes) ==
  LET width == Len(right) + 1
      steps == [k \in 1 .. (Len(left) + 1) * width |-> <<((k - 1) \div width) + 1, ((k - 1) % width) + 1>>]
  IN  Loop(limits, steps, LAMBDA rows, step : JoinStep(node, left, right, match, shapes, step[1], step[2]))

\* execute_join; a cross join checks the size of the product first.
ExecuteJoin(env, node, left, right, outer) ==
  IF node.join = "cross" /\ Exceeds(env.limits.maxRows, Len(left) * Len(right)) THEN Failed(RowLimit)
  ELSE JoinRows(env.limits, node, left, right,
                [i \in DOMAIN left, j \in DOMAIN right |-> PairMatches(env, node, left[i], right[j], outer)],
                <<ScopeShape(env.plan.nodes, node.left), ScopeShape(env.plan.nodes, node.right)>>)

-----------------------------------------------------------------------------
(***************************************************************************)
(* Aggregates and windows.                                                 *)
(***************************************************************************)
InputData(env, input, rows, outer) ==
  [r \in DOMAIN rows |-> EvaluateExpr(env, input, rows[r], outer)]

Concrete(data) == SelectSeq(data, LAMBDA datum : ~ Absent(datum))

SumOf(data) == FoldLeft(LAMBDA sum, v : sum + v, 0, data)

\* evaluate_sum_for_rows: the exact sum is taken without a bound, then has to fit.
SumData(ty, data) ==
  LET total == SumOf(Concrete(data))
  IN  CASE Concrete(data) = <<>> -> Null
        [] Concrete(data) # <<>> /\ ~ Fits(ty.base, WideBits, total) -> ArithmeticError
        [] OTHER -> IF Conforms(ty, total) THEN total ELSE InvalidDatum

\* evaluate_extreme.
ExtremeData(data, maximum) ==
  FoldLeft(LAMBDA selected, v :
             CASE selected = Null -> v
               [] selected # Null -> IF (IF maximum THEN v > selected ELSE v < selected) THEN v ELSE selected,
           Null, Concrete(data))

AggregateDatum(aggregate, data) ==
  IF \E r \in DOMAIN data : data[r] \in Failures THEN FirstFailure(data)
  ELSE Required(aggregate.ty,
         CASE aggregate.fn = "countPresent" -> Len(Concrete(data))
           [] aggregate.fn = "sum" -> SumData(aggregate.input.ty, data)
           [] aggregate.fn = "min" -> ExtremeData(data, FALSE)
           [] aggregate.fn = "max" -> ExtremeData(data, TRUE))

\* evaluate_one.
EvaluateAggregate(env, aggregate, rows, outer) ==
  IF aggregate.fn = "countRows" THEN Required(CountType, Len(rows))
  ELSE AggregateDatum(aggregate, InputData(env, aggregate.input, rows, outer))

EvaluateSelection(env, selection, rows, outer) ==
  Formed(selection.form, selection.ty,
         [i \in DOMAIN selection.aggregates |-> EvaluateAggregate(env, selection.aggregates[i], rows, outer)])

\* build_groups, build_partitions: positions by key, in the order of first occurrence;
\* without a key there is one group, of all rows.
KeyedPositions(data) ==
  LET keys == FoldLeft(LAMBDA seen, key : IF Contains(seen, key) THEN seen ELSE Append(seen, key), <<>>, data)
  IN  [g \in DOMAIN keys |-> SelectSeq([r \in DOMAIN data |-> r], LAMBDA r : data[r] = keys[g])]

GroupPositions(projection, data, rows) ==
  IF projection = None THEN <<[r \in DOMAIN rows |-> r]>> ELSE KeyedPositions(data)

ProjectionData(env, projection, rows, outer) ==
  IF projection = None THEN <<>>
  ELSE [r \in DOMAIN rows |-> EvaluateProjection(env, projection, rows[r], outer)]

Keyed(node, key, value) == IF node.groups = None \/ value \in Failures THEN value ELSE <<key, value>>

\* One row for every group, given the keys of the rows.
GroupRows(env, node, input, data, outer) ==
  LET Members(positions) == [k \in DOMAIN positions |-> input[positions[k]]]
      Reduced(rows, positions) ==
        Projected(node.ty,
          Keyed(node, data[positions[1]], EvaluateSelection(env, node.selection, Members(positions), outer)))
  IN  IF \E r \in DOMAIN data : data[r] \in Failures THEN Failed(FirstFailure(data))
      ELSE Loop(env.limits, GroupPositions(node.groups, data, input), Reduced)

ExecuteAggregate(env, node, input, outer) ==
  GroupRows(env, node, input, ProjectionData(env, node.groups, input, outer), outer)

\* frame_start and frame_end_exclusive: positions from 0 in a partition of n rows.
Smaller(a, b) == IF a < b THEN a ELSE b
Larger(a, b) == IF a > b THEN a ELSE b

\* frame_range: the data in the frame of the row at a position.
FrameRange(frame, position, data) ==
  LET start == Larger(0, Smaller(position + frame.start, Len(data)))
      end == Larger(0, Smaller(position + frame.end + 1, Len(data)))
  IN  SubSeq(data, Smaller(start, end) + 1, end)

\* assign_rank: peers, which have equal keys, share the rank of the first of them.
PeerRanks(keys, dense) ==
  LET rank[p \in DOMAIN keys] ==
        CASE p = 1 -> 1
          [] p > 1 -> IF keys[p] = keys[p - 1] THEN rank[p - 1]
                      ELSE IF dense THEN rank[p - 1] + 1 ELSE p
  IN  rank

WindowSum(ty, framed) ==
  IF \E k \in DOMAIN framed : framed[k] \in Failures THEN FirstFailure(framed) ELSE SumData(ty, framed)

\* The values of a window in a partition, given its data and keys in the order of the
\* window.
WindowValues(window, data, keys) ==
  CASE window.fn = "rowNumber" -> [p \in DOMAIN keys |-> p]
    [] window.fn = "rank" -> PeerRanks(keys, FALSE)
    [] window.fn = "denseRank" -> PeerRanks(keys, TRUE)
    [] window.fn = "sum" ->
         [p \in DOMAIN data |-> WindowSum(window.input.ty, FrameRange(window.frame, p - 1, data))]

InOrder(order, positions, keys) ==
  LET sorted == Positions([k \in DOMAIN positions |-> keys[positions[k]]], order)
  IN  [k \in DOMAIN positions |-> positions[sorted[k]]]

\* The value of each row of a partition, whose rows are at `positions`, in order.
PartitionValues(window, positions, data, keys) ==
  LET values == WindowValues(window, [k \in DOMAIN positions |-> data[positions[k]]],
                             [k \in DOMAIN positions |-> keys[positions[k]]])
  IN  [r \in Range(positions) |-> Required(window.ty, values[CHOOSE k \in DOMAIN positions : positions[k] = r])]

WindowRows(limits, window, input, values) ==
  IF \E r \in DOMAIN values : values[r] \in Failures THEN Failed(FirstFailure(values))
  ELSE Loop(limits, [r \in DOMAIN input |-> r],
            LAMBDA rows, r : One([output |-> ProductRow(input[r].output, ValueRow(window.ty, values[r])),
                                  scopes |-> input[r].scopes]))

\* Every row, given what the rows are partitioned by, ordered by and summed over.
Windowed(limits, window, input, groups, keys, data) ==
  CASE \E r \in DOMAIN groups : groups[r] \in Failures -> Failed(FirstFailure(groups))
    [] (\A r \in DOMAIN groups : groups[r] \notin Failures) /\ KeyFailure(keys) # None -> Failed(KeyFailure(keys))
    [] OTHER ->
         WindowRows(limits, window, input,
           FoldLeft(LAMBDA values, positions :
                      PartitionValues(window, InOrder(window.order, positions, keys), data, keys) @@ values,
                    <<>>, GroupPositions(window.partition, groups, input)))

\* execute_window: one value for every row, which stays where it is.
ExecuteWindow(env, window, input, outer) ==
  Windowed(env.limits, window, input, ProjectionData(env, window.partition, input, outer),
           KeyData(env, window.order, input, outer), InputData(env, window.input, input, outer))

-----------------------------------------------------------------------------
(***************************************************************************)
(* Stages and subplans.                                                    *)
(***************************************************************************)

Within(limits, stage) == IF stage.ok THEN Bounded(limits, stage.rows) ELSE stage

\* execute_stage, and the limits on what it has materialized.  `results` has the rows
\* of the nodes executed so far.
ExecuteStage(env, node, results, outer) ==
  Within(env.limits,
    CASE node.kind = "source" -> ExecuteSource(env, node.model)
      [] node.kind = "filter" -> ExecuteFilter(env, node.condition, results[node.input], outer)
      [] node.kind = "project" -> ExecuteProject(env, node.projection, results[node.input], outer)
      [] node.kind = "aggregate" -> ExecuteAggregate(env, node, results[node.input], outer)
      [] node.kind = "unnest" -> ExecuteUnnest(env, node.element, results[node.input])
      [] node.kind = "window" -> ExecuteWindow(env, node.window, results[node.input], outer)
      [] node.kind = "sort" -> ExecuteSort(env, node.keys, results[node.input], outer)
      [] node.kind = "distinct" -> Loop(env.limits, results[node.input], PushUnique)
      [] node.kind = "slice" -> Done(ExecuteSlice(results[node.input], node.offset, node.limit))
      [] node.kind = "join" -> ExecuteJoin(env, node, results[node.left], results[node.right], outer)
      [] node.kind = "set" -> ExecuteSet(env, node.operator, results[node.left], results[node.right]))

NodeInputs(node) ==
  CASE node.kind = "source" -> {}
    [] node.kind \in InputKinds -> {node.input}
    [] node.kind \in {"join", "set"} -> {node.left, node.right}

\* structural_closure: a node and what its rows come from, subqueries apart.
RECURSIVE StructuralClosure(_, _)
StructuralClosure(nodes, root) ==
  {root} \cup UNION {StructuralClosure(nodes, id) : id \in NodeInputs(nodes[root])}

WithStage(done, id, stage) ==
  IF stage.ok THEN [done EXCEPT !.results[id] = stage.rows]
  ELSE [done EXCEPT !.ok = FALSE, !.failure = stage.failure]

SubplanRows(root, final) == IF final.ok THEN Done(final.results[root]) ELSE Failed(final.failure)

ExecuteSubplan(env, root, outer) ==
  LET needed == StructuralClosure(env.plan.nodes, root)
      Execute(done, id) ==
        IF ~ done.ok \/ id \notin needed THEN done
        ELSE WithStage(done, id, ExecuteStage(env, env.plan.nodes[id], done.results, outer))
  IN  SubplanRows(root, FoldLeft(Execute, [ok |-> TRUE, failure |-> None, results |-> [id \in 1 .. root |-> <<>>]],
                                 [id \in 1 .. root |-> id]))
=============================================================================
