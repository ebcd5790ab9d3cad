--------------------------- MODULE MemoryExecutor ---------------------------
(***************************************************************************)
(* The life of one query on the memory engine: a pipeline is authored      *)
(* stage by stage (the methods of Pipeline), lowered, optimized or not,    *)
(* executed node by node (Session) on the tables as they are then, and its *)
(* rows are pulled in batches (MemoryStream).                              *)
(***************************************************************************)
EXTENDS MemoryStages

CONSTANTS
  Sources,          \* the pipelines that authoring starts from
  Others,           \* the pipelines it joins and combines with
  Conditions, JoinConditions, Projections, Reductions, Windows, SortExpressions, Slices,
  MaxStages,        \* how many stages are added
  Databases,        \* contents of the tables
  Options,          \* batchRows, maxPlanNodes, timeout and the limits of a stage
  BoundParameter,           \* the value of the parameter
  PlanLimit,        \* a plan, or options, that are refused
  TimedOut

ASSUME MoreFailuresAssumption == {PlanLimit, TimedOut} \cap Failures = {}

VARIABLES
  pipeline,   \* the authored pipeline
  stages,     \* how many stages were added
  phase,      \* where the query is
  plan,       \* its plan
  tables,     \* the tables it is executed on
  options,    \* and how
  results,    \* the rows of each executed node
  at,         \* the last executed node
  failure,    \* why it failed
  pending,    \* the rows its stream still has
  cancelled,
  seen,       \* the rows given to the consumer
  last        \* what the last call returned

streamVars == <<pending, cancelled, seen>>
vars == <<pipeline, stages, phase, plan, tables, options, results, at, failure, streamVars, last>>

NoPlan == [nodes |-> <<>>, root |-> 0, output |-> None]

Init ==
  /\ pipeline \in Sources /\ stages = 0
  /\ phase = "authoring" /\ plan = NoPlan
  /\ tables = None /\ options = None /\ results = <<>> /\ at = 0 /\ failure = None
  /\ pending = <<>> /\ cancelled = FALSE /\ seen = <<>> /\ last = "new"

-----------------------------------------------------------------------------
(***************************************************************************)
(* Authoring and preparation.                                              *)
(***************************************************************************)
Author(tree) ==
  /\ phase = "authoring" /\ stages < MaxStages
  /\ pipeline' = tree /\ stages' = stages + 1
  /\ UNCHANGED <<phase, plan, tables, options, results, at, failure, streamVars, last>>

Conjunction(left, right) ==
  [kind |-> "binary", op |-> "and", ty |-> TruthType, left |-> left, right |-> right]

\* A filter on a filter becomes a conjunction.
Filter(condition) ==
  Author(IF pipeline.kind = "filter"
         THEN [pipeline EXCEPT !.condition = Conjunction(@, condition)]
         ELSE [kind |-> "filter", input |-> pipeline, condition |-> condition])

Select(projection) == Author([kind |-> "project", input |-> pipeline, projection |-> projection])

\* aggregate, aggregate_by.
Reduce(groups, selection) ==
  Author([kind |-> "aggregate", input |-> pipeline, groups |-> groups, selection |-> selection])

Unnest == Author([kind |-> "unnest", input |-> pipeline])

AddWindow(window) == Author([kind |-> "window", input |-> pipeline, window |-> window])

OrderBy(expression, descending) ==
  Author([kind |-> "sort", input |-> pipeline, expression |-> expression, descending |-> descending])

MakeDistinct == Author([kind |-> "distinct", input |-> pipeline])

\* offset, limit, slice.
Slice(offset, limit) == Author([kind |-> "slice", input |-> pipeline, offset |-> offset, limit |-> limit])

Join(right, join, condition) ==
  Author([kind |-> "join", left |-> pipeline, right |-> right, join |-> join, condition |-> condition])

Combined(right, operator) ==
  Author([kind |-> "set", left |-> pipeline, right |-> right, operator |-> operator])

Compiled == CompilePipeline(pipeline, <<>>, <<>>)

PlanOf(compiled) == IF compiled.ok THEN Plan(compiled) ELSE NoPlan

\* prepared_plan.
Prepare ==
  /\ phase = "authoring" /\ stages > 0
  /\ plan' = PlanOf(Compiled)
  /\ phase' = IF plan' = NoPlan THEN "refused" ELSE "prepared"
  /\ UNCHANGED <<pipeline, stages, tables, options, results, at, failure, streamVars, last>>

OptimizePlan ==
  /\ phase = "prepared"
  /\ plan' = Optimize(plan)
  /\ UNCHANGED <<pipeline, stages, phase, tables, options, results, at, failure, streamVars, last>>

-----------------------------------------------------------------------------
(***************************************************************************)
(* Execution.                                                              *)
(***************************************************************************)
Fails(reason) ==
  /\ phase' = "failed" /\ failure' = reason /\ last' = "error"

\* execute, up to the session.
Start(database, chosen) ==
  /\ phase = "prepared"
  /\ tables' = database /\ options' = chosen
  /\ IF Len(plan.nodes) > chosen.maxPlanNodes \/ chosen.batchRows = 0
     THEN Fails(PlanLimit)
     ELSE phase' = "executing" /\ UNCHANGED <<failure, last>>
  /\ results' = [id \in DOMAIN plan.nodes |-> <<>>]
  /\ UNCHANGED <<pipeline, stages, plan, at, streamVars>>

Environment(ofPlan) ==
  [plan |-> ofPlan, tables |-> tables, bound |-> BoundParameter, depth |-> 0,
   limits |-> [maxRows |-> options.maxRows, maxBytes |-> options.maxBytes]]

Needed == StructuralClosure(plan.nodes, plan.root)

Finish(id, stage) ==
  IF stage.ok THEN results' = [results EXCEPT ![id] = stage.rows] /\ UNCHANGED <<phase, failure, last>>
  ELSE Fails(stage.failure) /\ UNCHANGED results

\* The next stage of execute_subplan.
ExecuteNode ==
  /\ phase = "executing" /\ at # plan.root
  /\ at' = CHOOSE id \in Needed : id > at /\ \A other \in Needed : other > at => id <= other
  /\ Finish(at', ExecuteStage(Environment(plan), plan.nodes[at'], results, <<>>))
  /\ UNCHANGED <<pipeline, stages, plan, tables, options, streamVars>>

\* check_timeout, which is called before, within and after stages.
TimeOut ==
  /\ phase = "executing" /\ options.timeout
  /\ Fails(TimedOut)
  /\ UNCHANGED <<pipeline, stages, plan, tables, options, results, at, streamVars>>

Outputs(rows) == [i \in DOMAIN rows |-> rows[i].output]

Open ==
  /\ phase = "executing" /\ at = plan.root
  /\ phase' = "open" /\ last' = "opened"
  /\ pending' = Outputs(results[plan.root])
  /\ UNCHANGED <<pipeline, stages, plan, tables, options, results, at, failure, cancelled, seen>>

\* Mutation: a last batch that is not full is lost.
NextBatch_Short ==
  /\ phase = "open"
  /\ LET count == Smaller(options.batchRows, Len(pending))
     IN  IF cancelled \/ count < options.batchRows
         THEN last' = "none" /\ UNCHANGED <<pending, seen>>
         ELSE /\ last' = "batch"
              /\ seen' = seen \o SubSeq(pending, 1, count)
              /\ pending' = SubSeq(pending, count + 1, Len(pending))
  /\ UNCHANGED <<pipeline, stages, phase, plan, tables, options, results, at, failure, cancelled>>

\* next_batch.
NextBatch ==
  /\ phase = "open"
  /\ LET count == Smaller(options.batchRows, Len(pending))
     IN  IF cancelled \/ pending = <<>>
         THEN last' = "none" /\ UNCHANGED <<pending, seen>>
         ELSE /\ last' = "batch"
              /\ seen' = seen \o SubSeq(pending, 1, count)
              /\ pending' = SubSeq(pending, count + 1, Len(pending))
  /\ UNCHANGED <<pipeline, stages, phase, plan, tables, options, results, at, failure, cancelled>>

Cancel ==
  /\ phase = "open"
  /\ cancelled' = TRUE /\ pending' = <<>>
  /\ UNCHANGED <<pipeline, stages, phase, plan, tables, options, results, at, failure, seen, last>>

Over == phase \in {"refused", "failed"} /\ UNCHANGED vars

Next ==
  \/ \E condition \in Conditions : Filter(condition)
  \/ \E projection \in Projections : Select(projection)
  \/ \E reduction \in Reductions : Reduce(reduction.groups, reduction.selection)
  \/ Unnest
  \/ \E window \in Windows : AddWindow(window)
  \/ \E expression \in SortExpressions, descending \in BOOLEAN : OrderBy(expression, descending)
  \/ MakeDistinct
  \/ \E slice \in Slices : Slice(slice[1], slice[2])
  \/ \E right \in Others, join \in {"inner", "left", "right", "full"}, condition \in JoinConditions :
       Join(right, join, condition)
  \/ \E right \in Others : Join(right, "cross", None)
  \/ \E right \in Others, operator \in {"union", "unionAll", "intersect", "except"} : Combined(right, operator)
  \/ Prepare \/ OptimizePlan
  \/ \E database \in Databases, chosen \in Options : Start(database, chosen)
  \/ ExecuteNode \/ TimeOut \/ Open
  \/ NextBatch \/ Cancel \/ Over

Spec == Init /\ [][Next]_vars

-----------------------------------------------------------------------------
(***************************************************************************)
(* Properties.  Those of a stage are about the node that was executed      *)
(* last, on what its inputs gave.                                          *)
(***************************************************************************)
Executed(kinds) == phase = "executing" /\ at > 0 /\ plan.nodes[at].kind \in kinds

Node == plan.nodes[at]
Input == results[Node.input]
Output == results[at]

Data(expression, row) == EvaluateExpr(Environment(plan), expression, row, <<>>)

Count(output, rows) == Cardinality({i \in DOMAIN rows : rows[i].output = output})

RECURSIVE HasShape(_, _)
HasShape(row, output) ==
  /\ row.shape = output.shape
  /\ CASE output.shape = "model" -> row.model = output.model
       [] output.shape = "value" -> row.datum # Missing /\ Conforms(output.ty, row.datum)
       [] output.shape = "product" -> \A i \in 1 .. 2 : HasShape(row.parts[i], output.parts[i])
       [] output.shape = "nullable" -> row.of # <<>> => HasShape(row.of[1], output.of)

\* The rows of a plan are what its compiled output says, to the last nullable side of
\* an outer join (LogicalOutput against DataRow), and within the limits of its
\* execution.
TypeOK ==
  /\ phase \in {"authoring", "prepared", "refused", "executing", "failed", "open"}
  /\ stages \in 0 .. MaxStages /\ cancelled \in BOOLEAN
  /\ last \in {"new", "opened", "batch", "none", "error"}
  /\ (failure # None) = (phase = "failed")
  /\ phase = "executing" /\ at = plan.root =>
       /\ \A i \in DOMAIN results[at] : HasShape(results[at][i].output, plan.output)
       /\ ~ Exceeds(options.maxRows, Len(results[at]))
       /\ ~ Exceeds(options.maxBytes, TotalBytes(results[at]))

Agrees(result) == IF phase = "failed" THEN result.failure = failure ELSE result.rows = results[at]

SameResult(original) ==
  plan = original \/ Agrees(ExecuteSubplan(Environment(original), original.root, <<>>))

\* optimize: an optimized plan gives the rows, or fails for the reason, of the plan it
\* was made from.
OptimizationPreservesResults ==
  (phase = "executing" /\ at = plan.root) \/ (phase = "failed" /\ failure \notin {TimedOut, PlanLimit}) =>
    SameResult(PlanOf(Compiled))

Holds(left, right) ==
  Node.join = "cross" \/ Data(Node.condition, [scopes |-> left.scopes \o right.scopes]) = True

\* The rows of the join of these sides whose condition holds for these pairs.
JoinedBy(left, right, pairs) ==
  LET lonely == IF Node.join \in {"left", "full"}
                THEN {i \in DOMAIN left : \A pair \in pairs : pair[1] # i} ELSE {}
      abandoned == IF Node.join \in {"right", "full"}
                   THEN {j \in DOMAIN right : \A pair \in pairs : pair[2] # j} ELSE {}
      Left(row) == IF LeftNullable(Node.join) THEN row.output.parts[1].of ELSE <<row.output.parts[1]>>
      Right(row) == IF RightNullable(Node.join) THEN row.output.parts[2].of ELSE <<row.output.parts[2]>>
      Rows(l, r) == Cardinality({k \in DOMAIN Output : Left(Output[k]) = l /\ Right(Output[k]) = r})
  IN  /\ Len(Output) = Cardinality(pairs) + Cardinality(lonely) + Cardinality(abandoned)
      /\ \A pair \in pairs :
           Rows(<<left[pair[1]].output>>, <<right[pair[2]].output>>) =
             Cardinality({other \in pairs : /\ left[other[1]].output = left[pair[1]].output
                                           /\ right[other[2]].output = right[pair[2]].output})
      /\ \A i \in lonely :
           Rows(<<left[i].output>>, <<>>) = Cardinality({k \in lonely : left[k].output = left[i].output})
      /\ \A j \in abandoned :
           Rows(<<>>, <<right[j].output>>) = Cardinality({k \in abandoned : right[k].output = right[j].output})

\* execute_join: every pair that meets the condition occurs once; a row of a preserved
\* side that meets no other, because the condition is false or unknown for all of them,
\* occurs once, alone; there is nothing else.
JoinsAreRelational ==
  Executed({"join"}) =>
    LET left == results[Node.left]
        right == results[Node.right]
    IN  JoinedBy(left, right, {<<i, j>> \in (DOMAIN left) \X (DOMAIN right) : Holds(left[i], right[j])})

\* execute_set, execute_distinct: union, intersection, difference and distinct give
\* sets of rows, the concatenation keeps every occurrence.
SetOperationsAreSets ==
  LET Occurring(rows) == {rows[i].output : i \in DOMAIN rows}
      Once(rows) == \A i, j \in DOMAIN rows : rows[i].output = rows[j].output => i = j
  IN  /\ Executed({"distinct"}) => Occurring(Output) = Occurring(Input) /\ Once(Output)
      /\ Executed({"set"}) =>
           LET left == results[Node.left]
               right == results[Node.right]
           IN  /\ Node.operator # "unionAll" => Once(Output)
               /\ CASE Node.operator = "union" -> Occurring(Output) = Occurring(left) \cup Occurring(right)
                    [] Node.operator = "intersect" -> Occurring(Output) = Occurring(left) \cap Occurring(right)
                    [] Node.operator = "except" -> Occurring(Output) = Occurring(left) \ Occurring(right)
                    [] Node.operator = "unionAll" ->
                         \A output \in Occurring(left) \cup Occurring(right) \cup Occurring(Output) :
                           Count(output, Output) = Count(output, left) + Count(output, right)

\* The rows, given the keys of the input and of the output, are the input in order.
InOrderOf(descending, before, after) ==
  LET Alike(rows, keys, datum) == SelectSeq([r \in DOMAIN rows |-> <<keys[r], rows[r]>>], LAMBDA row : row[1] = datum)
  IN  /\ \A r \in DOMAIN before : Alike(Output, after, before[r]) = Alike(Input, before, before[r])
      /\ Len(Output) = Len(Input)
      /\ \A i, j \in DOMAIN after : i < j =>
           IF descending THEN ~ Less(after[i], after[j]) ELSE ~ Less(after[j], after[i])

\* execute_sort: rows come in the order of the key, absent data first, and rows with
\* the same key stay in the order in which they came.
SortsAreStable ==
  Executed({"sort"}) =>
    LET Keys(rows) == [r \in DOMAIN rows |-> Data(Node.keys[1].expression, rows[r])]
    IN  InOrderOf(Node.keys[1].descending, Keys(Input), Keys(Output))

WindowGroups ==
  [r \in DOMAIN Input |->
     IF Node.window.partition = None THEN None
     ELSE EvaluateProjection(Environment(plan), Node.window.partition, Input[r], <<>>)]

WindowKeys ==
  [r \in DOMAIN Input |-> [i \in DOMAIN Node.window.order |-> Data(Node.window.order[i].expression, Input[r])]]

WindowData ==
  [r \in DOMAIN Input |-> IF Node.window.input = None THEN None ELSE Data(Node.window.input, Input[r])]

PartitionOf(r, groups) == {s \in DOMAIN Input : groups[s] = groups[r]}

\* The rows of the partition of r that come before s.
Preceding(r, s, groups, keys) ==
  {q \in PartitionOf(r, groups) : KeysLess(keys[q], keys[s], Node.window.order)}

\* The value of the window at row r, given what the rows are grouped by, ordered by and
\* summed over.
ValueAt(window, r, groups, keys, data) ==
  LET Place(s) == Cardinality(Preceding(r, s, groups, keys))
      framed == {s \in PartitionOf(r, groups) :
                   window.frame = AllRows \/ Place(s) - Place(r) \in window.frame.start .. window.frame.end}
      concrete == {s \in framed : ~ Absent(data[s])}
  IN  CASE window.fn \in {"rowNumber", "rank"} -> 1 + Place(r)
        [] window.fn = "denseRank" -> 1 + Cardinality({keys[q] : q \in Preceding(r, r, groups, keys)})
        [] window.fn = "sum" ->
             IF concrete = {} THEN Null ELSE FoldLeft(LAMBDA sum, s : sum + data[s], 0, SetToSeq(concrete))

HasValues(window, groups, keys, data) ==
  /\ Len(Output) = Len(Input)
  /\ \A r \in DOMAIN Input :
       Output[r].output = ProductRow(Input[r].output, ValueRow(window.ty, ValueAt(window, r, groups, keys, data)))

\* execute_window: a rank counts the rows, or the different keys, of the partition that
\* come before; a sum is over the rows of the partition whose distance in the order is
\* within the frame, whatever the order in which the rows came.
WindowsFollowTheirOrder ==
  Executed({"window"}) => HasValues(Node.window, WindowGroups, WindowKeys, WindowData)

\* Where the compiler says that the identity of a model occurs once, no two rows have
\* the same one.
IdentitiesOccurOnce ==
  phase = "executing" /\ at > 0 =>
    \A i \in DOMAIN Node.scopes : Node.scopes[i].unique =>
      LET Identity(row) == [f \in Models[Node.scopes[i].model].identity |-> row.scopes[i].data[f]]
      IN  \A r, s \in DOMAIN Output : r # s => Identity(Output[r]) # Identity(Output[s])

NoTies(groups, keys) ==
  \A r \in DOMAIN Input : \A s \in PartitionOf(r, groups) \ {r} : keys[r] # keys[s]

\* Where a result depends on the order of single rows (row numbers, and sums over part
\* of a partition), no two rows of a partition have the same keys.
OrdersAreTotal ==
  Executed({"window"}) /\ (Node.window.fn = "rowNumber" \/ (Node.window.fn = "sum" /\ Node.window.frame # AllRows)) =>
    NoTies(WindowGroups, WindowKeys)

\* What an aggregate is over, and its result, which it has to be.
AggregateIs(aggregate, members, data, result) ==
  LET values == {data[r] : r \in {q \in members : ~ Absent(data[q])}}
  IN  CASE aggregate.fn = "countRows" -> result = Cardinality(members)
        [] aggregate.fn = "countPresent" -> result = Cardinality({r \in members : ~ Absent(data[r])})
        [] aggregate.fn = "sum" -> (result = Null) = (values = {})
        [] aggregate.fn \in {"min", "max"} ->
             IF values = {} THEN result = Null
             ELSE /\ result \in values
                  /\ \A v \in values : IF aggregate.fn = "min" THEN result <= v ELSE result >= v

\* The rows, given the keys of the input and the data of each aggregate.
ReducesTo(groups, data) ==
  LET Members(row) == IF Node.groups = None THEN DOMAIN Input
                      ELSE {r \in DOMAIN Input : groups[r] = row.output.datum[1]}
      Value(row) == IF Node.groups = None THEN row.output.datum ELSE row.output.datum[2]
      Result(row, i) == IF Node.selection.form = "value" THEN Value(row) ELSE Value(row)[i]
  IN  /\ IF Node.groups = None THEN Len(Output) = 1
         ELSE /\ {Output[k].output.datum[1] : k \in DOMAIN Output} = Range(groups)
              /\ Len(Output) = Cardinality(Range(groups))
      /\ \A k \in DOMAIN Output, i \in DOMAIN Node.selection.aggregates :
           AggregateIs(Node.selection.aggregates[i], Members(Output[k]), data[i], Result(Output[k], i))

\* execute_aggregate: without groups there is one row, whatever the input; with groups
\* there is one for every key that occurs; the counts add up to the rows, and an
\* extreme is one of the data and passed by none.
AggregatesPartition ==
  Executed({"aggregate"}) =>
    LET aggregates == Node.selection.aggregates
    IN  ReducesTo(
          [r \in DOMAIN Input |-> IF Node.groups = None THEN None
                                  ELSE EvaluateProjection(Environment(plan), Node.groups, Input[r], <<>>)],
          [i \in DOMAIN aggregates |-> [r \in DOMAIN Input |->
             IF aggregates[i].input = None THEN None ELSE Data(aggregates[i].input, Input[r])]])

\* An expression, and a pipeline, in which the fields of the enclosing scopes are the
\* values they have in the records.
RECURSIVE Substituted(_, _, _)
RECURSIVE SubstitutedTree(_, _, _)

Substituted(node, scopes, records) ==
  LET Again(child) == Substituted(child, scopes, records)
  IN  CASE node.kind = "field" ->
             IF Resolved(node, scopes) = {} THEN node
             ELSE [kind |-> "literal", ty |-> node.ty,
                   value |-> records[CHOOSE i \in Resolved(node, scopes) : TRUE].data[node.name]]
        [] node.kind \in {"literal", "parameter"} -> node
        [] node.kind = "exists" -> [node EXCEPT !.subquery = SubstitutedTree(@, scopes, records)]
        [] node.kind = "unary" -> [node EXCEPT !.input = Again(@)]
        [] node.kind = "binary" -> [node EXCEPT !.left = Again(@), !.right = Again(@)]
        [] node.kind = "membership" ->
             [node EXCEPT !.input = Again(@),
                          !.candidates = [i \in DOMAIN node.candidates |-> Again(node.candidates[i])]]
        [] node.kind = "conditional" ->
             [node EXCEPT !.condition = Again(@), !.whenTrue = Again(@), !.whenFalse = Again(@)]

SubstitutedTree(tree, scopes, records) ==
  CASE tree.kind = "source" -> tree
    [] tree.kind = "filter" ->
         [tree EXCEPT !.input = SubstitutedTree(@, scopes, records),
                      !.condition = Substituted(@, scopes, records)]
    [] tree.kind \in InputKinds \ {"filter"} -> [tree EXCEPT !.input = SubstitutedTree(@, scopes, records)]
    [] tree.kind \in {"join", "set"} ->
         [tree EXCEPT !.left = SubstitutedTree(@, scopes, records),
                      !.right = SubstitutedTree(@, scopes, records)]

Executing(compiled) ==
  IF compiled.ok THEN ExecuteSubplan(Environment(Plan(compiled)), compiled.id, <<>>) ELSE Failed(None)

\* The result of a pipeline that is run on its own.
Alone(tree) == Executing(CompilePipeline(tree, <<>>, <<>>))

\* The condition selects the rows, if these are the results of its subqueries for them.
Selects(standalone) ==
  LET Decides(r) ==
        EvaluateDatum(Node.condition.node, Node.condition.models,
          [records |-> Input[r].scopes, bound |-> BoundParameter,
           exists |-> [tree \in DOMAIN standalone[r] |-> TruthOf(standalone[r][tree].rows # <<>>)]]) = True
      selected == SelectSeq([r \in DOMAIN Input |-> r], Decides)
  IN  (\A r \in DOMAIN standalone : \A tree \in DOMAIN standalone[r] : standalone[r][tree].ok) =>
        Output = [k \in DOMAIN selected |-> Input[selected[k]]]

\* evaluate_exists: an existential condition holds for a row exactly if its subquery,
\* run on its own with the row's values in the place of the outer fields, has rows.
CorrelationIsSubstitution ==
  Executed({"filter"}) /\ Node.condition.subqueries # NoSubqueries =>
    Selects([r \in DOMAIN Input |-> [tree \in DOMAIN Node.condition.subqueries |->
               Alone(SubstitutedTree(tree, Node.scopes, Input[r].scopes))]])

\* Every stage, whatever stages are below it, computes its relational definition, over
\* data that may be null or missing (execute_stage); subqueries are among them.
StagesAreRelational ==
  /\ JoinsAreRelational
  /\ SetOperationsAreSets
  /\ SortsAreStable
  /\ WindowsFollowTheirOrder
  /\ AggregatesPartition
  /\ CorrelationIsSubstitution

\* Some set operation closes the scopes of rows that still carry their records.
ClosedBySet ==
  \E id \in DOMAIN plan.nodes :
    plan.nodes[id].kind = "set" /\ plan.nodes[id].scopes = <<>> /\ ScopeShape(plan.nodes, id) # <<>>

\* No expression of a plan meets records of other models than it was bound to, nor a
\* null that its type excludes, whatever joins and subqueries it is under.  (Set
\* operations over the rows of joins are the exception: they lose the scopes in the plan
\* and keep the records in the rows.)
AcceptedPlansEvaluate ==
  phase = "failed" => failure \notin {ScopeMismatch, NullDatum} \/ ClosedBySet

\* What the compiler says of a plan is true of its rows.  The uniqueness it derives
\* through filters, sorts, joins and set operations (identity_unique) holds, and what
\* require_total_model_order accepts because of it leaves no ties, so that no result
\* depends on how rows came; and what it accepts evaluates.
CompilerPromisesHold == IdentitiesOccurOnce /\ OrdersAreTotal /\ AcceptedPlansEvaluate

Stream == INSTANCE PullStream WITH
  result <- IF last \in {"new", "error"} THEN <<>> ELSE Outputs(results[plan.root]),
  live <- ~ cancelled /\ phase # "failed" /\ last # "none"

\* MemoryStream is a stream of the rows of the plan: in order, in batches, none lost or
\* repeated, and nothing after its end or a cancellation.
ImplementsPullStream == Stream!Spec
=============================================================================
