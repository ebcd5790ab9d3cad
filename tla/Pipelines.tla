----------------------------- MODULE Pipelines -----------------------------
(***************************************************************************)
(* Pipelines (dol-core/src/pipeline, plan): an authored tree of stages is  *)
(* lowered to a plan, a sequence of nodes in which every node refers to    *)
(* earlier ones, and the plan is optimized.  Every occurrence of a stage   *)
(* in a tree is lowered on its own; the code lowers a stage that two       *)
(* branches share once.                                                    *)
(***************************************************************************)
EXTENDS Expressions

CONSTANTS
  Models,            \* for each model its fields, by name, and its identity
  None,              \* the absence of an operand
  PipelineLimits,    \* maxNodes, and the limits of an expression
  CountBits          \* the width of counts and ranks, 64 in the code

ASSUME CountAssumption == CountBits \in Nat \ {0}

\* The type of counts and ranks, dol/u64.
CountType == [base |-> "uint", bits |-> CountBits, nullable |-> FALSE]

TupleType(types) == [base |-> "tuple", elements |-> types, nullable |-> FALSE]

NullableType(ty) == [ty EXCEPT !.nullable = TRUE]

\* TypeProperties: ordering and keyable (every type here has equality).
Ordered(ty) == Numeric(ty)

RECURSIVE Keyable(_)
Keyable(ty) ==
  CASE ty.base = "list" -> FALSE
    [] ty.base = "tuple" -> \A i \in DOMAIN ty.elements : Keyable(ty.elements[i])
    [] OTHER -> TRUE

-----------------------------------------------------------------------------
(***************************************************************************)
(* Scopes and outputs.                                                     *)
(***************************************************************************)
SourceScope(model, alias) ==
  [model |-> model, alias |-> alias, nullable |-> FALSE, unique |-> TRUE]

\* combine_scopes: aliases are used once, and a model that occurs twice has them.
Combine(left, right) ==
  LET scopes == left \o right
  IN  \A i, j \in DOMAIN scopes : i # j =>
        /\ scopes[i].alias # NoAlias => scopes[i].alias # scopes[j].alias
        /\ scopes[i].model = scopes[j].model => scopes[i].alias # NoAlias

\* Mutation: a join leaves the identity of its left side unique.
LiftJoinScopes_KeepsUnique(left, right, join) ==
  [i \in 1 .. Len(left) + Len(right) |->
     [(left \o right)[i] EXCEPT
        !.nullable = @ \/ join = "full" \/ join = (IF i <= Len(left) THEN "right" ELSE "left"),
        !.unique = i <= Len(left) /\ @]]

\* lift_join_scopes: after a join no identity is known to occur once only, and the
\* side that may be unmatched is nullable.
LiftJoinScopes(left, right, join) ==
  [i \in 1 .. Len(left) + Len(right) |->
     [(left \o right)[i] EXCEPT
        !.nullable = @ \/ join = "full" \/ join = (IF i <= Len(left) THEN "right" ELSE "left"),
        !.unique = FALSE]]

\* compatible_set_scopes: one common model stays in scope, anything else is closed.
CompatibleSetScopes(left, right, operator) ==
  IF Len(left) = 1 /\ Len(right) = 1 /\ left[1].model = right[1].model
  THEN <<[model |-> left[1].model, alias |-> NoAlias,
          nullable |-> left[1].nullable \/ right[1].nullable,
          unique |-> CASE operator = "intersect" -> left[1].unique \/ right[1].unique
                       [] operator = "except" -> left[1].unique
                       [] operator \in {"union", "unionAll"} -> FALSE]>>
  ELSE <<>>

ModelOutput(model) == [shape |-> "model", model |-> model]
ValueOutput(ty) == [shape |-> "value", ty |-> ty]
ProductOutput(left, right) == [shape |-> "product", parts |-> <<left, right>>]
NullableOutput(output) ==
  IF output.shape = "nullable" THEN output ELSE [shape |-> "nullable", of |-> output]

JoinOutput(left, right, join) ==
  ProductOutput(IF join \in {"right", "full"} THEN NullableOutput(left) ELSE left,
                IF join \in {"left", "full"} THEN NullableOutput(right) ELSE right)

-----------------------------------------------------------------------------
(***************************************************************************)
(* Expressions of a stage.                                                 *)
(***************************************************************************)
NoSubqueries == <<>>

\* LogicalExpr: a bound expression, the models of its scopes, how many of them belong
\* to enclosing pipelines, and the plan nodes of its subqueries.
LogicalExpr(normal, scopes, outer, subqueries) ==
  [node |-> Bound(normal, scopes, FALSE), ty |-> normal.ty,
   models |-> [i \in DOMAIN scopes |-> scopes[i].model], outer |-> outer, subqueries |-> subqueries]

\* The subqueries of a condition, in the order of their occurrence.
RECURSIVE Subqueries(_)
Subqueries(node) ==
  IF node.kind = "exists" THEN <<node.subquery>>
  ELSE FoldLeft(LAMBDA found, child : found \o Subqueries(child), <<>>, Children(node))

Normal(node, scopes) == NormalForm(node, PipelineLimits.expression, scopes)

Prepared(normal) == normal.kind \notin {"failed", "rejected"}

Plain(normal) == Prepared(normal) /\ Subqueries(normal) = <<>>

\* prepare_expression, which knows no subqueries.
Accepts(node, scopes) == Plain(Normal(node, scopes))

Expression(node, scopes) == LogicalExpr(Normal(node, scopes), scopes, 0, NoSubqueries)

AcceptsAll(nodes, scopes) == \A i \in DOMAIN nodes : Accepts(nodes[i], scopes)

ProjectionType(projection) ==
  IF projection.form = "value" THEN projection.expressions[1].ty
  ELSE TupleType([i \in DOMAIN projection.expressions |-> projection.expressions[i].ty])

\* compile_projection.  A record is a tuple in the order of its names.
Projection(projection, scopes) ==
  [form |-> projection.form, ty |-> ProjectionType(projection),
   expressions |-> [i \in DOMAIN projection.expressions |-> Expression(projection.expressions[i], scopes)]]

\* validate_aggregate: `present` aggregates say that they skip nulls, others refuse them.
AcceptsAggregate(aggregate, scopes) ==
  \/ aggregate.fn = "countRows" /\ aggregate.input = None
  \/ /\ aggregate.fn # "countRows" /\ aggregate.input # None
     /\ Accepts(aggregate.input, scopes)
     /\ aggregate.fn \in {"sum", "min", "max"} => aggregate.present \/ ~ aggregate.input.ty.nullable
     /\ aggregate.fn = "sum" => Numeric(aggregate.input.ty)
     /\ aggregate.fn \in {"min", "max"} => Ordered(aggregate.input.ty) /\ Keyable(aggregate.input.ty)

AggregateType(aggregate) ==
  IF aggregate.fn \in {"countRows", "countPresent"} THEN CountType ELSE NullableType(aggregate.input.ty)

Aggregate(aggregate, scopes) ==
  [fn |-> aggregate.fn, ty |-> AggregateType(aggregate),
   input |-> IF aggregate.input = None THEN None ELSE Expression(aggregate.input, scopes)]

SelectionType(selection) ==
  IF selection.form = "value" THEN AggregateType(selection.aggregates[1])
  ELSE TupleType([i \in DOMAIN selection.aggregates |-> AggregateType(selection.aggregates[i])])

-----------------------------------------------------------------------------
(***************************************************************************)
(* Windows (compile/advanced.rs).  A bound of a frame is the distance from *)
(* the current row, negative before it; an unbounded one is Before or      *)
(* After every row, at a distance that no partition reaches.               *)
(***************************************************************************)
CONSTANT Unbounded

ASSUME FrameAssumption == Unbounded \in Nat \ {0}

Before == -Unbounded
After == Unbounded

AllRows == [start |-> Before, end |-> After]

\* validate_frame.
ValidFrame(frame) ==
  frame.start # After /\ frame.end # Before /\ frame.start <= frame.end

\* require_total_model_order: with every identity once, ordering by it leaves no ties.
TotalModelOrder(scopes, order) ==
  /\ Len(scopes) = 1 /\ scopes[1].unique
  /\ Models[scopes[1].model].identity # {}
  /\ \A key \in Models[scopes[1].model].identity : \E i \in DOMAIN order :
       LET node == Expression(order[i].expression, scopes).node
       IN  node.kind = "field" /\ node.name = key

ValidRanking(window) == window.input = None /\ window.order # <<>> /\ window.frame = None

ValidWindowSum(window, scopes) ==
  /\ window.input # None /\ (window.present \/ ~ window.input.ty.nullable) /\ Numeric(window.input.ty)
  /\ window.frame # None /\ ValidFrame(window.frame)
  /\ window.frame # AllRows => window.order # <<>> /\ TotalModelOrder(scopes, window.order)

\* compile_window up to validate_window.
AcceptsWindow(window, scopes) ==
  /\ scopes # <<>>
  /\ window.partition # None => /\ AcceptsAll(window.partition.expressions, scopes)
                                /\ Keyable(ProjectionType(window.partition))
  /\ \A i \in DOMAIN window.order :
       LET expression == window.order[i].expression
       IN  Accepts(expression, scopes) /\ Ordered(expression.ty) /\ Keyable(expression.ty)
  /\ window.input # None => Accepts(window.input, scopes)
  /\ CASE window.fn = "rowNumber" -> ValidRanking(window) /\ TotalModelOrder(scopes, window.order)
       [] window.fn \in {"rank", "denseRank"} -> ValidRanking(window)
       [] window.fn = "sum" -> ValidWindowSum(window, scopes)

WindowType(window) == IF window.fn = "sum" THEN NullableType(window.input.ty) ELSE CountType

SortKeys(order, scopes) ==
  [i \in DOMAIN order |->
     [expression |-> Expression(order[i].expression, scopes), descending |-> order[i].descending]]

LogicalWindow(window, scopes) ==
  [fn |-> window.fn, frame |-> window.frame, ty |-> WindowType(window),
   input |-> IF window.input = None THEN None ELSE Expression(window.input, scopes),
   partition |-> IF window.partition = None THEN None ELSE Projection(window.partition, scopes),
   order |-> SortKeys(window.order, scopes)]

-----------------------------------------------------------------------------
(***************************************************************************)
(* Lowering.  What compiling a stage gives: the plan so far, the node that *)
(* produces the stage's rows, the scopes they have and their output.  A    *)
(* node also records the scopes compiled for it, which the code keeps in   *)
(* the table of compiled stages only.                                      *)
(***************************************************************************)
Refused == [ok |-> FALSE]

Stage(nodes, node, scopes, output) ==
  [ok |-> TRUE, nodes |-> Append(nodes, [node EXCEPT !.scopes = scopes]), id |-> Len(nodes) + 1,
   scopes |-> scopes, output |-> output]

Unary(kind, input) == [kind |-> kind, input |-> input.id, scopes |-> <<>>]

InputKinds == {"filter", "project", "aggregate", "unnest", "window", "sort", "distinct", "slice"}

\* push_structural_inputs.
Inputs(tree) ==
  CASE tree.kind = "source" -> <<>>
    [] tree.kind \in InputKinds -> <<tree.input>>
    [] tree.kind \in {"join", "set"} -> <<tree.left, tree.right>>

RECURSIVE StageCount(_)
StageCount(tree) == FoldLeft(LAMBDA n, input : n + StageCount(input), 1, Inputs(tree))

CompileSource(tree, nodes) ==
  Stage(nodes, [kind |-> "source", model |-> tree.model, scopes |-> <<>>],
        <<SourceScope(tree.model, tree.alias)>>, ModelOutput(tree.model))

CompileProject(tree, input) ==
  IF ~ AcceptsAll(tree.projection.expressions, input.scopes) THEN Refused
  ELSE Stage(input.nodes, Unary("project", input) @@ [projection |-> Projection(tree.projection, input.scopes)],
             <<>>, ValueOutput(ProjectionType(tree.projection)))

CompileAggregate(tree, input) ==
  LET groups == tree.groups
      selection == tree.selection
      accepted ==
        /\ groups # None => /\ AcceptsAll(groups.expressions, input.scopes)
                            /\ Keyable(ProjectionType(groups))
        /\ \A i \in DOMAIN selection.aggregates : AcceptsAggregate(selection.aggregates[i], input.scopes)
      ty == IF groups = None THEN SelectionType(selection)
            ELSE TupleType(<<ProjectionType(groups), SelectionType(selection)>>)
      node == [groups |-> IF groups = None THEN None ELSE Projection(groups, input.scopes),
               selection |-> [form |-> selection.form, ty |-> SelectionType(selection),
                              aggregates |-> [i \in DOMAIN selection.aggregates |->
                                                Aggregate(selection.aggregates[i], input.scopes)]],
               ty |-> ty]
  IN  IF accepted THEN Stage(input.nodes, Unary("aggregate", input) @@ node, <<>>, ValueOutput(ty))
      ELSE Refused

CompileUnnest(input) ==
  IF input.output.shape # "value" THEN Refused
  ELSE IF input.output.ty.base # "list" THEN Refused
  ELSE LET element == input.output.ty.element
       IN  Stage(input.nodes, Unary("unnest", input) @@ [element |-> element], <<>>, ValueOutput(element))

CompileWindow(tree, input) ==
  IF ~ AcceptsWindow(tree.window, input.scopes) THEN Refused
  ELSE Stage(input.nodes, Unary("window", input) @@ [window |-> LogicalWindow(tree.window, input.scopes)],
             input.scopes, ProductOutput(input.output, ValueOutput(WindowType(tree.window))))

CompileSort(tree, input) ==
  IF ~ (Accepts(tree.expression, input.scopes) /\ Ordered(tree.expression.ty)) THEN Refused
  ELSE Stage(input.nodes,
             Unary("sort", input) @@
               [keys |-> SortKeys(<<[expression |-> tree.expression, descending |-> tree.descending]>>,
                                  input.scopes)],
             input.scopes, input.output)

CompileJoin(tree, left, right) ==
  LET scopes == left.scopes \o right.scopes
      conditional == tree.join # "cross"
      accepted == /\ Combine(left.scopes, right.scopes)
                  /\ conditional = (tree.condition # None)
                  /\ conditional => Accepts(tree.condition, scopes)
      node == [kind |-> "join", left |-> left.id, right |-> right.id, join |-> tree.join, scopes |-> <<>>,
               condition |-> IF conditional THEN Expression(tree.condition, scopes) ELSE None]
  IN  IF accepted
      THEN Stage(right.nodes, node, LiftJoinScopes(left.scopes, right.scopes, tree.join),
                 JoinOutput(left.output, right.output, tree.join))
      ELSE Refused

CompileSet(tree, left, right) ==
  IF left.output # right.output THEN Refused
  ELSE Stage(right.nodes,
             [kind |-> "set", left |-> left.id, right |-> right.id, operator |-> tree.operator, scopes |-> <<>>],
             CompatibleSetScopes(left.scopes, right.scopes, tree.operator), left.output)

RECURSIVE CompilePipeline(_, _, _)

Linked(done, tree, compiled) ==
  IF compiled.ok
  THEN [ok |-> TRUE, nodes |-> compiled.nodes, ids |-> (tree :> compiled.id) @@ done.ids]
  ELSE Refused

\* The subqueries of a filter are compiled before it, with the scopes the filter sees.
CompileSubqueries(subqueries, nodes, scopes) ==
  FoldLeft(LAMBDA done, tree :
             IF done.ok THEN Linked(done, tree, CompilePipeline(tree, done.nodes, scopes)) ELSE done,
           [ok |-> TRUE, nodes |-> nodes, ids |-> NoSubqueries], subqueries)

LinkFilter(input, outer, normal, linked) ==
  IF ~ linked.ok THEN Refused
  ELSE Stage(linked.nodes,
             Unary("filter", input) @@
               [condition |-> LogicalExpr(normal, outer \o input.scopes, Len(outer), linked.ids)],
             input.scopes, input.output)

PrepareFilter(input, outer, normal) ==
  IF ~ Combine(outer, input.scopes) \/ ~ Prepared(normal) THEN Refused
  ELSE LinkFilter(input, outer, normal,
                  CompileSubqueries(Subqueries(normal), input.nodes, outer \o input.scopes))

CompileFilter(tree, input, outer) ==
  PrepareFilter(input, outer, Normal(tree.condition, outer \o input.scopes))

CompileUnary(tree, input, outer) ==
  CASE tree.kind = "filter" -> CompileFilter(tree, input, outer)
    [] tree.kind = "project" -> CompileProject(tree, input)
    [] tree.kind = "aggregate" -> CompileAggregate(tree, input)
    [] tree.kind = "unnest" -> CompileUnnest(input)
    [] tree.kind = "window" -> CompileWindow(tree, input)
    [] tree.kind = "sort" -> CompileSort(tree, input)
    [] tree.kind = "distinct" -> Stage(input.nodes, Unary("distinct", input), input.scopes, input.output)
    [] tree.kind = "slice" ->
         Stage(input.nodes, Unary("slice", input) @@ [offset |-> tree.offset, limit |-> tree.limit],
               input.scopes, input.output)

CompileBinary(tree, left, right) ==
  IF ~ right.ok THEN Refused
  ELSE IF tree.kind = "join" THEN CompileJoin(tree, left, right) ELSE CompileSet(tree, left, right)

RECURSIVE CompileStages(_, _, _)

\* compile_node, given the first input.
CompileNode(tree, first, outer) ==
  IF ~ first.ok THEN Refused
  ELSE IF tree.kind \in InputKinds THEN CompileUnary(tree, first, outer)
  ELSE CompileBinary(tree, first, CompileStages(tree.right, first.nodes, outer))

\* Every stage of a pipeline, inputs first and the left one before the right one.
CompileStages(tree, nodes, outer) ==
  IF tree.kind = "source" THEN CompileSource(tree, nodes)
  ELSE CompileNode(tree, CompileStages(Inputs(tree)[1], nodes, outer), outer)

CompilePipeline(tree, nodes, outer) ==
  IF StageCount(tree) > PipelineLimits.maxNodes THEN Refused ELSE CompileStages(tree, nodes, outer)

Plan(compiled) == [nodes |-> compiled.nodes, root |-> compiled.id, output |-> compiled.output]

-----------------------------------------------------------------------------
(***************************************************************************)
(* The optimizer (plan/optimize.rs).                                       *)
(***************************************************************************)

\* redundant_target: the node that can take the place of this one, or none.
RedundantTarget(node, nodes) ==
  CASE node.kind = "slice" -> IF node.offset = 0 /\ node.limit = None THEN node.input ELSE 0
    [] node.kind = "distinct" -> IF nodes[node.input].kind = "distinct" THEN node.input ELSE 0
    [] OTHER -> 0

\* Mutation: the subqueries of a condition keep their old nodes.
RemapNode_Conditions(node, remap) ==
  CASE node.kind = "source" -> node
    [] node.kind \in InputKinds -> [node EXCEPT !.input = remap[@]]
    [] node.kind \in {"join", "set"} -> [node EXCEPT !.left = remap[@], !.right = remap[@]]

RemapNode(node, remap) ==
  CASE node.kind = "source" -> node
    [] node.kind = "filter" ->
         [node EXCEPT !.input = remap[@],
                      !.condition.subqueries = [tree \in DOMAIN @ |-> remap[@[tree]]]]
    [] node.kind \in InputKinds \ {"filter"} -> [node EXCEPT !.input = remap[@]]
    [] node.kind \in {"join", "set"} -> [node EXCEPT !.left = remap[@], !.right = remap[@]]

Optimize(plan) ==
  LET Keep(done, old) ==
        LET node == RemapNode(old, done.remap)
            target == RedundantTarget(node, done.nodes)
        IN  IF target = 0
            THEN [nodes |-> Append(done.nodes, node), remap |-> Append(done.remap, Len(done.nodes) + 1)]
            ELSE [done EXCEPT !.remap = Append(@, target)]
      result == FoldLeft(Keep, [nodes |-> <<>>, remap |-> <<>>], plan.nodes)
  IN  [plan EXCEPT !.nodes = result.nodes, !.root = result.remap[@]]
=============================================================================
