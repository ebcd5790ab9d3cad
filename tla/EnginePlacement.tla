-------------------------- MODULE EnginePlacement --------------------------
(***************************************************************************)
(* Where the nodes of a plan are executed (dol-engine/src/placement): by   *)
(* the engine, if it supports them exactly and all they depend on is there *)
(* too, or else by local residual work, if the policy permits any.         *)
(***************************************************************************)
EXTENDS Pipelines

\* runtime_capabilities of the PostgreSQL and MongoDB engines.
ReadCapabilities == {"source", "filter", "project", "slice"}

\* The expressions of a node.
NodeExpressions(node) ==
  LET Operand(e) == IF e = None THEN <<>> ELSE <<e>>
      Parts(projection) == IF projection = None THEN <<>> ELSE projection.expressions
      Keys(order) == [i \in DOMAIN order |-> order[i].expression]
  IN  CASE node.kind = "filter" -> <<node.condition>>
        [] node.kind = "project" -> node.projection.expressions
        [] node.kind = "aggregate" ->
             FoldLeft(LAMBDA all, a : all \o Operand(a.input), Parts(node.groups), node.selection.aggregates)
        [] node.kind = "window" ->
             Operand(node.window.input) \o Parts(node.window.partition) \o Keys(node.window.order)
        [] node.kind = "sort" -> Keys(node.keys)
        [] node.kind = "join" -> Operand(node.condition)
        [] node.kind \in {"source", "unnest", "distinct", "slice", "set"} -> <<>>

\* ExecutionLimits::validate_plan.
WithinPlanLimits(nodes, limits) ==
  LET Counted(sum, node) == FoldLeft(LAMBDA n, e : n + Size(e.node), sum, NodeExpressions(node))
  IN  /\ Len(nodes) <= limits.maxPlanNodes
      /\ FoldLeft(Counted, 0, nodes) <= limits.maxExpressionNodes
      /\ limits.maxConcurrency # 0

NodeSubqueries(node) ==
  LET expressions == NodeExpressions(node)
  IN  UNION {Range(expressions[i].subqueries) : i \in DOMAIN expressions}

\* node_requires_existential_support.
NeedsExists(node) ==
  LET expressions == NodeExpressions(node)
  IN  \E i \in DOMAIN expressions : expressions[i].outer # 0 \/ expressions[i].subqueries # NoSubqueries

\* capability_support_for_node.
CapabilitySupport(node, capabilities) ==
  node.kind \in capabilities /\ (NeedsExists(node) => "exists" \in capabilities)

\* has_local_dependency: the inputs and the subqueries of a node.
Dependencies(node) == Range(Inputs(node)) \cup NodeSubqueries(node)

RemoteOnly == [hybrid |-> FALSE]

Hybrid(rows, bytes, batches) ==
  [hybrid |-> TRUE, rows |-> rows, bytes |-> bytes, batches |-> batches]

\* TransferBudget::validate.
ValidPolicy(policy) == policy.hybrid => policy.rows # 0 /\ policy.bytes # 0 /\ policy.batches # 0

\* analyze_placement_with, for the nodes of a plan and the indices of those supported.
Placement(nodes, supported, policy) ==
  LET Place(sites, node) ==
        Append(sites, IF /\ Len(sites) + 1 \in supported
                         /\ \A id \in Dependencies(node) : sites[id] = "engine"
                      THEN "engine" ELSE "local")
      sites == FoldLeft(Place, <<>>, nodes)
  IN  [ok |-> ValidPolicy(policy) /\ (policy.hybrid \/ "local" \notin Range(sites)), sites |-> sites]

FullyEngine(placement) == placement.ok /\ "local" \notin Range(placement.sites)
=============================================================================
