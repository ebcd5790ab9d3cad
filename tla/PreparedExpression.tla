------------------------- MODULE PreparedExpression -------------------------
(***************************************************************************)
(* The life of one expression: it is authored operator by operator (the    *)
(* methods of Expr), prepared for a scope (prepare_expression) and         *)
(* evaluated in a context (evaluate_datum).                                *)
(***************************************************************************)
EXTENDS Expressions

CONSTANTS
  Seeds,         \* what authoring starts from
  Operands,      \* the other operands it takes
  Conditions,    \* the conditions it takes
  Targets,       \* the types it casts to
  MaxOperators,  \* how many operators it applies
  Limits,        \* expression limits: maxNodes, maxDepth
  OnlyModel,     \* the model of its fields
  Contexts       \* the contexts of evaluation

VARIABLES
  authored,   \* the tree as authored
  operators,  \* operators applied
  limits,     \* the limits it is prepared under
  nullable,   \* whether its scope is the nullable side of an outer join
  pc,         \* where the expression is
  normal,     \* the normalized tree
  prepared,   \* the tree bound to the scope
  context,    \* what it was evaluated in
  value       \* the outcome

scopeVars == <<limits, nullable>>
vars == <<authored, operators, scopeVars, pc, normal, prepared, context, value>>

NoNode == [kind |-> "none"]

\* The one scope the expression is bound to.
ScopesOf(isNullable) == <<[model |-> OnlyModel, alias |-> NoAlias, nullable |-> isNullable]>>

Init ==
  /\ authored \in Seeds /\ operators = 0
  /\ limits \in Limits /\ nullable = FALSE
  /\ pc = "authored" /\ normal = NoNode /\ prepared = NoNode
  /\ context = NoNode /\ value = Missing

-----------------------------------------------------------------------------
(***************************************************************************)
(* Authoring.  Rust's types keep most ill-typed trees from being built.    *)
(***************************************************************************)
FromNode(node) ==
  /\ pc = "authored" /\ operators < MaxOperators
  /\ authored' = node
  /\ operators' = operators + 1
  /\ UNCHANGED <<scopeVars, pc, normal, prepared, context, value>>

Author(node) == FromNode(node) /\ ValidNode(node)

\* Tests and negations give a truth, a lift the nullable type, others keep the type.
AuthorUnary(op) ==
  Author([kind |-> "unary", op |-> op, input |-> authored,
          ty |-> CASE op \in {"not", "isNull", "isMissing", "isPresent"} -> TruthType
                   [] op = "lift" -> [authored.ty EXCEPT !.nullable = TRUE]
                   [] op \in {"negate", "abs"} -> authored.ty])

\* Any numeric type can be asked for; preparation rejects the casts that lose values.
AuthorCast(target) ==
  /\ Numeric(authored.ty)
  /\ FromNode([kind |-> "unary", op |-> "cast", input |-> authored, ty |-> target])

\* binary_same, binary_truth, coalesce.
BinaryExpression(op, left, right) ==
  [kind |-> "binary", op |-> op, left |-> left, right |-> right,
   ty |-> CASE op \in ArithmeticOps \cup {"and", "or"} -> left.ty
            [] op \in EqualityOps \cup OrderOps -> TruthType
            [] op = "coalesce" -> right.ty]

AuthorBinary(op, operand) ==
  \/ Author(BinaryExpression(op, authored, operand))
  \/ Author(BinaryExpression(op, operand, authored))

AuthorMembership(candidates, negate) ==
  Author([kind |-> "membership", ty |-> TruthType, input |-> authored, candidates |-> candidates,
          negate |-> negate])

ConditionalExpression(condition, whenTrue, whenFalse) ==
  [kind |-> "conditional", ty |-> whenTrue.ty, condition |-> condition, whenTrue |-> whenTrue,
   whenFalse |-> whenFalse]

\* if_else, with the tree so far in each of the three places.
AuthorConditional(condition, operand) ==
  \/ Author(ConditionalExpression(condition, authored, operand))
  \/ Author(ConditionalExpression(condition, operand, authored))
  \/ \E other \in Operands : Author(ConditionalExpression(authored, operand, other))

-----------------------------------------------------------------------------
(***************************************************************************)
(* Preparation and evaluation.                                             *)
(***************************************************************************)
Rejected(reason) == pc' = reason /\ UNCHANGED <<normal, prepared>>

\* prepare_expression, for a scope that is nullable or not.
Prepare ==
  /\ pc = "authored" /\ nullable' \in BOOLEAN
  /\ LET result == NormalForm(authored, limits, ScopesOf(nullable'))
     IN  CASE result = RejectedNode -> Rejected("rejected")
           [] result = FailedNode -> Rejected("foldingFailed")
           [] OTHER -> /\ pc' = "prepared" /\ normal' = result
                       /\ prepared' = Bound(result, ScopesOf(nullable'), FALSE)
  /\ UNCHANGED <<authored, operators, limits, context, value>>

\* A null-extended record belongs to a nullable scope.
Evaluate ==
  /\ pc = "prepared"
  /\ context' \in Contexts /\ (context'.records[1].extended => nullable)
  /\ value' = EvaluateDatum(prepared, <<OnlyModel>>, context')
  /\ pc' = "evaluated"
  /\ UNCHANGED <<authored, operators, scopeVars, normal, prepared>>

Done == pc \in {"rejected", "foldingFailed", "evaluated"} /\ UNCHANGED vars

Next ==
  \/ \E op \in {"not", "isNull", "isMissing", "isPresent", "lift", "negate", "abs"} : AuthorUnary(op)
  \/ \E target \in Targets : AuthorCast(target)
  \/ \E op \in ArithmeticOps \cup EqualityOps \cup OrderOps \cup {"and", "or", "coalesce"},
        operand \in Operands : AuthorBinary(op, operand)
  \/ \E candidates \in {<<>>} \cup Operands \X Operands, negate \in BOOLEAN :
        AuthorMembership(candidates, negate)
  \/ \E condition \in Conditions, operand \in Operands : AuthorConditional(condition, operand)
  \/ Prepare \/ Evaluate \/ Done

Spec == Init /\ [][Next]_vars

-----------------------------------------------------------------------------
(***************************************************************************)
(* Properties.                                                             *)
(***************************************************************************)

\* What was prepared is a valid expression of the authored type, and evaluating it
\* gives a datum of this type or a failure; the null an outer join puts in place of an
\* unmatched record never reaches a node whose type has no null, since binding rejects
\* every expression through which it could (compile_node_mode, evaluate_node).
TypeOK ==
  /\ pc \in {"authored", "prepared", "evaluated", "rejected", "foldingFailed"}
  /\ nullable \in BOOLEAN
  /\ pc = "prepared" => ValidExpression(prepared) /\ prepared.ty = authored.ty
  /\ pc = "evaluated" => value \in Failures \ {NullDatum} \/ Conforms(authored.ty, value)

\* The authored tree, evaluated on demand from its root without any rewriting.
Direct == EvaluateNode(Bound(authored, ScopesOf(nullable), FALSE), context)

\* Normalization (double negations, folded constants, selected branches, reordered
\* candidates) never changes a value: where the authored tree has one, the prepared
\* expression has the same (normalize_node; Expr::normalized says
\* "semantics-preserving").
NormalizationPreservesValues == pc = "evaluated" => Direct \in Failures \/ value = Direct

\* Normalizing again changes nothing, so that the fingerprint of a prepared
\* expression is that of its own normal form (normalize_node, fingerprint).
NormalFormIsStable == pc = "prepared" => Normalize(normal) = normal

\* docs/design/semantics.md says "the unselected branch is not evaluated" and
\* "`coalesce` ... evaluates its fallback lazily": an expression that has a value on
\* some record is not rejected for a constant it would not have evaluated there.
BranchesAreEvaluatedOnDemand ==
  pc = "foldingFailed" /\ ~ nullable =>
    \A c \in Contexts :
      c.records[1].extended \/ EvaluateNode(Bound(authored, ScopesOf(FALSE), FALSE), c) \in Failures
=============================================================================
