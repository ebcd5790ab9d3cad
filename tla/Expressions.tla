---------------------------- MODULE Expressions ----------------------------
(***************************************************************************)
(* Expressions (dol-core/src/expr): authored trees are validated,          *)
(* normalized, validated again, bound to a record scope and evaluated.     *)
(* Numbers have the two widths that matter: the bits of their type, which  *)
(* every evaluated node is checked against, and WideBits, the width in     *)
(* which arithmetic is done (128 in the code).  A failure is a datum of    *)
(* its own that an evaluation hands on.                                    *)
(***************************************************************************)
EXTENDS Integers, Sequences, SequencesExt, FiniteSets

CONSTANTS
  Missing, Null,             \* absent data
  True, False, Unknown,      \* truth values
  ArithmeticError,           \* overflow in WideBits, or a division by zero
  InvalidDatum,              \* a value outside the type of its node
  NullDatum,                 \* a null at a node whose type has none
  UnboundParameter,          \* a parameter without a value of its type
  ScopeMismatch,             \* records of other models than those bound
  ExecutionFailures,         \* how the execution of a subquery may fail
  NoAlias,                   \* a source, or a field, without an alias
  WideBits

ASSUME WideAssumption == WideBits \in Nat \ {0}

Truth == {True, False, Unknown}

Failures ==
  {ArithmeticError, InvalidDatum, NullDatum, UnboundParameter, ScopeMismatch} \cup ExecutionFailures

TruthType == [base |-> "truth", bits |-> 0, nullable |-> FALSE]

Signed(bits) == -(2 ^ (bits - 1)) .. 2 ^ (bits - 1) - 1

Unsigned(bits) == 0 .. 2 ^ bits - 1

\* signed_fits, unsigned_fits.
Fits(base, bits, v) == v \in (IF base = "int" THEN Signed(bits) ELSE Unsigned(bits))

\* validate_datum with an optional presence; the elements of lists and tuples are
\* required.
RECURSIVE Conforms(_, _)
Conforms(ty, datum) ==
  CASE datum = Missing -> TRUE
    [] datum = Null -> ty.nullable
    [] OTHER ->
         CASE ty.base = "truth" -> datum \in Truth
           [] ty.base = "list" -> \A i \in DOMAIN datum : datum[i] # Missing /\ Conforms(ty.element, datum[i])
           [] ty.base = "tuple" -> \A i \in DOMAIN datum : datum[i] # Missing /\ Conforms(ty.elements[i], datum[i])
           [] OTHER -> datum \notin Truth /\ Fits(ty.base, ty.bits, datum)

Absent(datum) == datum = Missing \/ datum = Null

-----------------------------------------------------------------------------
(***************************************************************************)
(* Three-valued truth and the operators on data.                           *)
(***************************************************************************)
And(a, b) ==
  CASE False \in {a, b} -> False [] a = True /\ b = True -> True [] OTHER -> Unknown

Or(a, b) ==
  CASE True \in {a, b} -> True [] a = False /\ b = False -> False [] OTHER -> Unknown

Negate(a) == CASE a = True -> False [] a = False -> True [] a = Unknown -> Unknown

TruthOf(condition) == IF condition THEN True ELSE False

CompareEquality(left, right) ==
  IF Absent(left) \/ Absent(right) THEN Unknown ELSE TruthOf(left = right)

CompareOrder(op, left, right) ==
  IF Absent(left) \/ Absent(right) THEN Unknown
  ELSE TruthOf(CASE op = "lt" -> left < right [] op = "le" -> left <= right
                 [] op = "gt" -> left > right [] op = "ge" -> left >= right)

Magnitude(a) == IF a < 0 THEN -a ELSE a

\* Division truncates towards zero, the remainder has the sign of the dividend.
Quotient(a, b) ==
  LET q == Magnitude(a) \div Magnitude(b) IN IF (a < 0) = (b < 0) THEN q ELSE -q

Remainder(a, b) == a - b * Quotient(a, b)

\* The checked operations of i128 and u128; the remainder overflows where the
\* quotient does.
CheckedArithmetic(base, op, a, b) ==
  IF op \in {"div", "rem"} /\ (b = 0 \/ ~ Fits(base, WideBits, Quotient(a, b))) THEN ArithmeticError
  ELSE LET v == CASE op = "add" -> a + b [] op = "sub" -> a - b [] op = "mul" -> a * b
                  [] op = "div" -> Quotient(a, b) [] op = "rem" -> Remainder(a, b)
       IN  IF Fits(base, WideBits, v) THEN v ELSE ArithmeticError

Arithmetic(base, op, left, right) ==
  CASE Missing \in {left, right} -> Missing
    [] Null \in {left, right} -> Null
    [] OTHER -> CheckedArithmetic(base, op, left, right)

\* numeric_negate, numeric_abs.
NumericUnary(op, input) ==
  IF Absent(input) THEN input
  ELSE LET v == IF op = "negate" THEN -input ELSE Magnitude(input)
       IN  IF Fits("int", WideBits, v) THEN v ELSE ArithmeticError

\* cast_lossless: between integers a value stays what it is.
CastLossless(input, target) ==
  IF input = Null /\ ~ target.nullable THEN NullDatum ELSE input

EvalUnary(op, input, ty) ==
  CASE op = "not" -> Negate(input)
    [] op = "isNull" -> TruthOf(input = Null)
    [] op = "isMissing" -> TruthOf(input = Missing)
    [] op = "isPresent" -> TruthOf(input # Missing)
    [] op = "lift" -> input
    [] op = "cast" -> CastLossless(input, ty)
    [] op \in {"negate", "abs"} -> NumericUnary(op, input)

ArithmeticOps == {"add", "sub", "mul", "div", "rem"}
OrderOps == {"lt", "le", "gt", "ge"}
EqualityOps == {"eq", "ne", "isDistinctFrom", "isNotDistinctFrom"}

\* To be distinct (distinct_equality), absent data of one kind are alike.
EvalBinary(base, op, left, right) ==
  CASE op = "eq" -> CompareEquality(left, right)
    [] op = "ne" -> Negate(CompareEquality(left, right))
    [] op \in OrderOps -> CompareOrder(op, left, right)
    [] op = "and" -> And(left, right)
    [] op = "or" -> Or(left, right)
    [] op \in ArithmeticOps -> Arithmetic(base, op, left, right)
    [] op = "isDistinctFrom" -> TruthOf(left # right)
    [] op = "isNotDistinctFrom" -> TruthOf(left = right)
    [] op = "coalesce" -> IF Absent(left) THEN right ELSE left

\* The first match decides; failing one, a comparison that was not known.
EvalMembership(input, candidates, negate) ==
  LET equal == {CompareEquality(input, candidates[i]) : i \in DOMAIN candidates}
  IN  CASE True \in equal -> TruthOf(~ negate)
        [] True \notin equal /\ Unknown \in equal -> Unknown
        [] OTHER -> TruthOf(negate)

-----------------------------------------------------------------------------
(***************************************************************************)
(* Evaluation of a bound expression.  A context has one record for each    *)
(* scope, with its model, its data and whether it stands for the unmatched *)
(* side of an outer join; the value bound to the parameter; and, for each  *)
(* existential subquery, whether it has rows.                              *)
(***************************************************************************)
FirstFailure(data) ==
  LET failed == {i \in DOMAIN data : data[i] \in Failures}
  IN  data[CHOOSE i \in failed : \A j \in failed : i <= j]

\* The last part of evaluate_node: a null a field was extended with is let through.
CheckedNode(node, context, value) ==
  CASE value \in Failures \/ Conforms(node.ty, value) -> value
    [] node.kind = "field" /\ value = Null /\ node.lifted /\ context.records[node.scope].extended -> value
    [] value = Null -> NullDatum
    [] OTHER -> InvalidDatum

RECURSIVE EvaluateNode(_, _)
EvaluateNode(node, context) ==
  CheckedNode(node, context,
    CASE node.kind = "field" -> context.records[node.scope].data[node.name]
      [] node.kind = "exists" -> context.exists[node.subquery]
      [] node.kind = "literal" -> node.value
      [] node.kind = "parameter" ->
           IF context.bound.ty = node.ty THEN context.bound.datum ELSE UnboundParameter
      [] node.kind = "unary" ->
           LET input == EvaluateNode(node.input, context)
           IN  IF input \in Failures THEN input ELSE EvalUnary(node.op, input, node.ty)
      [] node.kind = "binary" ->
           LET left == EvaluateNode(node.left, context)
               right == EvaluateNode(node.right, context)
           IN  CASE left \in Failures -> left
                 [] node.op = "coalesce" /\ left \notin Failures /\ ~ Absent(left) -> left
                 [] OTHER -> IF right \in Failures THEN right
                             ELSE EvalBinary(node.left.ty.base, node.op, left, right)
      [] node.kind = "membership" ->
           LET data == <<EvaluateNode(node.input, context)>>
                         \o [i \in DOMAIN node.candidates |-> EvaluateNode(node.candidates[i], context)]
           IN  IF \E i \in DOMAIN data : data[i] \in Failures THEN FirstFailure(data)
               ELSE EvalMembership(Head(data), Tail(data), node.negate)
      [] node.kind = "conditional" ->
           LET condition == EvaluateNode(node.condition, context)
           IN  CASE condition \in Failures -> condition
                 [] condition = True -> EvaluateNode(node.whenTrue, context)
                 [] OTHER -> EvaluateNode(node.whenFalse, context))

\* validate_evaluation_scopes, against the models the expression was bound to.
EvaluateDatum(node, models, context) ==
  IF [i \in DOMAIN context.records |-> context.records[i].model] = models
  THEN EvaluateNode(node, context) ELSE ScopeMismatch

-----------------------------------------------------------------------------
(***************************************************************************)
(* validate_expression_node: the types of operands and results.            *)
(***************************************************************************)
NonNull(ty) == [ty EXCEPT !.nullable = FALSE]

Numeric(ty) == ty.base \in {"int", "uint"}

\* lossless_scalar_cast.
Lossless(source, target) ==
  \/ source.base = target.base /\ target.bits >= source.bits
  \/ source.base = "uint" /\ target.base = "int" /\ target.bits > source.bits

ValidUnary(op, input, ty) ==
  CASE op = "not" -> input = TruthType /\ ty = TruthType
    [] op \in {"isNull", "isMissing", "isPresent"} -> ty = TruthType
    [] op = "lift" -> ~ input.nullable /\ ty = [input EXCEPT !.nullable = TRUE]
    [] op = "cast" -> /\ input.nullable = ty.nullable /\ Numeric(input) /\ Numeric(ty)
                      /\ Lossless(input, ty)
    [] op \in {"negate", "abs"} -> input.base = "int" /\ ty = input

ValidBinary(op, left, right, ty) ==
  CASE op \in EqualityOps -> left = right /\ ty = TruthType
    [] op \in OrderOps -> left = right /\ left.base # "truth" /\ ty = TruthType
    [] op \in {"and", "or"} -> left = TruthType /\ right = TruthType /\ ty = TruthType
    [] op \in ArithmeticOps -> left = right /\ Numeric(left) /\ ty = left
    [] op = "coalesce" -> /\ left = right \/ (left.nullable /\ NonNull(left) = right)
                          /\ ty = right

Children(node) ==
  CASE node.kind \in {"field", "literal", "parameter", "exists"} -> <<>>
    [] node.kind = "unary" -> <<node.input>>
    [] node.kind = "binary" -> <<node.left, node.right>>
    [] node.kind = "membership" -> <<node.input>> \o node.candidates
    [] node.kind = "conditional" -> <<node.condition, node.whenTrue, node.whenFalse>>

ValidNode(node) ==
  CASE node.kind = "literal" -> node.value # Missing /\ Conforms(node.ty, node.value)
    [] node.kind \in {"field", "parameter", "exists"} -> TRUE
    [] node.kind = "unary" -> ValidUnary(node.op, node.input.ty, node.ty)
    [] node.kind = "binary" -> ValidBinary(node.op, node.left.ty, node.right.ty, node.ty)
    [] node.kind = "membership" ->
         /\ \A i \in DOMAIN node.candidates : node.candidates[i].ty = node.input.ty
         /\ node.ty = TruthType
    [] node.kind = "conditional" ->
         /\ node.condition.ty = TruthType
         /\ node.whenTrue.ty = node.whenFalse.ty /\ node.ty = node.whenTrue.ty

RECURSIVE ParameterTypes(_)
ParameterTypes(node) ==
  IF node.kind = "parameter" THEN {node.ty}
  ELSE UNION {ParameterTypes(Children(node)[i]) : i \in DOMAIN Children(node)}

RECURSIVE ValidTree(_)
ValidTree(node) ==
  ValidNode(node) /\ \A i \in DOMAIN Children(node) : ValidTree(Children(node)[i])

\* One parameter has one type wherever it is used.
ValidExpression(node) ==
  ValidTree(node) /\ \A t, u \in ParameterTypes(node) : t = u

\* check_expression_limits counts occurrences, not different nodes.
RECURSIVE Size(_)
Size(node) ==
  FoldLeft(LAMBDA sum, child : sum + Size(child), 1, Children(node))

RECURSIVE Depth(_)
Depth(node) ==
  1 + FoldLeft(LAMBDA deepest, child : IF Depth(child) > deepest THEN Depth(child) ELSE deepest,
               0, Children(node))

WithinLimits(node, limits) == Size(node) <= limits.maxNodes /\ Depth(node) <= limits.maxDepth

-----------------------------------------------------------------------------
(***************************************************************************)
(* normalize_node.  A folding that fails makes the whole normalization     *)
(* fail.                                                                   *)
(***************************************************************************)
FailedNode == [kind |-> "failed"]

Folded(ty, value) ==
  IF value \in Failures THEN FailedNode ELSE [kind |-> "literal", ty |-> ty, value |-> value]

IsLiteral(node) == node.kind = "literal"

\* Mutation: the operand is inspected as it was authored.
NormalizeUnary_TooEarly(node, input) ==
  CASE node.op = "not" /\ input.kind = "unary" /\ input.op = "not" -> input.input
    [] IsLiteral(node.input) -> Folded(node.ty, EvalUnary(node.op, input.value, node.ty))
    [] OTHER -> [node EXCEPT !.input = input]

NormalizeUnary(node, input) ==
  CASE node.op = "not" /\ input.kind = "unary" /\ input.op = "not" -> input.input
    [] IsLiteral(input) -> Folded(node.ty, EvalUnary(node.op, input.value, node.ty))
    [] OTHER -> [node EXCEPT !.input = input]

NormalizeBinary(node, left, right) ==
  IF IsLiteral(left) /\ IsLiteral(right)
  THEN Folded(node.ty, EvalBinary(left.ty.base, node.op, left.value, right.value))
  ELSE [node EXCEPT !.left = left, !.right = right]

\* The candidates in the order of their fingerprints: whatever that order is, it
\* depends on the candidates alone.
Canonical(candidates) ==
  CHOOSE sorted \in
    {[i \in DOMAIN candidates |-> candidates[p[i]]] :
       p \in {q \in [DOMAIN candidates -> DOMAIN candidates] :
                \A i, j \in DOMAIN candidates : i # j => q[i] # q[j]}} : TRUE

NormalizeMembership(node, input, candidates) ==
  IF IsLiteral(input) /\ \A i \in DOMAIN candidates : IsLiteral(candidates[i])
  THEN Folded(node.ty, EvalMembership(input.value, [i \in DOMAIN candidates |-> candidates[i].value],
                                      node.negate))
  ELSE [node EXCEPT !.input = input, !.candidates = Canonical(candidates)]

\* Mutation: an unknown condition selects the first branch.
SelectedBranch_Unknown(node, condition) ==
  IF condition.value = False THEN node.whenFalse ELSE node.whenTrue

SelectedBranch(node, condition) ==
  IF condition.value = True THEN node.whenTrue ELSE node.whenFalse

RECURSIVE Normalize(_)
Normalize(node) ==
  CASE node.kind \in {"field", "literal", "parameter", "exists"} -> node
    [] node.kind = "unary" ->
         LET input == Normalize(node.input)
         IN  IF input = FailedNode THEN FailedNode ELSE NormalizeUnary(node, input)
    [] node.kind = "binary" ->
         LET left == Normalize(node.left)
             right == Normalize(node.right)
         IN  CASE left = FailedNode -> FailedNode
               [] left # FailedNode /\ node.op = "coalesce" /\ IsLiteral(left) ->
                    IF Absent(left.value) THEN right ELSE [left EXCEPT !.ty = node.ty]
               [] OTHER -> IF right = FailedNode THEN FailedNode ELSE NormalizeBinary(node, left, right)
    [] node.kind = "membership" ->
         LET input == Normalize(node.input)
             candidates == [i \in DOMAIN node.candidates |-> Normalize(node.candidates[i])]
         IN  IF input = FailedNode \/ \E i \in DOMAIN candidates : candidates[i] = FailedNode
             THEN FailedNode ELSE NormalizeMembership(node, input, candidates)
    [] node.kind = "conditional" ->
         LET condition == Normalize(node.condition)
             whenTrue == Normalize(node.whenTrue)
             whenFalse == Normalize(node.whenFalse)
         IN  CASE condition = FailedNode -> FailedNode
               [] condition # FailedNode /\ IsLiteral(condition) ->
                    Normalize(SelectedBranch(node, condition))
               [] OTHER -> IF FailedNode \in {whenTrue, whenFalse} THEN FailedNode
                           ELSE [node EXCEPT !.condition = condition, !.whenTrue = whenTrue,
                                             !.whenFalse = whenFalse]

-----------------------------------------------------------------------------
(***************************************************************************)
(* Binding to scopes.  A scope has a model, an alias or none, and may be   *)
(* the nullable side of an outer join: there a field whose type has no     *)
(* null is read under a lift only.                                         *)
(***************************************************************************)

\* resolve_field: the scopes a field may mean.
Resolved(node, scopes) ==
  {i \in DOMAIN scopes : scopes[i].model = node.model /\ node.alias \in {NoAlias, scopes[i].alias}}

\* Mutation: an unlifted field of a nullable scope is accepted.
BindsField_Anywhere(node, scopes, lifted) == Cardinality(Resolved(node, scopes)) = 1

BindsField(node, scopes, lifted) ==
  /\ Cardinality(Resolved(node, scopes)) = 1
  /\ \A i \in Resolved(node, scopes) : scopes[i].nullable /\ ~ node.ty.nullable => lifted

RECURSIVE Binds(_, _, _)
Binds(node, scopes, lifted) ==
  IF node.kind = "field" THEN BindsField(node, scopes, lifted)
  ELSE \A i \in DOMAIN Children(node) :
         Binds(Children(node)[i], scopes, node.kind = "unary" /\ node.op = "lift")

BoundField(node, scopes, lifted) ==
  LET scope == CHOOSE i \in Resolved(node, scopes) : TRUE
  IN  [node EXCEPT !.scope = scope,
                   !.lifted = scopes[scope].nullable /\ ~ node.ty.nullable /\ lifted]

RECURSIVE Bound(_, _, _)
Bound(node, scopes, lifted) ==
  CASE node.kind = "field" -> BoundField(node, scopes, lifted)
    [] node.kind \in {"literal", "parameter", "exists"} -> node
    [] node.kind = "unary" -> [node EXCEPT !.input = Bound(@, scopes, node.op = "lift")]
    [] node.kind = "binary" ->
         [node EXCEPT !.left = Bound(@, scopes, FALSE), !.right = Bound(@, scopes, FALSE)]
    [] node.kind = "membership" ->
         [node EXCEPT !.input = Bound(@, scopes, FALSE),
                      !.candidates = [i \in DOMAIN node.candidates |->
                                        Bound(node.candidates[i], scopes, FALSE)]]
    [] node.kind = "conditional" ->
         [node EXCEPT !.condition = Bound(@, scopes, FALSE), !.whenTrue = Bound(@, scopes, FALSE),
                      !.whenFalse = Bound(@, scopes, FALSE)]

RejectedNode == [kind |-> "rejected"]

Bindable(node, scopes, result) ==
  ValidExpression(result) /\ result.ty = node.ty /\ Binds(result, scopes, FALSE)

\* A normalized expression, if it can be bound.
Normalized(node, scopes, result) ==
  IF result = FailedNode \/ Bindable(node, scopes, result) THEN result ELSE RejectedNode

\* prepare_expression up to binding: the normal form, or why there is none.
NormalForm(node, limits, scopes) ==
  IF WithinLimits(node, limits) /\ ValidExpression(node) THEN Normalized(node, scopes, Normalize(node))
  ELSE RejectedNode
=============================================================================
