------------------------ MODULE MCPreparedExpression ------------------------
(***************************************************************************)
(* Integers of two bits, in an arithmetic of three, with and without null, *)
(* unsigned ones and truth values; two operators on top of a leaf or of a  *)
(* comparison.                                                             *)
(***************************************************************************)
EXTENDS PreparedExpression

I2 == [base |-> "int", bits |-> 2, nullable |-> FALSE]
I3 == [I2 EXCEPT !.bits = 3]
N2 == [I2 EXCEPT !.nullable = TRUE]
U2 == [I2 EXCEPT !.base = "uint"]

Lit(ty, v) == [kind |-> "literal", ty |-> ty, value |-> v]
Fld(ty, n) ==
  [kind |-> "field", ty |-> ty, model |-> OnlyModel, alias |-> NoAlias, name |-> n, scope |-> 0,
   lifted |-> FALSE]
Par(ty) == [kind |-> "parameter", ty |-> ty]

Tru(v) == Lit(TruthType, v)

Compare(op, left, right) == BinaryExpression(op, left, right)

Numbers == {Lit(I2, 1), Lit(I2, -2), Fld(I2, "f"), Lit(N2, Null), Fld(N2, "n"), Lit(U2, 3)}

MCConditions ==
  {Tru(True), Tru(Unknown), Compare("eq", Fld(N2, "n"), Lit(N2, 1)), Compare("lt", Fld(I2, "f"), Lit(I2, 1))}

\* Operands of different types, and two types for one parameter.
Mistyped ==
  {Compare("add", Lit(I2, 1), Lit(N2, 1)), Compare("and", Lit(I2, 1), Tru(True)),
   Compare("eq", Fld(U2, "u"), Fld(I2, "f")),
   Compare("and", Compare("eq", Par(I2), Par(I2)), Compare("eq", Par(N2), Par(N2)))}

MCSeeds == UNION {Numbers, {Lit(N2, 1), Par(I2), Fld(U2, "u"), Tru(False)}, MCConditions, Mistyped}

MCOperands == {Lit(I2, 1), Lit(I2, -2), Lit(N2, Null), Fld(N2, "n"), Lit(U2, 3), Tru(Unknown)}

MCTargets == {I2, I3}

MCLimits == {[maxNodes |-> 5, maxDepth |-> 4]}

Context(f, n, u, extended, ty, datum) ==
  [records |-> <<[model |-> OnlyModel, data |-> [f |-> f, n |-> n, u |-> u], extended |-> extended]>>,
   bound |-> [ty |-> ty, datum |-> datum], exists |-> <<>>]

MCContexts ==
  {Context(-2, Missing, 0, FALSE, I2, -1), Context(1, Null, 0, FALSE, I2, -1),
   Context(-2, 1, 0, FALSE, I2, -1), Context(0, 0, 3, FALSE, N2, Null),
   Context(Null, Null, Null, TRUE, I2, 0)}
=============================================================================
