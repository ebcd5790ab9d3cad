SPECIFICATION Spec
CONSTANTS
  Missing = Missing
  Null = Null
  True = True
  False = False
  Unknown = Unknown
  ArithmeticError = ArithmeticError
  InvalidDatum = InvalidDatum
  NullDatum = NullDatum
  UnboundParameter = UnboundParameter
  ScopeMismatch = ScopeMismatch
  ExecutionFailures = {}
  NoAlias = NoAlias
  OnlyModel = OnlyModel
  WideBits = 3
  Seeds <- MCSeeds
  Operands <- MCOperands
  Conditions <- MCConditions
  Targets <- MCTargets
  MaxOperators = 2
  Limits <- MCLimits
  Contexts <- MCContexts
INVARIANTS
  TypeOK
  NormalizationPreservesValues
  NormalFormIsStable
