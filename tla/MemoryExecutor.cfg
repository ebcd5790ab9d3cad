SPECIFICATION Spec
CONSTANTS
  Missing = Missing
  Null = Null
  True = True
  False = False
  Unknown = Unknown
  ArithmeticError = ArithmeticError
  InvalidDatum = InvalidDatum
  NullDatum = NullDatum
  UnboundParameter = UnboundParameter
  ScopeMismatch = ScopeMismatch
  MissingDatum = MissingDatum
  RowLimit = RowLimit
  ByteLimit = ByteLimit
  TooDeep = TooDeep
  ExecutionFailures = {MissingDatum, RowLimit, ByteLimit, TooDeep}
  PlanLimit = PlanLimit
  TimedOut = TimedOut
  None = None
  NoAlias = NoAlias
  WideBits = 4
  CountBits = 3
  Unbounded = 8
  MaxExistentialDepth = 2
  MaxStages = 2
  Models <- MCModels
  PipelineLimits <- MCPipelineLimits
  Sources <- MCSources
  Others <- MCOthers
  Conditions <- MCConditions
  JoinConditions <- MCJoinConditions
  Projections <- MCProjections
  Reductions <- MCReductions
  Windows <- MCWindows
  SortExpressions <- MCSortExpressions
  Slices <- MCSlices
  Databases <- MCDatabases
  Options <- MCOptions
  BoundParameter <- MCBoundParameter
INVARIANTS
  TypeOK
  OptimizationPreservesResults
  StagesAreRelational
  CompilerPromisesHold
PROPERTIES
  ImplementsPullStream
