SPECIFICATION Spec
CHECK_DEADLOCK FALSE
CONSTANTS
  Missing = Missing
  Null = Null
  True = True
  False = False
  Unknown = Unknown
  ArithmeticError = ArithmeticError
  InvalidDatum = InvalidDatum
  NullDatum = NullDatum
  UnboundParameter = UnboundParameter
  ScopeMismatch = ScopeMismatch
  MissingDatum = MissingDatum
  RowLimit = RowLimit
  ByteLimit = ByteLimit
  TooDeep = TooDeep
  ServerError = ServerError
  ExecutionFailures = {MissingDatum, RowLimit, ByteLimit, TooDeep, ServerError}
  None = None
  NoAlias = NoAlias
  SqlNull = SqlNull
  WideBits = 4
  CountBits = 3
  Unbounded = 8
  MaxExistentialDepth = 2
  MaxSlice = 8
  Target = "C"
  Known = {"D"}
  Engines = {"postgres", "mongodb"}
  Models <- MCModels
  PipelineLimits <- MCPipelineLimits
  EngineLimits <- MCEngineLimits
  Requests <- MCRequests
  Databases <- MCDatabases
  Policies <- MCPolicies
  Definitions <- MCDefinitions
  Mappings <- MCMappings
  Layout <- MCLayout
  Corruptions <- MCCorruptions
INVARIANTS
  TypeOK
  LoweringIsExact
  PlacedPlansCompile
  ContractIsExact
