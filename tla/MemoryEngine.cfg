SPECIFICATION FairSpec
CONSTANTS
  Keys <- MCKeys
  Fields <- MCFields
  Values <- MCValues
  DatumBytes <- MCDatumBytes
  Defs <- MCDefs
  Writes <- MCWrites
  Limits <- MCLimits
  TxLimits <- MCTxLimits
  Loads <- MCLoads
  Null = Null
  Missing = Missing
  EvalError = EvalError
  Unlimited = Unlimited
  Readers = {r1, r2}
INVARIANTS
  TypeOK
  ValidatedSound
  ReadersSeeValidTables
  CandidateWithinLimits
PROPERTIES
  ImplementsAtomicStore
  WriteReturns
