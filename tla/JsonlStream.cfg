SPECIFICATION SourceSpec
CONSTANTS
  Files <- MCFiles
  Appended <- MCAppended
  MaxLines = 4
  Plans <- MCPlans
  Options <- MCOptions
  Unlimited = Unlimited
  EvalError = EvalError
  Names = {"users", "other", "outside"}
  Root = {"users", "other"}
  BoundName = "users"
  Inodes = {1, 2, 3}
  Directory <- MCDirectory
  Disturbed <- MCDisturbed
  MaxReplacements = 3
  Faults = {"read"}
INVARIANTS
  TypeOK
  SourceIsPinned
PROPERTIES
  ImplementsPullStream
