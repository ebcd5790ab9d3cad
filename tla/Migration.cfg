SPECIFICATION FairSpec
CONSTANTS
  EntityKeys = {1, 2}
  FieldKeys = {1, 2}
  IndexKeys = {1}
  Names = {"a", "b", "x", "y"}
  Types = {"int", "text"}
  Migrators = {m1, m2}
  NoOne = NoOne
  Initial <- MCInitial
  Targets <- MCTargets
  Drifts <- MCDrifts
  MaxDrifts = 1
  MaxPlans = 2
  StepLimits = {0, 4}
  Policies <- MCPolicies
  Faults = {"begin", "inspect", "step", "commit", "abort"}
INVARIANTS
  TypeOK
  LockedStepsAreJustified
PROPERTIES
  OnlyWholeMigrations
  ReportsAreTrue
  LockIsReleased
CHECK_DEADLOCK FALSE
