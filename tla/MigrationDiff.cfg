SPECIFICATION Spec
CONSTANTS
  EntityKeys = {1, 2, 3}
  FieldKeys = {1, 2}
  IndexKeys = {1}
  Names = {"a", "b", "c", "x", "y"}
  Types = {"int", "text"}
  Migrators = {m1}
  NoOne = NoOne
  Initial <- Everything
  Targets <- EveryTarget
  Drifts <- MCDrifts
  MaxDrifts = 0
  MaxPlans = 1
  StepLimits = {10}
  Policies <- MCPermissive
  Faults = {}
INVARIANTS
  PlansConverge
CHECK_DEADLOCK FALSE
