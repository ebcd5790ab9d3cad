SPECIFICATION Spec
CONSTANTS
  EntityKeys = {1, 2, 3}
  FieldKeys = {1, 2}
  IndexKeys = {1}
  Names = {"a", "b", "x", "y"}
  Types = {"int", "text"}
  Migrators = {m1}
  NoOne = NoOne
  Initial <- SwapInitial
  Targets <- SwapTargets
  Drifts <- MCDrifts
  MaxDrifts = 0
  MaxPlans = 1
  StepLimits = {10}
  Policies <- MCPermissive
  Faults = {}
INVARIANTS
  FreshPlansConverge
CHECK_DEADLOCK FALSE
