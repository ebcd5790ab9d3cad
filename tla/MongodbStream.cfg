SPECIFICATION CollectSpec
CONSTANTS
  Results <- MCResults
  Options <- MCOptions
  Unlimited = Unlimited
  CollectLimits <- MCCollectLimits
  MaxFetch = 2
  Faults = {"open", "server"}
INVARIANTS
  TypeOK
  ConnectionIsReleased
  CollectionIsExact
PROPERTIES
  ImplementsPullStream
