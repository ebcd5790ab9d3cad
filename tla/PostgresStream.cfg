SPECIFICATION FairSpec
CONSTANTS
  Results <- MCResults
  Options <- MCOptions
  Unlimited = Unlimited
  MaxFetch = 2
  Faults = {"open", "initialize", "server", "panic"}
INVARIANTS
  TypeOK
PROPERTIES
  ImplementsPullStream
  WorkerStaysWhileNeeded
  PullReturns
  ConnectionIsReleased
