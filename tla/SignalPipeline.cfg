CONSTANTS
  None = None
  o1 = o1
  o2 = o2
  c1 = c1
  c2 = c2
  p1 = p1
  p2 = p2
  Owners <- MCOwners
  ConnIds <- MCConnIds
  PlanIds <- MCPlanIds
  Names <- MCNames
  Pairs <- MCPairs
  ConnChanges <- MCConnChanges
  PlanChanges <- MCPlanChanges
  NewPlans <- NoNewPlans
  Stored <- MCStored
  Signals <- MCSignals
  InboxCap = 1
  MaxRequests = 2
  MaxSignals = 2
SPECIFICATION FairPipelineSpec
INVARIANTS
  JudgedByOwnPlan
PROPERTIES
  JudgedByRunnablePlan
  NoBetterPlanPassedOver
  EverySignalIsDecided
