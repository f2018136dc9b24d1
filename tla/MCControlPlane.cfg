CONSTANTS
  None = None
  o1 = o1
  o2 = o2
  c1 = c1
  c2 = c2
  p1 = p1
  p2 = p2
  Owners <- MCOwners
  ConnIds <- MCConnIds
  PlanIds <- MCPlanIds
  Names <- MCNames
  Pairs <- MCPairs
  ConnChanges <- MCConnChanges
  PlanChanges <- MCPlanChanges
  NewPlans <- MCNewPlans
  Stored <- MCStored
  MaxRequests = 3
SPECIFICATION Spec
CHECK_DEADLOCK FALSE
INVARIANTS
  NoForgottenPlan
PROPERTIES
  DeletionIsFinal
  NoLostUpdate
  OwnersOnly
