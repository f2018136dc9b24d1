CONSTANTS
  None = None
  o1 = o1
  o2 = o2
  PublicOwner = o1
  KeyText <- MCKeyText
  Owners <- MCOwners
  Clocks <- MCClocks
  Prices <- MCPrices
  PurgeRequests <- MCPurges
  Signals <- LifeSignals
  Policies <- LifePolicies
  Symbols <- TwoSymbols
  AutoDispatch = FALSE
  JobsCap = 3
  AuditCap = 1
  MaxJobs = 4
  MaxDays = 1
  MinQty = 1
  Grain = 2
SPECIFICATION Spec
INVARIANTS
  TypeOK
  FilledAtMostOnce
  OpenWithinLimits
PROPERTIES
  OnlyTheCallersTouched
  EvictsOldestWhenFull
