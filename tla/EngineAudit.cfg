CONSTANTS
  None = None
  o1 = o1
  o2 = o2
  PublicOwner = o1
  KeyText <- MCKeyText
  Owners <- OneOwner
  Clocks <- MCClocks
  Prices <- NoPrices
  PurgeRequests <- NoPurges
  Signals <- GuardSignals
  Policies <- GuardPolicies
  Symbols <- OneSymbol
  AutoDispatch = TRUE
  JobsCap = 2
  AuditCap = 3
  MaxJobs = 3
  MaxDays = 2
  MinQty = 1
  Grain = 2
SPECIFICATION Spec
INVARIANTS
  AuditExplainsStatus
  AuditIsAPath
  LossGuardSeesToday
PROPERTIES
  NoAdmissionPastLossLimit
  ImplementsLifecycle
