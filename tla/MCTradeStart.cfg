CONSTANTS
  None = None
  Clauses <- MCClauses
  Alerts <- MCAlerts
  MaxClauses = 2
SPECIFICATION Spec
INVARIANTS
  NoPassWithoutEvidence
  FewerClausesStillPass
  OppositesExclude
