CONSTANTS
  Configs <- MCConfigs
  Prices <- MCPrices
  Whole = 4
  Unit = 2
  MaxTicks = 4
SPECIFICATION SimulationSpec
CHECK_DEADLOCK FALSE
INVARIANTS
  FilledAreTheReached
  ClosesForItsReason
  AveragingPays
  ProfitIsThatOfTheOrders
