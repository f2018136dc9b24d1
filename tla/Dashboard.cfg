SPECIFICATION PageSpec
CONSTANTS
  Nobody = Nobody
  Idle = Idle
  Owners = {"ann", "bob"}
  OwnerOf <- BothAnns
  ListLimit = 2
  MaxTasks = 2
  AutoRefresh = TRUE
  MaxTroubles = 1
INVARIANT BulkIsThorough
PROPERTY Converges
