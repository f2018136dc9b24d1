CONSTANTS
  None = None
  Infinite = Infinite
  Numbers <- MCNumbers
  Secret = "key"
  Deliveries <- MCDeliveries
  InboxCap = 2
  MaxDeliveries = 4
SPECIFICATION MCSpec
CHECK_DEADLOCK FALSE
INVARIANTS
  TextIsItsObject
  UselessValuesAreSkipped
  NewestAccepted
  HeaderOwnsTheSignal
