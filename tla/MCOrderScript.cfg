CONSTANTS
  None = None
  Leverages = {5, 10}
  MaxRuns = 3
SPECIFICATION Spec
PROPERTIES
  SuccessIsOneOrder
  OrderAtItsLeverage
