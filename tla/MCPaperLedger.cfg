CONSTANTS
  None = None
  o1 = o1
  o2 = o2
  PublicOwner = public
  KeyText <- MCKeyText
  Owners <- MCOwners
  Symbols <- MCSymbols
  Signals <- MCSignals
  Prices <- MCPrices
  MinQty = 2
  Grain = 2
  MaxFills = 3
SPECIFICATION Spec
INVARIANTS
  BookMatchesFills
  ProfitConserved
  MarkBelongsToPosition
