CONSTANTS
  work = work
  scrape = scrape
  None = None
  Routes <- MCRoutes
  ScrapeRoutes <- MCScrapeRoutes
  Durations <- MCDurations
  Codes <- MCCodes
  WindowSize = 3
  MaxSamples = 4
  Unhandled = 500
  MaxRequests = 4
SPECIFICATION HttpSpec
CHECK_DEADLOCK FALSE
INVARIANTS
  CountersAreTheAnswered
  TotalsNeverFall
  P95BoundsTheTail
  ExtremesOfTheHistory
