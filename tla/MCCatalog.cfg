\* Two cities, two extracts, one run; four records, pages of two, batches of two.
CONSTANTS
  here = here
  there = there
  r1 = r1
  None = None
  City = {here, there}
  LastVersion <- MCLastVersion
  Ways <- MCWays
  Run = {r1}
  CityOf <- MCCityOf
  Covered = here
  Years = 2
  Layer <- MCLayer
  Located <- MCLocated
  At <- MCAt
  PageSize = 2
  BatchSize = 2
SPECIFICATION Spec
INVARIANTS
  TypeOK
  StampIsWhole
  CompletedRunIsConsistent
  IncidentsAreComplete
