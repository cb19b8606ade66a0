\* Two runs of one city, two segments of which one is also in the other
\* city's box, three hours, one client that asks for the first or the second
\* page of one row.
CONSTANTS
  run1 = run1
  run2 = run2
  here = here
  there = there
  Run = {run1, run2}
  City = {here, there}
  CityOf <- MCCityOf
  DayOf <- MCDayOf
  Segment = {1, 2}
  WaysOf <- MCWaysOf
  Hours = 3
  TargetHour = 1
  PageSize = 1
  Pages = {1, 2}
  Client = {q}
  NoCity = NoCity
  NoRun = NoRun
  Grain = 1
  CosSquared <- MCCosSquared
  Attenuation <- MCAttenuation
  Spatial <- MCSpatial
  Recency <- MCRecency
SPECIFICATION Spec
INVARIANTS
  TypeOK
  NeverDisappears
  ShortPageIsLast
  KeptDeltaStaysRight
  MapAgreesWithApi
