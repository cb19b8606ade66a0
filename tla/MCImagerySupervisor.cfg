\* Two cities with two attempts each and three starts: a kill in the first
\* and the second, and a third supervisor that meets what both left.
CONSTANTS
  c1 = c1
  c2 = c2
  City = {c1, c2}
  Cities <- MCCities
  Retries = 2
  MaxStarts = 3
SPECIFICATION FairSpec
INVARIANTS
  TypeOK
  BudgetKept
  DoneIsEarned
  ExitZeroMeansAllDone
PROPERTIES
  DoneStaysDone
  SupervisorEnds
CHECK_DEADLOCK FALSE
