\* One attempt and two starts are enough.
CONSTANTS
  c1 = c1
  c2 = c2
  City = {c1, c2}
  Cities <- MCCities
  Retries = 1
  MaxStarts = 2
SPECIFICATION Spec
INVARIANT RerunPicksUpUnfinished
CHECK_DEADLOCK FALSE
