\* One attempt is enough.
CONSTANTS
  c1 = c1
  s1 = s1
  i1 = i1
  i2 = i2
  City = {c1}
  Cities <- MCCities
  Segment = {s1}
  Image = {i1, i2}
  Waypoints <- MCWaypoints
  BatchSize = 1
  MaxJobs = 5
  Retries = 1
  MaxStarts = 1
SPECIFICATION PipelineSpec
INVARIANT ServerErrorsAreRetried
CHECK_DEADLOCK FALSE
