\* Two attempts and two supervisors: a child left behind by the first runs
\* beside those of the second.  MaxJobs is never reached.
CONSTANTS
  c1 = c1
  s1 = s1
  i1 = i1
  i2 = i2
  City = {c1}
  Cities <- MCCities
  Segment = {s1}
  Image = {i1, i2}
  Waypoints <- MCWaypoints
  BatchSize = 1
  MaxJobs = 5
  Retries = 2
  MaxStarts = 2
SPECIFICATION PipelineFairSpec
INVARIANT DoneMeansStored
PROPERTIES
  SupervisorSpec
  SupervisorEnds
CHECK_DEADLOCK FALSE
