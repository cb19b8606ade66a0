\* Two jobs of one city or of both, one after the other or in any
\* overlap; one batch is full and the last one is not.
CONSTANTS
  c1 = c1
  c2 = c2
  s1 = s1
  s2 = s2
  s3 = s3
  i1 = i1
  i2 = i2
  i3 = i3
  City = {c1, c2}
  Segment = {s1, s2, s3}
  Image = {i1, i2, i3}
  Waypoints <- MCWaypoints
  BatchSize = 2
  MaxJobs = 2
SPECIFICATION FairSpec
INVARIANTS
  TypeOK
  RowHasObject
  SuccessMeansStored
  UploadedOnce
PROPERTIES
  EveryJobEnds
CHECK_DEADLOCK FALSE
