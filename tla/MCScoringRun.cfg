\* A Phase 4 run and a streaming run, two segments and three hours:
\* six cells in three full batches, or three cells in a full and a short one
\* when the run read one segment, or none.  Two workers for three hours: the
\* third call waits for one of the others.
CONSTANTS
  Run = {r1, r2}
  Segment = {s1, s2}
  Hours = 3
  BatchSize = 2
  Workers = 2
  Streaming = {r2}
SPECIFICATION FairSpec
INVARIANTS
  TypeOK
  OncePerCell
  CommittedPrefix
  DoneIsComplete
PROPERTIES
  HourlySpec
  EveryRunEnds
CHECK_DEADLOCK FALSE
