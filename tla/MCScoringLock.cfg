\* Three invocations and three pids: a pid can come back after its owner
\* died, and a third invocation can meet two that are in the acquire loop.
CONSTANTS
  Wrapper = {w1, w2, w3}
  Pid = {p1, p2, p3}
  NoPid = NoPid
  NoFile = NoFile
SPECIFICATION FairSpec
INVARIANTS
  TypeOK
  ExclusiveUnlessReclaimed
  NoLeakedLock
  NotAllTurnedAway
PROPERTIES
  EveryInvocationEnds
  StaleLockIsReclaimed
CHECK_DEADLOCK FALSE
