\* Two invocations with two pids are enough for two scoring processes at once.
CONSTANTS
  Wrapper = {w1, w2}
  Pid = {p1, p2}
  NoPid = NoPid
  NoFile = NoFile
SPECIFICATION Spec
SYMMETRY Symmetry
INVARIANT NoOverlap
CHECK_DEADLOCK FALSE
