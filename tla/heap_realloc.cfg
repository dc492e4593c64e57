\* realloc may return NULL: the queue is lost.
SPECIFICATION Spec
CONSTANTS
  m1 = m1
  m2 = m2
  m3 = m3
  m4 = m4
  m5 = m5
  m6 = m6
  NULL = NULL
  Msg <- MCFewMsg
  Due <- MCFewDue
  Capacities = {1, 2}
  ReallocFails = TRUE
INVARIANT HeadReachable
CHECK_DEADLOCK FALSE
