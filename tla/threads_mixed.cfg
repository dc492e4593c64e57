\* Each of the four functions, a bounded queue, spurious wakeups.
\* Threads stop when their script or their one call is over.
SPECIFICATION Spec
CONSTANTS
  p1 = p1
  p2 = p2
  c1 = c1
  c2 = c2
  c3 = c3
  c4 = c4
  m1 = m1
  m2 = m2
  m3 = m3
  NULL = NULL
  Msg <- MCMsg
  Due <- MCDue
  Producers = {p1, p2}
  Consumers <- MixedConsumers
  Script <- MixedScript
  Call <- MixedCall
  Loops <- MixedLoops
  Threshold = 1
  Capacity = 2
  Growable = FALSE
  Spurious = TRUE
  MaxTime = 2
INVARIANT ThreadsInv
INVARIANT LockHeldInside
INVARIANT TakeReturnsMessage
INVARIANT NeverEarly
INVARIANT EachInOnePlace
CHECK_DEADLOCK FALSE
