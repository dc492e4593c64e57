\* Two threads that call take_s once each: the signal that is not sent.
SPECIFICATION FairSpec
CONSTANTS
  p1 = p1
  p2 = p2
  c1 = c1
  c2 = c2
  c3 = c3
  c4 = c4
  m1 = m1
  m2 = m2
  m3 = m3
  NULL = NULL
  Msg <- MCMsg
  Due <- MCDue
  Producers = {p1}
  Consumers <- OneShotConsumers
  Script <- MainScript
  Call <- OneShotCall
  Loops = {}
  Threshold = 0
  Capacity = 1
  Growable = TRUE
  Spurious = FALSE
  MaxTime = 0
PROPERTY WaitEnds
CHECK_DEADLOCK FALSE
