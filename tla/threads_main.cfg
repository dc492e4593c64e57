\* main.c: one producer in due order, three consumers of due messages.
\* When every message is taken the consumers wait for ever, as in main.c.
SPECIFICATION FairSpec
CONSTANTS
  p1 = p1
  p2 = p2
  c1 = c1
  c2 = c2
  c3 = c3
  c4 = c4
  m1 = m1
  m2 = m2
  m3 = m3
  NULL = NULL
  Msg <- MCMsg
  Due <- MCDue
  Producers = {p1}
  Consumers <- MainConsumers
  Script <- MainScript
  Call <- MainCall
  Loops <- MainConsumers
  Threshold = 0
  Capacity = 1
  Growable = TRUE
  Spurious = FALSE
  MaxTime = 2
INVARIANT SomeoneAwake
INVARIANT TakenInOrder
PROPERTY ImplementsDelivery
PROPERTY DeliversAll
PROPERTY WaitEnds
CHECK_DEADLOCK FALSE
