\* Fixed and growable queues; realloc may return NULL.
\* A queue stops where the code has no defined behaviour.
SPECIFICATION FairSpec
CONSTANTS
  m1 = m1
  m2 = m2
  m3 = m3
  m4 = m4
  m5 = m5
  m6 = m6
  NULL = NULL
  Msg <- MCMsg
  Due <- MCDue
  Capacities = {1, 4}
  ReallocFails = TRUE
INVARIANT HeapInv
INVARIANT HeapOrdered
INVARIANT Fits
INVARIANT LostOnlyWhenFull
PROPERTY ImplementsQueue
PROPERTY CallsReturn
CHECK_DEADLOCK FALSE
