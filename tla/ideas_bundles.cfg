\* Up to three calls on a bundle in buffers of which two are too small to start one,
\* and messages of their own; what is sent arrives whole or cut.
SPECIFICATION RSpec
CONSTANTS
  BigEndian = FALSE
  BufferSizes = {4, 12, 96}
  Messages <- MCMessages
  Sources = {2}
  AliveIds = {0, 7}
  MaxAlive = 2
  MaxCalls = 3
  NULL = NULL
INVARIANT WithinBuffer
INVARIANT LenIsPacket
INVARIANT OneReadsBack
PROPERTY OneIsRead
\* The receiver stops at the end of a packet.
CHECK_DEADLOCK FALSE
