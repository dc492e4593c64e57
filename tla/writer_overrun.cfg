\* A string of 4 characters in the last 4 bytes of the buffer.
SPECIFICATION Spec
CONSTANTS
  Len32 = 16
  StrLens = {4}
  BlobLens = {}
  MaxArgs = 1
  Bundles = FALSE
  Careless = FALSE
  MaxPackets = 1
  MaxPos = 16
INVARIANT WithinBuffer
