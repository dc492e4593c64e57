SPECIFICATION RSpec
CONSTANTS
  Len32 = 44
  StrLens = {3}
  BlobLens = {0}
  MaxArgs = 1
  Bundles = TRUE
  Careless = FALSE
  MaxPackets = 2
  MaxPos = 44
  BigEndian = TRUE
  Datagrams <- NoDatagrams
INVARIANT ReadsBack
