\* Two packets of any calls, careless ones too, in a buffer that some overrun, the
\* second in the whole buffer or in what the first has left of it.  What careful
\* callers complete is dumped, and so are the datagrams of others.
SPECIFICATION RSpec
CONSTANTS
  Len32 = 40
  StrLens = {0, 4}
  BlobLens = {5}
  MaxArgs = 1
  Bundles = TRUE
  Careless = TRUE
  MaxPackets = 2
  MaxPos = 40
  BigEndian = TRUE
  Datagrams <- MCDatagrams
INVARIANT WriterInv
INVARIANT BundleReadsBack
INVARIANT DumpInside
PROPERTY WriteOnce
PROPERTY DumpReturns
