\* Messages, typed or not, whole or cut: the dump, and any reads in any order.
SPECIFICATION Spec
CONSTANTS
  Args <- MCArgs
  MaxArgs = 3
  AddrWords = {1, 2}
  NULL = NULL
  Cut = TRUE
  HighTags <- MCHighTags
  Around <- MCAround
  MaxBack = 2
INVARIANT DumpsArgs
 
INVARIANT NullReadAtAddressOnly
