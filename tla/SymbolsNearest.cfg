SPECIFICATION Spec
CONSTANTS
  Contents <- MCContents
  Addresses <- MCAddresses
  AddrMod = 8
  Torn <- MCTorn
  MaxReads = 3
  MaxRewrites = 0
INVARIANT FindsNearest
CHECK_DEADLOCK FALSE
