SPECIFICATION Spec
CONSTANTS
  Contents <- MCContents
  Addresses <- MCAddresses
  AddrMod = 8
  Torn <- MCTorn
  MaxReads = 3
  MaxRewrites = 1
INVARIANTS TypeOK TableIsOfOneContent NearestIsSound FoundUnlessLast
CHECK_DEADLOCK FALSE
