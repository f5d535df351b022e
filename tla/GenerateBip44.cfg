\* The bip44 wallet: two chains, every set of impossible children.
SPECIFICATION FairSpec
CONSTANTS
  MaxUint32 = 3
  FirstHardenedChild = 2
  Public = FALSE
  MaxNum = 4
INVARIANTS TypeOK ChainsAscend NoHoles NeverOverflows NoMoreExplained
PROPERTIES CallsReturn ImplementsAddressChain
CHECK_DEADLOCK FALSE
