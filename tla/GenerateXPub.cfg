\* The xpub wallet: one chain, no hardened children, every set of impossible children.
SPECIFICATION Spec
CONSTANTS
  MaxUint32 = 5
  FirstHardenedChild = 3
  Public = TRUE
  MaxNum = 6
INVARIANTS NoHoles
PROPERTIES ImplementsAddressChain
CHECK_DEADLOCK FALSE
