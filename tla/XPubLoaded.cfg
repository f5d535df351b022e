\* An xpub wallet is saved and loaded.
SPECIFICATION Spec
CONSTANTS
  Null = Null
  seed = seed
  passphrase = passphrase
  xpub = xpub
  deepXPub = deepXPub
  oddXPub = oddXPub
  pw1 = pw1
  pw2 = pw2
  foreign1 = foreign1
  foreign2 = foreign2
  Mangled = Mangled
  MaxUint32 = 3
  FirstHardenedChild = 2
  MaxInt = 7
  ImpossibleChildren = {}
  BrokenChains = {}
  UnaddableChildren = {}
  Mnemonics = {seed}
  ValidXPubs = {xpub}
  NotUtf8 = {}
  OptionSet <- XPubOptions
  Passwords <- BothPasswords
  Cryptos <- KnownAndUnknownCrypto
  NewEntries <- NoEntries
  MaxEntries = 2
  Nums = {0, 1, 2, 4}
INVARIANTS XPubGenerates
