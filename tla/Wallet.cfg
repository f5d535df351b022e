\* A wallet of each type through its whole life.
SPECIFICATION Spec
CONSTANTS
  Null = Null
  seed = seed
  passphrase = passphrase
  xpub = xpub
  deepXPub = deepXPub
  oddXPub = oddXPub
  pw1 = pw1
  pw2 = pw2
  foreign1 = foreign1
  foreign2 = foreign2
  Mangled = Mangled
  MaxUint32 = 4
  FirstHardenedChild = 3
  MaxInt = 3
  ImpossibleChildren = {1}
  BrokenChains <- BadChains
  UnaddableChildren <- BadChildren
  Mnemonics = {seed}
  ValidXPubs = {xpub, deepXPub, oddXPub}
  NotUtf8 = {}
  OptionSet <- AllOptions
  Passwords <- BothPasswords
  Cryptos <- KnownAndUnknownCrypto
  NewEntries <- SkycoinEntries
  MaxEntries = 2
  Nums = {0, 1, 2, 5}
INVARIANTS TypeOK Sealed TempErased Recoverable RoundTrip NoPanic
PROPERTIES FailureChangesNothing AddressesKept EncryptionKept
