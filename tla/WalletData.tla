----------------------------- MODULE WalletData -----------------------------
(***************************************************************************)
(* A wallet as a value and the operations on it (pkg/wallet): the four     *)
(* wallet types, locking and unlocking, address generation, the conversion *)
(* to and from the file, and newWallet.                                    *)
(*                                                                         *)
(* A wallet is a record of the Meta fields the code branches on and of its *)
(* entries; entries stands for Entries and, in a bip44 wallet, for         *)
(* ExternalEntries.  Keys are free terms: a key is the place in the key    *)
(* tree it is derived from, an address is a coin and a key.  A ciphertext  *)
(* is the record of what was encrypted and under which password.           *)
(*                                                                         *)
(* An operation returns [err, w]: w is the wallet it leaves behind.        *)
(***************************************************************************)
EXTENDS ChildChain, FiniteSets

CONSTANTS
  Null,                 \* the empty string, the absent value, the zeroed key
  ImpossibleChildren,   \* child numbers no key can be derived for
  BrokenChains,         \* <<root, chain>> whose node has no key, or no more depth
  UnaddableChildren,    \* <<xpub, child number>> whose point cannot be added to it
  Mnemonics,            \* seeds that are valid bip39 mnemonics
  ValidXPubs,           \* strings that parse as an extended public key
  NotUtf8, Mangled,     \* texts JSON cannot carry, and what they come back as
  MaxInt                \* the largest int, half of the largest uint64

ASSUME WalletDataAssumption ==
  /\ ImpossibleChildren \subseteq Uint32
  /\ MaxInt \in Nat
  /\ Null \notin Mnemonics \cup ValidXPubs \cup NotUtf8
  /\ Null \notin {"skycoin", "bitcoin", "eth"}

WalletTypes == {"deterministic", "collection", "bip44", "xpub"}
CoinTypes == {"skycoin", "bitcoin", "eth"}
CryptoTypes ==
  {"scrypt-chacha20poly1305", "scrypt-chacha20poly1305-insecure", "sha256-xor"}
DefaultCryptoType == "scrypt-chacha20poly1305"

Ok(w) == [err |-> "ok", w |-> w]
Fails(e, w) == [err |-> e, w |-> w]

-----------------------------------------------------------------------------
\* Keys, addresses and entries.

Key(root, chain, index) == [root |-> root, chain |-> chain, index |-> index]

\* Meta.AddressConstructor followed by the construction of an Entry.
NewEntry(w, key, secret, childNumber, change) ==
  [address |-> [coin |-> w.coin, key |-> key], public |-> key, secret |-> secret,
   childNumber |-> childNumber, change |-> change]

Addresses(es) == { es[n].address : n \in DOMAIN es }
ChildNumbers(es) == [n \in DOMAIN es |-> es[n].childNumber]

\* Entry.Verify: the secret has this public key and the public key this address.
Verified(e) == e.secret = e.public /\ e.address.key = e.public

\* All entries of a wallet, as GetEntries returns them.
AllEntries(w) == w.entries \o w.changeEntries

ErasedEntries(es) == [n \in DOMAIN es |-> [es[n] EXCEPT !.secret = Null]]

EraseDropsEntries(w) == [w EXCEPT !.seed = Null, !.lastSeed = Null, !.seedPassphrase = Null,
                                  !.entries = <<>>, !.changeEntries = <<>>]

EraseKeepsPassphrase(w) ==
  [w EXCEPT !.seed = Null, !.lastSeed = Null,
            !.entries = ErasedEntries(@), !.changeEntries = ErasedEntries(@)]

\* Wallet.Erase
Erase(w) ==
  [w EXCEPT !.seed = Null, !.lastSeed = Null, !.seedPassphrase = Null,
            !.entries = ErasedEntries(@), !.changeEntries = ErasedEntries(@)]

\* Clone, CopyFrom and CopyFromRef copy every field; those of the xpub wallet
\* parse the xpub string again and so restore the pointer a loaded wallet lacks.
Copied(w) == [w EXCEPT !.node = (w.type = "xpub")]

-----------------------------------------------------------------------------
\* Secrets.

\* What json.Marshal makes of a string: bytes that are not UTF-8 are replaced.
Json(text) == IF text \in NotUtf8 THEN Mangled ELSE text

SecretFieldsWithoutPassphrase(type) ==
  CASE type \in {"deterministic", "collection"} -> {"seed", "lastSeed"}
    [] type = "bip44" -> {"seed"}
    [] type = "xpub" -> {}

SecretFields(type) ==
  CASE type \in {"deterministic", "collection"} -> {"seed", "lastSeed"}
    [] type = "bip44" -> {"seed", "seedPassphrase"}
    [] type = "xpub" -> {}

\* The value of an address in the secrets map: a later entry overwrites.
SecretOf(es, a) ==
  es[CHOOSE n \in DOMAIN es :
       /\ es[n].address = a
       /\ \A m \in DOMAIN es : es[m].address = a => m <= n].secret

\* PackSecrets of the wallet's type.
PackSecrets(w) ==
  [texts |-> [f \in SecretFields(w.type) |-> w[f]],
   keys  |-> IF w.type = "xpub" THEN <<>>
             ELSE [a \in Addresses(AllEntries(w)) |-> SecretOf(AllEntries(w), a)]]

\* Secrets.serialize: every value is a JSON string.  The seed the deterministic
\* chain has reached is hexadecimal, unless it is still the seed itself.
JsonLastSeed(s) == IF s # Null /\ ~s.hex THEN [s EXCEPT !.root = Json(@)] ELSE s
Serialized(ss) ==
  [ss EXCEPT !.texts = [f \in DOMAIN ss.texts |->
     IF f = "lastSeed" THEN JsonLastSeed(ss.texts[f]) ELSE Json(ss.texts[f])]]

\* Entries.unpackSecretKeys
UnpackedEntries(es, keys) == [n \in DOMAIN es |-> [es[n] EXCEPT !.secret = keys[es[n].address]]]

\* UnpackSecrets of the wallet's type; a collection restores its keys only.
UnpackSecrets(w, ss) ==
  IF w.type \in {"deterministic", "bip44"} /\ "seed" \notin DOMAIN ss.texts
  THEN Fails("seedMissing", w)
  ELSE IF w.type = "deterministic" /\ "lastSeed" \notin DOMAIN ss.texts
  THEN Fails("lastSeedMissing", w)
  ELSE IF w.type # "xpub" /\ ~(Addresses(AllEntries(w)) \subseteq DOMAIN ss.keys)
  THEN Fails("secretMissing", w)
  ELSE IF w.type = "xpub" THEN Ok(w)
  ELSE Ok([w EXCEPT
    !.seed = IF w.type = "collection" THEN @ ELSE ss.texts["seed"],
    !.lastSeed = IF w.type = "deterministic" THEN ss.texts["lastSeed"] ELSE @,
    !.seedPassphrase =
      IF w.type # "bip44" THEN @
      ELSE IF "seedPassphrase" \in DOMAIN ss.texts THEN ss.texts["seedPassphrase"] ELSE Null,
    !.entries = UnpackedEntries(@, ss.keys),
    !.changeEntries = UnpackedEntries(@, ss.keys)])

-----------------------------------------------------------------------------
\* Lock and Unlock.

Sealing(w, password, cryptoType) ==
  [w EXCEPT !.encrypted = TRUE, !.cryptoType = cryptoType,
            !.secrets = [password |-> password, cryptoType |-> cryptoType,
                         data |-> Serialized(PackSecrets(w))]]

LockErasesInPlace(w, password, cryptoType, encryptFails) ==
  IF password = Null THEN Fails("missingPassword", w)
  ELSE IF w.encrypted THEN Fails("walletEncrypted", w)
  ELSE IF cryptoType \notin CryptoTypes THEN Fails("unknownCryptoType", w)
  ELSE IF encryptFails THEN Fails("encryptFailed", Erase(w))
  ELSE Ok(Copied(Erase(Sealing(w, password, cryptoType))))

\* Lock works on a clone and copies it over w at the very end, so that no error
\* leaves w half locked.  Encrypt may fail: it draws random bytes.
Lock(w, password, cryptoType, encryptFails) ==
  IF password = Null THEN Fails("missingPassword", w)
  ELSE IF w.encrypted THEN Fails("walletEncrypted", w)
  ELSE IF cryptoType \notin CryptoTypes THEN Fails("unknownCryptoType", w)
  ELSE IF encryptFails THEN Fails("encryptFailed", w)
  ELSE Ok(Copied(Erase(Sealing(w, password, cryptoType))))

UnlockWithoutSecrets(w, password) ==
  IF ~w.encrypted THEN Fails("walletNotEncrypted", w)
  ELSE IF password = Null \/ w.secrets.password # password THEN Fails("invalidPassword", w)
  ELSE Ok([Copied(w) EXCEPT !.encrypted = FALSE, !.secrets = Null, !.cryptoType = Null])

\* Unlock returns a decrypted clone and leaves w alone.
Unlock(w, password) ==
  IF ~w.encrypted THEN Fails("walletNotEncrypted", w)
  ELSE IF password = Null THEN Fails("missingPassword", w)
  ELSE IF w.secrets = Null THEN Fails("secretsMissing", w)
  ELSE IF w.cryptoType \notin CryptoTypes THEN Fails("unknownCryptoType", w)
  ELSE IF w.secrets.password # password \/ w.secrets.cryptoType # w.cryptoType
  THEN Fails("invalidPassword", w)
  ELSE LET unpacked == UnpackSecrets(Copied(w), w.secrets.data) IN
       IF unpacked.err # "ok" THEN Fails(unpacked.err, w)
       ELSE Ok([unpacked.w EXCEPT !.encrypted = FALSE, !.secrets = Null, !.cryptoType = Null])

-----------------------------------------------------------------------------
\* Address generation.

\* The deterministic wallet walks a hash chain: LastSeed is where it stands.  A
\* new wallet's is the seed itself, later ones are written in hexadecimal.
SeedAt(seed, n) == [root |-> seed, index |-> n, hex |-> FALSE]
HexSeedAt(seed, n) == [root |-> seed, index |-> n, hex |-> TRUE]

\* int(num) of a uint64.
AsInt(num) == IF num > MaxInt THEN num - 2 * (MaxInt + 1) ELSE num

\* What MustGenerateDeterministicKeyPairsSeed does as often as it is told to: not
\* at all for a count that is not positive, whose seed comes back as it was.
Iterations(num) == IF AsInt(num) < 0 THEN 0 ELSE AsInt(num)

GenerateDeterministic(w, num) ==
  LET start == IF w.entries = <<>> THEN SeedAt(w.seed, 0) ELSE w.lastSeed
      steps == Iterations(num)
      fresh(n) == LET k == Key(start.root, 0, start.index + n) IN NewEntry(w, k, k, 0, 0)
  IN IF num = 0 THEN Ok(w)
     ELSE IF start = Null \/ start.root = Null THEN Fails("panic", w)
     ELSE IF w.entries # <<>> /\ ~start.hex THEN Fails("decodeHexSeedFailed", w)
     ELSE Ok([w EXCEPT !.lastSeed = HexSeedAt(start.root, start.index + steps),
                       !.entries = @ \o [n \in 1 .. steps |-> fresh(n)]])

\* The children generateEntries tries, and those it finds a key for, in one step;
\* GenerateEntries.tla has its loop.
TriedChildren(first, num) ==
  { c \in Uint32 : first <= c /\ c < first + CapNum(num, first) }

NewChildren(first, num) ==
  TriedChildren(first, num) \ ImpossibleChildren

InOrder(S) == CHOOSE s \in [1 .. Cardinality(S) -> S] : Ascending(s)

Bip44Root(w) == <<w.seed, w.seedPassphrase, w.bip44Coin>>

Bip44Entries(w, num, change, first) ==
  LET children == NewChildren(first, num)
      fresh(c) == LET k == Key(Bip44Root(w), change, c) IN NewEntry(w, k, k, c, change)
  IN [n \in 1 .. Cardinality(children) |-> fresh(InOrder(children)[n])]

\* CoinHDNode, then the nodes of the account and the chain: the number of the coin
\* may be too large for a path, and each node on the path may be impossible.
ChainError(w, change) ==
  IF w.seed \notin Mnemonics THEN "invalidMnemonic"
  ELSE IF <<Bip44Root(w), change>> \in BrokenChains THEN "chainNodeFailed"
  ELSE "ok"

GenerateBip44(w, num) ==
  LET first == NextChildIdx(ChildNumbers(w.entries)) IN
  IF num > MaxUint32 THEN Fails("numTooLarge", w)
  ELSE IF CapNum(num, first) # 0 /\ ChainError(w, 0) # "ok" THEN Fails(ChainError(w, 0), w)
  ELSE Ok([w EXCEPT !.entries = @ \o Bip44Entries(w, num, 0, first)])

\* GenerateChangeEntry: PeekChangeEntry, then the entry is appended.
GenerateChange(w) ==
  LET first == NextChildIdx(ChildNumbers(w.changeEntries))
      fresh == Bip44Entries(w, 1, 1, first)
  IN IF w.encrypted THEN Fails("walletEncrypted", w)
     ELSE IF CapNum(1, first) # 0 /\ ChainError(w, 1) # "ok" THEN Fails(ChainError(w, 1), w)
     ELSE IF fresh = <<>> THEN Fails("noMoreChangeAddresses", w)
     ELSE Ok([w EXCEPT !.changeEntries = Append(@, fresh[1])])

\* Deriving child c of an xpub fails otherwise than by its being impossible: the
\* depth is 0xFF, the child is hardened, or its point cannot be added.
PublicChildFails(w, c) ==
  \/ <<w.xpub, 0>> \in BrokenChains
  \/ c >= FirstHardenedChild
  \/ c \notin ImpossibleChildren /\ <<w.xpub, c>> \in UnaddableChildren

\* A nil xpub pointer is dereferenced as soon as there is a child to derive.
GenerateXPub(w, num) ==
  LET first == NextChildIdx(ChildNumbers(w.entries))
      children == NewChildren(first, num)
      fresh(c) == NewEntry(w, Key(w.xpub, 0, c), Null, c, 0)
  IN IF num > MaxUint32 THEN Fails("numTooLarge", w)
     ELSE IF CapNum(num, first) # 0 /\ ~w.node THEN Fails("panic", w)
     ELSE IF \E c \in TriedChildren(first, num) : PublicChildFails(w, c)
     THEN Fails("childFailed", w)
     ELSE Ok([w EXCEPT !.entries = @ \o
              [n \in 1 .. Cardinality(children) |-> fresh(InOrder(children)[n])]])

\* GenerateAddresses of the wallet's type.
GenerateAddresses(w, num) ==
  IF w.type = "collection" THEN Fails("notImplemented", w)
  ELSE IF w.encrypted THEN Fails("walletEncrypted", w)
  ELSE CASE w.type = "deterministic" -> GenerateDeterministic(w, num)
         [] w.type = "bip44" -> GenerateBip44(w, num)
         [] w.type = "xpub" -> GenerateXPub(w, num)

\* CollectionWallet.AddEntry.  SkycoinAddress() panics on any other address; it
\* is called on both entries for every entry up to the first one that is equal.
AddEntry(w, e) ==
  LET compared == { n \in DOMAIN w.entries :
                      \A m \in 1 .. n - 1 : w.entries[m].address # e.address }
  IN IF w.encrypted THEN Fails("walletEncrypted", w)
     ELSE IF ~Verified(e) THEN Fails("invalidEntry", w)
     ELSE IF \E n \in compared : {e.address.coin, w.entries[n].address.coin} # {"skycoin"}
     THEN Fails("panic", w)
     ELSE IF e.address \in Addresses(w.entries) THEN Fails("duplicateAddress", w)
     ELSE Ok([w EXCEPT !.entries = Append(@, e)])

-----------------------------------------------------------------------------
\* The file.

ReadableExternalOnly(w) ==
  [w EXCEPT !.seed = Json(@), !.lastSeed = JsonLastSeed(@), !.seedPassphrase = Json(@),
            !.changeEntries = <<>>, !.node = FALSE]

\* NewReadableEntry panics on a child number or a chain that the file of this type
\* of wallet has no place for.
ReadablePanics(w) ==
  \E n \in DOMAIN AllEntries(w) :
    LET e == AllEntries(w)[n] IN
    \/ w.type \in {"deterministic", "collection"} /\ e.childNumber # 0
    \/ w.type # "bip44" /\ e.change # 0

\* ToReadable: one list of entries, every text goes through JSON, and the parsed
\* xpub is not part of it.
Readable(w) ==
  [w EXCEPT !.seed = Json(@), !.lastSeed = JsonLastSeed(@), !.seedPassphrase = Json(@),
            !.entries = AllEntries(w), !.changeEntries = <<>>, !.node = FALSE]

\* Meta.validate
Validate(w) ==
  IF w.encrypted /\ w.cryptoType \notin CryptoTypes THEN "unknownCryptoType"
  ELSE IF w.encrypted /\ w.secrets = Null THEN "secretsNotSet"
  ELSE IF w.encrypted /\ w.seed # Null THEN "seedVisible"
  ELSE IF w.encrypted /\ w.lastSeed # Null THEN "lastSeedVisible"
  ELSE IF ~w.encrypted /\ w.secrets # Null THEN "secretsInUnencryptedWallet"
  ELSE IF w.type = "collection" /\ (w.seed # Null \/ w.lastSeed # Null) THEN "seedInCollection"
  ELSE IF w.type = "deterministic" /\ ~w.encrypted /\ (w.seed = Null \/ w.lastSeed = Null)
  THEN "seedMissing"
  ELSE IF w.type = "bip44" /\ ~w.encrypted /\ w.seed \notin Mnemonics THEN "invalidMnemonic"
  ELSE IF w.type = "bip44" /\ (w.bip44Coin = Null \/ w.lastSeed # Null) THEN "invalidBip44Meta"
  ELSE IF w.type = "xpub" /\ (w.seed # Null \/ w.lastSeed # Null) THEN "seedInXpub"
  ELSE IF w.type # "xpub" /\ w.xpub # Null THEN "xpubInOtherType"
  ELSE "ok"

ResolveCoinTypeKeepsSpelling(spelling) == spelling

ResolveCoinType(spelling) ==
  CASE spelling \in {"sky", "skycoin"} -> "skycoin"
    [] spelling \in {"btc", "bitcoin"} -> "bitcoin"
    [] spelling \in {"eth", "ethereum"} -> "eth"
    [] OTHER -> Null

\* The address of an entry read back: base58 does not decode an address of the
\* other coin, HexToAddress makes some address out of any text.
Decodes(coin, a) == coin = "eth" \/ a.coin = coin
DecodedAddress(coin, a) ==
  IF a.coin = coin THEN a ELSE [coin |-> coin, key |-> Null]
DecodedEntries(coin, es) ==
  [n \in DOMAIN es |-> [es[n] EXCEPT !.address = DecodedAddress(coin, @)]]

\* sort.Slice: some arrangement of the entries at these places with ascending
\* child numbers.
Sortings(es, places) ==
  LET arrangements == { p \in [1 .. Cardinality(places) -> places] :
                          \A m, n \in DOMAIN p : m # n => p[m] # p[n] }
  IN { [n \in DOMAIN p |-> es[p[n]]] : p \in
         { p \in arrangements :
             \A m, n \in DOMAIN p : m < n => es[p[m]].childNumber <= es[p[n]].childNumber } }

OfChain(es, change) == { n \in DOMAIN es : es[n].change = change }

\* The error of Load, "ok" if it returns a wallet.
LoadError(file) ==
  LET coin == ResolveCoinType(file.coin) IN
  IF coin = Null THEN "invalidCoinType"
  ELSE IF Validate(file) # "ok" THEN Validate(file)
  ELSE IF \E n \in DOMAIN file.entries : ~Decodes(coin, file.entries[n].address)
  THEN "invalidAddress"
  ELSE IF ~file.encrypted /\ \E n \in DOMAIN file.entries :
            file.entries[n].secret # Null /\ ~Verified(DecodedEntries(coin, file.entries)[n])
  THEN "invalidEntry"
  ELSE "ok"

\* The entries ToWallet makes of those in the file, for either chain.
ExternalEntries(type, es) ==
  CASE type = "bip44" -> Sortings(es, OfChain(es, 0))
    [] type = "xpub" -> Sortings(es, DOMAIN es)
    [] OTHER -> {es}
ChangeEntries(type, es) == IF type = "bip44" THEN Sortings(es, OfChain(es, 1)) ELSE {<<>>}

WithEntries(w, external, change) == [w EXCEPT !.entries = external, !.changeEntries = change]

\* The wallets Load may return: ToWallet of the wallet's type.  It never parses
\* the xpub, whatever the type.
Loaded(file) ==
  LET coin == ResolveCoinType(file.coin)
      es == DecodedEntries(coin, file.entries)
  IN { WithEntries([file EXCEPT !.coin = coin, !.node = FALSE], external, change) :
         external \in ExternalEntries(file.type, es), change \in ChangeEntries(file.type, es) }

-----------------------------------------------------------------------------
\* newWallet.

\* The coin of the bip44 path: from the options as they are, before the spelling
\* of the coin is resolved.
Bip44CoinOf(opts) ==
  CASE opts.type # "bip44" -> Null
    [] opts.type = "bip44" /\ opts.bip44Coin # Null -> opts.bip44Coin
    [] opts.type = "bip44" /\ opts.bip44Coin = Null ->
         IF opts.coin = "bitcoin" THEN 0 ELSE IF opts.coin = "eth" THEN 60 ELSE 8000

OptionsError(opts) ==
  IF opts.type \notin WalletTypes THEN "invalidWalletType"
  ELSE IF opts.seedPassphrase # Null /\ opts.type # "bip44" THEN "seedPassphraseOnlyForBip44"
  ELSE IF opts.xpub # Null /\ opts.type # "xpub" THEN "xpubOnlyForXpub"
  ELSE IF opts.type \in {"deterministic", "bip44"} /\ opts.seed = Null THEN "missingSeed"
  ELSE IF opts.type \in {"xpub", "collection"} /\ opts.seed # Null THEN "seedNotWanted"
  ELSE IF opts.coin # Null /\ ResolveCoinType(opts.coin) = Null THEN "invalidCoinType"
  ELSE IF opts.type = "xpub" /\ opts.xpub \notin ValidXPubs THEN "invalidXpub"
  ELSE IF opts.type = "collection" /\ opts.generateN # 0 THEN "generationNotDefined"
  ELSE "ok"

FreshWallet(opts) ==
  [type |-> opts.type,
   coin |-> IF opts.coin = Null THEN "skycoin" ELSE ResolveCoinType(opts.coin),
   bip44Coin |-> Bip44CoinOf(opts),
   encrypted |-> FALSE, cryptoType |-> Null, secrets |-> Null,
   seed |-> opts.seed,
   lastSeed |-> IF opts.type = "deterministic" THEN SeedAt(opts.seed, 0) ELSE Null,
   seedPassphrase |-> opts.seedPassphrase,
   xpub |-> opts.xpub, node |-> (opts.type = "xpub"),
   entries |-> <<>>, changeEntries |-> <<>>]

\* A wallet on which newWallet fails is dropped: the result then is Null.
NewWallet(opts, encryptFails) ==
  LET drop(e) == Fails(e, Null)
      generated == IF opts.type = "collection" THEN Ok(FreshWallet(opts))
                   ELSE GenerateAddresses(FreshWallet(opts),
                          IF opts.generateN = 0 THEN 1 ELSE opts.generateN)
      cryptoType == IF opts.cryptoType = Null THEN DefaultCryptoType ELSE opts.cryptoType
      locked == Lock(generated.w, opts.password, cryptoType, encryptFails)
  IN IF OptionsError(opts) # "ok" THEN drop(OptionsError(opts))
     ELSE IF generated.err # "ok" THEN drop(generated.err)
     ELSE IF Validate(generated.w) # "ok" THEN drop(Validate(generated.w))
     ELSE IF ~opts.encrypt
     THEN IF opts.password # Null THEN drop("missingEncrypt") ELSE generated
     ELSE IF locked.err # "ok" THEN drop(locked.err)
     ELSE IF Validate(locked.w) # "ok" THEN drop(Validate(locked.w))
     ELSE locked
=============================================================================
