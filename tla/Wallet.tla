------------------------------- MODULE Wallet -------------------------------
(***************************************************************************)
(* The life of one wallet (pkg/wallet/wallet.go): it is created, generates *)
(* addresses, is locked and unlocked, saved and loaded, and used by        *)
(* callbacks under GuardUpdate and GuardView, which run on a temporary     *)
(* decrypted copy.  Operations fail at every place the code lets them, and *)
(* the process may exit between any two of them.                           *)
(*                                                                         *)
(* A guard is three actions, because its callback is the caller's code: it *)
(* begins, the callback does what the Wallet interface allows on the       *)
(* temporary copy, and it ends with the callback's success or error.       *)
(***************************************************************************)
EXTENDS WalletData

CONSTANTS
  OptionSet,    \* the Options newWallet is called with
  Passwords,    \* passwords the callers type; Null is the empty password
  Cryptos,      \* crypto types passed to Lock, known and unknown ones
  NewEntries,   \* entries handed to AddEntry
  MaxEntries,   \* bound: the entries of a deterministic or collection wallet
  Nums          \* the numbers of addresses one call asks for

ASSUME WalletAssumption ==
  /\ MaxEntries \in Nat
  /\ Nums \subseteq Nat
  /\ Null \notin Passwords
  /\ \A opts \in OptionSet :
       /\ opts.generateN \in Nat
       /\ opts.password \in Passwords \cup {Null}
  /\ \A e \in NewEntries :
       /\ e = [address |-> [coin |-> e.address.coin, key |-> e.address.key],
               public |-> e.public, secret |-> e.secret,
               childNumber |-> e.childNumber, change |-> e.change]
       /\ e.address.coin \in CoinTypes
       /\ e.childNumber \in Uint32
       /\ e.change \in {0, 1}

VARIABLES
  wallet,      \* the caller's wallet, Null while there is none in memory
  temp,        \* the temporary copy of the last guard, Null before the first
  guard,       \* the guard whose callback is running: "none", "view", "update"
  password,    \* the password that guard was called with
  cryptoType,  \* the crypto type GuardUpdate noted before it unlocked
  disk,        \* the wallet file, Null while there is none
  born,        \* history: the options the wallet was created with
  err          \* what the last call returned

vars == <<wallet, temp, guard, password, cryptoType, disk, born, err>>

Init ==
  /\ wallet = Null
  /\ temp = Null
  /\ guard = "none"
  /\ password = Null
  /\ cryptoType = Null
  /\ disk = Null
  /\ born = Null
  /\ err = "ok"

-----------------------------------------------------------------------------
\* A process that panics or exits forgets everything but the file.
Forget ==
  /\ wallet' = Null
  /\ temp' = Null
  /\ guard' = "none"
  /\ password' = Null
  /\ cryptoType' = Null
  /\ UNCHANGED <<disk, born>>

\* The wallet an operation works on: the caller's own or, inside a callback,
\* the temporary copy.
Subject == IF guard = "none" THEN wallet ELSE temp

\* The operation returned r and left r.w behind.
Returns(r) ==
  /\ err' = r.err
  /\ IF r.err = "panic" THEN Forget
     ELSE /\ IF guard = "none" THEN wallet' = r.w /\ UNCHANGED temp
                               ELSE temp' = r.w /\ UNCHANGED wallet
          /\ UNCHANGED <<guard, password, cryptoType, disk, born>>

\* Bound: how long a deterministic wallet gets.
Room(w, num) ==
  w.type = "deterministic" => Len(w.entries) + Iterations(num) <= MaxEntries

Create(opts, encryptFails) ==
  /\ wallet = Null /\ disk = Null
  /\ LET r == NewWallet(opts, encryptFails) IN
     /\ wallet' = r.w
     /\ err' = r.err
     /\ born' = IF r.err = "ok" THEN opts ELSE Null
  /\ UNCHANGED <<temp, guard, password, cryptoType, disk>>

Generate(num) ==
  /\ Subject # Null
  /\ Room(Subject, num)
  /\ Returns(GenerateAddresses(Subject, num))

GenerateChangeEntry ==
  /\ Subject # Null
  /\ Subject.type = "bip44"
  /\ Returns(GenerateChange(Subject))

AddToCollection(e) ==
  /\ Subject # Null
  /\ Subject.type = "collection"
  /\ Len(Subject.entries) < MaxEntries
  /\ Returns(AddEntry(Subject, e))

LockWallet(p, ct, encryptFails) ==
  /\ Subject # Null
  /\ Returns(Lock(Subject, p, ct, encryptFails))

\* The caller of Unlock goes on with the decrypted copy it returned.
UnlockWallet(p) ==
  /\ guard = "none"
  /\ wallet # Null
  /\ Returns(Unlock(wallet, p))

-----------------------------------------------------------------------------
\* Both guards check the wallet and the password and unlock a copy.
GuardBegin(kind, p) ==
  /\ guard = "none"
  /\ wallet # Null
  /\ LET r == Unlock(wallet, p) IN
     /\ err' = r.err
     /\ IF r.err = "ok"
        THEN /\ guard' = kind
             /\ temp' = r.w
             /\ password' = p
             /\ cryptoType' = wallet.cryptoType
        ELSE UNCHANGED <<guard, temp, password, cryptoType>>
  /\ UNCHANGED <<wallet, disk, born>>

GuardOverForgetsErase(last) ==
  /\ guard' = "none"
  /\ temp' = last
  /\ password' = Null
  /\ cryptoType' = Null
  /\ UNCHANGED <<disk, born>>

\* "defer wlt.Erase()": what the caller may still hold of the temporary copy.
GuardOver(last) ==
  /\ guard' = "none"
  /\ temp' = Erase(last)
  /\ password' = Null
  /\ cryptoType' = Null
  /\ UNCHANGED <<disk, born>>

\* The callback returned an error.
CallbackFails ==
  /\ guard # "none"
  /\ err' = "callbackFailed"
  /\ GuardOver(temp)
  /\ UNCHANGED wallet

ViewEnds ==
  /\ guard = "view"
  /\ err' = "ok"
  /\ GuardOver(temp)
  /\ UNCHANGED wallet

UpdateEndsWithDefaultCrypto(encryptFails) ==
  /\ guard = "update"
  /\ LET r == Lock(temp, password, DefaultCryptoType, encryptFails) IN
     /\ err' = r.err
     /\ wallet' = IF r.err = "ok" THEN Erase(Copied(r.w)) ELSE wallet
     /\ GuardOver(r.w)

\* GuardUpdate locks the copy again and, if that worked, puts it in place of w.
UpdateEnds(encryptFails) ==
  /\ guard = "update"
  /\ LET r == Lock(temp, password, cryptoType, encryptFails) IN
     /\ err' = r.err
     /\ wallet' = IF r.err = "ok" THEN Erase(Copied(r.w)) ELSE wallet
     /\ GuardOver(r.w)

-----------------------------------------------------------------------------
\* Save writes the wallet's file, unless ToReadable panics before that;
\* WalletFile.tla has the steps of the write.
Save ==
  /\ guard = "none"
  /\ wallet # Null
  /\ IF ReadablePanics(wallet)
     THEN err' = "panic" /\ Forget
     ELSE /\ disk' = Readable(wallet)
          /\ err' = "ok"
          /\ UNCHANGED <<wallet, temp, guard, password, cryptoType, born>>

\* A wallet that Load could not read leaves the caller with the one it had.
Load ==
  /\ guard = "none"
  /\ disk # Null
  /\ err' = LoadError(disk)
  /\ IF LoadError(disk) = "ok" THEN wallet' \in Loaded(disk) ELSE UNCHANGED wallet
  /\ UNCHANGED <<temp, guard, password, cryptoType, disk, born>>

Exit ==
  /\ wallet # Null
  /\ Forget
  /\ err' = "ok"

Next ==
  \/ \E opts \in OptionSet, fails \in BOOLEAN : Create(opts, fails)
  \/ \E num \in Nums : Generate(num)
  \/ GenerateChangeEntry
  \/ \E e \in NewEntries : AddToCollection(e)
  \/ \E p \in Passwords \cup {Null}, ct \in Cryptos, fails \in BOOLEAN : LockWallet(p, ct, fails)
  \/ \E p \in Passwords \cup {Null} : UnlockWallet(p)
  \/ \E kind \in {"view", "update"}, p \in Passwords \cup {Null} : GuardBegin(kind, p)
  \/ CallbackFails
  \/ ViewEnds
  \/ \E fails \in BOOLEAN : UpdateEnds(fails)
  \/ Save
  \/ Load
  \/ Exit

Spec == Init /\ [][Next]_vars

-----------------------------------------------------------------------------
(***************************************************************************)
(* Properties                                                              *)
(***************************************************************************)

IsEntry(e) ==
  /\ DOMAIN e = {"address", "public", "secret", "childNumber", "change"}
  /\ DOMAIN e.address = {"coin", "key"}
  /\ e.address.coin \in CoinTypes
  /\ e.childNumber \in Uint32
  /\ e.change \in {0, 1}

IsEntries(es) ==
  /\ DOMAIN es = 1 .. Len(es)
  /\ \A n \in DOMAIN es : IsEntry(es[n])

IsBlob(b) ==
  /\ DOMAIN b = {"password", "cryptoType", "data"}
  /\ b.password \in Passwords
  /\ b.cryptoType \in CryptoTypes
  /\ DOMAIN b.data = {"texts", "keys"}

IsWallet(w) ==
  /\ DOMAIN w = {"type", "coin", "bip44Coin", "encrypted", "cryptoType", "secrets", "seed",
                 "lastSeed", "seedPassphrase", "xpub", "node", "entries", "changeEntries"}
  /\ w.type \in WalletTypes
  /\ w.coin \in CoinTypes
  /\ w.encrypted \in BOOLEAN
  /\ w.cryptoType \in CryptoTypes \cup {Null}
  /\ w.secrets = Null \/ IsBlob(w.secrets)
  /\ w.node \in BOOLEAN
  /\ IsEntries(w.entries)
  /\ IsEntries(w.changeEntries)

\* What a call may return.  The errors of a wallet that contradicts itself, of which
\* Unlock, Validate and ToWallet have many more, are not among them.
Results ==
  {"ok", "panic", "callbackFailed", "encryptFailed",
   "missingPassword", "invalidPassword", "unknownCryptoType",
   "walletEncrypted", "walletNotEncrypted",
   "notImplemented", "numTooLarge", "chainNodeFailed", "childFailed",
   "noMoreChangeAddresses", "invalidEntry", "duplicateAddress",
   "invalidWalletType", "invalidCoinType", "invalidXpub", "invalidMnemonic",
   "invalidBip44Meta", "missingSeed", "seedNotWanted", "seedPassphraseOnlyForBip44",
   "xpubOnlyForXpub", "generationNotDefined", "missingEncrypt"}

TypeOK ==
  /\ \A w \in {wallet, temp, disk} : w # Null => IsWallet(w)
  /\ guard \in {"none", "view", "update"}
  /\ password \in Passwords \cup {Null}
  /\ cryptoType \in CryptoTypes \cup {Null}
  /\ born \in OptionSet \cup {Null}
  /\ err \in Results

NoPlaintext(w) ==
  /\ w.seed = Null
  /\ w.lastSeed = Null
  /\ w.seedPassphrase = Null
  /\ \A n \in DOMAIN w.entries : w.entries[n].secret = Null
  /\ \A n \in DOMAIN w.changeEntries : w.changeEntries[n].secret = Null

\* A wallet that says it is encrypted shows no seed, no passphrase and no secret
\* key, in memory and in the file.  Meta.validate looks for the seeds only
\* (meta.go:105); passphrase and entry secrets are up to Lock and GuardUpdate.
Sealed == \A w \in {wallet, temp, disk} : w # Null /\ w.encrypted => NoPlaintext(w)

\* However a guard ends, nothing secret is left in the temporary copy: "The
\* temporary decrypted wallet should be erased from memory when done"
\* (wallet.go:391).
TempErased == guard = "none" /\ temp # Null => NoPlaintext(temp)

\* The key an entry must have, given what the wallet was created from.
ExpectedKey(w, n) ==
  LET e == AllEntries(w)[n] IN
  CASE w.type = "deterministic" -> Key(born.seed, 0, n)
    [] w.type = "bip44" ->
         Key(<<born.seed, born.seedPassphrase, w.bip44Coin>>, e.change, e.childNumber)
    [] w.type = "xpub" -> Key(born.xpub, 0, e.childNumber)
    [] w.type = "collection" -> e.address.key

\* An open wallet has what it was created from, and every entry the key and the
\* address that follow from it.
Intact(w) ==
  /\ ~w.encrypted
  /\ w.seed = born.seed
  /\ w.seedPassphrase = born.seedPassphrase
  /\ w.xpub = born.xpub
  /\ w.type = "deterministic" =>
       /\ w.lastSeed.root = born.seed
       /\ w.lastSeed.index = Len(w.entries)
       /\ w.entries # <<>> => w.lastSeed.hex
  /\ \A n \in DOMAIN AllEntries(w) :
       LET e == AllEntries(w)[n] IN
       /\ e.public = ExpectedKey(w, n)
       /\ e.address = [coin |-> w.coin, key |-> e.public]
       /\ e.secret = IF w.type = "xpub" THEN Null ELSE e.public

\* Nothing is ever lost: whatever was locked, unlocked, generated under a guard,
\* failed, saved and loaded, the wallet in memory and the one in the file open
\* with their password and are intact.
Recoverable ==
  \A w \in {wallet, disk} : w # Null =>
    LET opened == IF w.encrypted THEN Unlock(w, w.secrets.password) ELSE Ok(w)
    IN opened.err = "ok" /\ Intact(opened.w)

\* Saving now and loading would give this very wallet back: validate accepts it,
\* every entry decodes and verifies, and the split and the sort of ToWallet put
\* the entries where they were.
RoundTrip ==
  wallet # Null =>
    /\ LoadError(Readable(wallet)) = "ok"
    /\ Loaded(Readable(wallet)) = {[wallet EXCEPT !.node = FALSE]}

\* No legal call ends in a panic, whatever was locked, saved and loaded before it.
\* The xpub wallet is left out: XPubGenerates says where it panics.  So is
\* Fingerprint, whose entries[0] may panic: GenerateEntries.tla has it.
NoPanic == err = "panic" => born.type = "xpub"

\* An operation that returns an error has changed neither the caller's wallet,
\* nor the file, nor the copy its callback is working on.
FailureChangesNothing ==
  [][err' \notin {"ok", "panic"} =>
       /\ UNCHANGED <<wallet, disk>>
       /\ guard' = guard => UNCHANGED temp]_vars

WasLoaded == disk # Null /\ wallet' \in Loaded(disk)

IsPrefixOf(s, t) == Len(s) <= Len(t) /\ \A n \in DOMAIN s : s[n] = t[n]
AddressSeq(es) == [n \in DOMAIN es |-> es[n].address]

\* Addresses only go out of a wallet in memory by loading an older file.
AddressesKept ==
  [][wallet # Null /\ wallet' # Null =>
       \/ WasLoaded
       \/ /\ IsPrefixOf(AddressSeq(wallet.entries), AddressSeq(wallet'.entries))
          /\ IsPrefixOf(AddressSeq(wallet.changeEntries), AddressSeq(wallet'.changeEntries))]_vars

\* As long as a wallet stays encrypted its password and its crypto type stay
\* what they were: a callback that locks the copy itself, or an update under
\* any crypto type, does not change them.
EncryptionKept ==
  [][wallet # Null /\ wallet' # Null /\ wallet.encrypted /\ wallet'.encrypted =>
       \/ WasLoaded
       \/ /\ wallet'.cryptoType = wallet.cryptoType
          /\ wallet'.secrets.password = wallet.secrets.password]_vars

\* "XPub wallets can generate new addresses" (xpub_wallet.go:19).  One that was
\* loaded cannot: ToWallet never parses the xpub and generateEntries dereferences
\* the nil pointer it leaves.
XPubGenerates ==
  wallet # Null /\ wallet.type = "xpub" /\ ~wallet.encrypted =>
    GenerateAddresses(wallet, 1).err # "panic"

\* "AddEntry adds a new entry to the wallet" (collection_wallet.go:120), of the
\* coin newWallet and Load accept a collection for.  The duplicate check takes
\* every address for a Skycoin address and panics on the second entry of another
\* coin.
AnyCoinAdded ==
  wallet # Null /\ wallet.type = "collection" =>
    \A e \in NewEntries : e.address.coin = wallet.coin => AddEntry(wallet, e).err # "panic"

\* "Save saves the wallet to a directory" (wallet.go:628).  AddEntry takes an entry
\* with a child number, such as any entry of a bip44 wallet but its first, into a
\* collection that then cannot be saved: NewReadableEntry panics.
SaveWorks == wallet # Null => ~ReadablePanics(wallet)

\* "ResolveCoinType normalizes a coin type string" (wallet.go:97): the spelling of
\* the coin makes no difference to the wallet.  It does to a bip44 wallet, whose
\* path is chosen before the spelling is normalized: "btc" gives Bitcoin addresses
\* on Skycoin's path, and so does "ethereum" with those of Ethereum.
SpellingIndifferent ==
  wallet # Null /\ wallet.type = "bip44" /\ born.bip44Coin = Null =>
    wallet.bip44Coin = Bip44CoinOf([born EXCEPT !.coin = wallet.coin])

\* "Unlock decrypts the wallet into a temporary decrypted copy of the wallet"
\* (wallet.go:389): the seed that goes through Lock and Unlock is the wallet's.
\* Secrets are serialized as JSON strings, which cannot carry a seed that is not
\* UTF-8, and nothing demands that the seed of a deterministic wallet is.
UnlockGivesTheSeed ==
  wallet # Null /\ ~wallet.encrypted =>
    \A p \in Passwords :
      LET locked == Lock(wallet, p, DefaultCryptoType, FALSE) IN
      Unlock(locked.w, p).w.seed = wallet.seed
=============================================================================
