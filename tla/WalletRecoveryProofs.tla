------------------------ MODULE WalletRecoveryProofs ------------------------
(***************************************************************************)
(* Proofs about Wallet: whatever is locked, unlocked, generated, guarded,  *)
(* saved and loaded, no wallet loses what it was created from, and a file  *)
(* gives back the wallet it was written from, for all options, passwords,  *)
(* entries, crypto types and bounds.                                       *)
(***************************************************************************)
EXTENDS WalletStepProofs, OrderLemmas

-----------------------------------------------------------------------------
\* What the theorems assume of the inputs: the absent value is not taken for the
\* state of a hash chain or for a ciphertext; seeds and passphrases are texts that
\* JSON can carry; and a collection holds Skycoin's keys, without child numbers or
\* chains.  The runs SeedNotUtf8, CollectionOfBitcoin and CollectionOfHDEntry show
\* what the code does to the others.
Ordinary ==
  /\ \A root, index, hex : Null # [root |-> root, index |-> index, hex |-> hex]
  /\ \A p, ct, data : Null # [password |-> p, cryptoType |-> ct, data |-> data]
  /\ \A o \in OptionSet :
       /\ o.seed \notin NotUtf8 /\ o.seedPassphrase \notin NotUtf8
       /\ o.type = "collection" => o.coin = Null \/ ResolveCoinType(o.coin) = "skycoin"
  /\ \A e \in NewEntries : e.address.coin = "skycoin" /\ e.childNumber = 0 /\ e.change = 0

-----------------------------------------------------------------------------
(***************************************************************************)
(* What a wallet holds, given the options b it was created with.           *)
(***************************************************************************)

\* The entries of a wallet of this type have this place in the key tree.
KeyOf(b, w, e, n) ==
  CASE w.type = "deterministic" -> Key(b.seed, 0, n)
    [] w.type = "bip44" -> Key(<<b.seed, b.seedPassphrase, w.bip44Coin>>, e.change, e.childNumber)
    [] w.type = "xpub" -> Key(b.xpub, 0, e.childNumber)
    [] w.type = "collection" -> e.address.key

\* The n-th entry is a record of its public key, its address follows from it, and
\* it has no child number and no chain the file has no place for.  The largest
\* child number is not used, so that one after the last never wraps.
EntryIs(b, w, e, n) ==
  /\ e = [address |-> [coin |-> w.coin, key |-> e.public], public |-> e.public,
          secret |-> e.secret, childNumber |-> e.childNumber, change |-> e.change]
  /\ e.public = KeyOf(b, w, e, n)
  /\ e.childNumber \in 0 .. MaxUint32 - 1
  /\ e.change \in {0, 1}
  /\ w.type \in {"deterministic", "collection"} => e.childNumber = 0
  /\ w.type # "bip44" => e.change = 0

EntriesAre(b, w, es) == EntriesOK(es) /\ \A n \in DOMAIN es : EntryIs(b, w, es[n], n)

IsRecord(w) == w = [f \in Fields |-> w[f]]

\* What does not depend on whether the wallet is encrypted.
Content(b, w) ==
  /\ IsRecord(w)
  /\ w.type \in WalletTypes
  /\ w.type = b.type
  /\ w.coin \in CoinTypes
  /\ w.type = "collection" => w.coin = "skycoin"
  /\ w.bip44Coin = Bip44CoinOf(b)
  /\ w.xpub = b.xpub
  /\ w.node \in BOOLEAN
  /\ EntriesAre(b, w, w.entries)
  /\ EntriesAre(b, w, w.changeEntries)
  /\ w.type # "bip44" => w.changeEntries = <<>>

\* The hash chain of a deterministic wallet has gone n steps from the seed.
SeedReached(b, s, n) ==
  /\ s = [root |-> b.seed, index |-> n, hex |-> s.hex]
  /\ s.hex \in BOOLEAN
  /\ n # 0 => s.hex

SecretsShown(w, es) ==
  \A n \in DOMAIN es : es[n].secret = IF w.type = "xpub" THEN Null ELSE es[n].public

\* An open wallet shows what it was created from.
Open(b, w) ==
  /\ w.encrypted = FALSE
  /\ w.cryptoType = Null
  /\ w.secrets = Null
  /\ w.seed = b.seed
  /\ w.seedPassphrase = b.seedPassphrase
  /\ w.type = "deterministic" => SeedReached(b, w.lastSeed, Len(w.entries))
  /\ w.type # "deterministic" => w.lastSeed = Null
  /\ SecretsShown(w, w.entries)
  /\ SecretsShown(w, w.changeEntries)

\* What a ciphertext must hold for Unlock to give the wallet back.
DataIs(b, w, d) ==
  /\ DOMAIN d = {"texts", "keys"}
  /\ DOMAIN d.texts = SecretFields(w.type)
  /\ w.type \in {"deterministic", "bip44"} => d.texts["seed"] = b.seed
  /\ w.type = "deterministic" => SeedReached(b, d.texts["lastSeed"], Len(w.entries))
  /\ w.type = "bip44" => d.texts["seedPassphrase"] = b.seedPassphrase
  /\ w.type # "xpub" =>
       /\ DOMAIN d.keys = Addresses(AllEntries(w))
       /\ \A a \in Addresses(AllEntries(w)) : d.keys[a] = a.key

\* A locked wallet shows nothing and has the same in its ciphertext.
Locked(b, w) ==
  /\ w.encrypted = TRUE
  /\ NoPlaintext(w)
  /\ w.cryptoType \in CryptoTypes
  /\ w.secrets = [password |-> w.secrets.password, cryptoType |-> w.cryptoType,
                  data |-> w.secrets.data]
  /\ w.secrets.password \in Passwords
  /\ DataIs(b, w, w.secrets.data)

OnChain(es, change) == \A n \in DOMAIN es : es[n].change = change

\* The two chains of a wallet in memory: what Load relies on when it takes the one
\* list of the file apart again, and nextChildIdx when it looks at the last entry.
Split(w) ==
  /\ w.type = "bip44" => OnChain(w.entries, 0) /\ OnChain(w.changeEntries, 1)
  /\ w.type \in {"bip44", "xpub"} =>
       Ascending(ChildNumbers(w.entries)) /\ Ascending(ChildNumbers(w.changeEntries))

Good(b, w) == Content(b, w) /\ (Open(b, w) \/ Locked(b, w)) /\ Split(w)

\* newWallet accepted these options ...
Accepted(b) ==
  /\ b \in OptionSet
  /\ b.type \in WalletTypes
  /\ b.type \in {"deterministic", "bip44"} => b.seed # Null
  /\ b.type \notin {"deterministic", "bip44"} => b.seed = Null
  /\ b.type # "bip44" => b.seedPassphrase = Null
  /\ b.type # "xpub" => b.xpub = Null

\* ... and the wallet it made of them.
BornIs(b) ==
  /\ Accepted(b)
  /\ b.type = "bip44" => b.seed \in Mnemonics /\ Bip44CoinOf(b) # Null

\* The file d was written from a good wallet, which is what Load returns.
Saved(b, d) == BornIs(b) /\ \E w \in Loaded(d) : Good(b, w) /\ d = Readable(w)

\* The inductive invariant.
RecoveryInv ==
  /\ wallet # Null => BornIs(born) /\ Good(born, wallet)
  /\ guard # "none" => wallet # Null /\ Good(born, temp)
  /\ temp # Null => IsWallet(temp)
  /\ disk # Null => Saved(born, disk)
  /\ guard \in {"none", "view", "update"}
  /\ password \in Passwords \cup {Null}
  /\ cryptoType \in CryptoTypes \cup {Null}
  /\ born \in OptionSet \cup {Null}
  /\ err \in Results
  /\ NoPanic

-----------------------------------------------------------------------------
\* Facts about values.

\* The absent value is neither the state of a hash chain nor a ciphertext.
LEMMA NullIsNoRecord ==
  ASSUME Ordinary
  PROVE  /\ \A r, i, h : [root |-> r, index |-> i, hex |-> h] # Null
         /\ \A p, c, d : [password |-> p, cryptoType |-> c, data |-> d] # Null
BY DEF Ordinary

\* There are at least two child numbers, and 0 is not the largest.
LEMMA ChildBounds == MaxUint32 \in Nat /\ MaxUint32 >= 1 /\ 0 \in 0 .. MaxUint32 - 1
BY ChildNumberAssumption

-----------------------------------------------------------------------------
\* Sequences of entries.

\* Two joined lists of entries: the first keeps its places, the second moves up.
LEMMA JoinedSequence ==
  ASSUME NEW s, NEW t, EntriesOK(s), EntriesOK(t)
  PROVE  /\ Len(s) \in Nat /\ Len(t) \in Nat
         /\ DOMAIN s = 1 .. Len(s) /\ DOMAIN t = 1 .. Len(t)
         /\ EntriesOK(s \o t)
         /\ Len(s \o t) = Len(s) + Len(t)
         /\ DOMAIN (s \o t) = 1 .. Len(s) + Len(t)
         /\ \A n \in 1 .. Len(s) : (s \o t)[n] = s[n]
         /\ \A n \in 1 .. Len(t) : (s \o t)[Len(s) + n] = t[n]
<1> DEFINE S == Image(s) \cup Image(t)
<1>1. s \in Seq(S) /\ t \in Seq(S)
  BY SeqMonotonic DEF EntriesOK
<1>2. EntriesOK(s \o t)
  BY JoinedEntries
<1>. HIDE DEF S
<1>. QED BY <1>1, <1>2

\* An entry of two joined sequences is one of the first or one of the second.
LEMMA JoinedPlaces ==
  ASSUME NEW s, NEW t, EntriesOK(s), EntriesOK(t), NEW n \in DOMAIN (s \o t)
  PROVE  \/ n \in DOMAIN s /\ (s \o t)[n] = s[n]
         \/ n - Len(s) \in DOMAIN t /\ (s \o t)[n] = t[n - Len(s)] /\ n = Len(s) + (n - Len(s))
<1>1. n \in 1 .. Len(s) + Len(t)
  BY JoinedSequence
<1>2. CASE n <= Len(s)
  BY <1>1, <1>2, JoinedSequence
<1>3. CASE n > Len(s)
  <2>1. n - Len(s) \in 1 .. Len(t) /\ n = Len(s) + (n - Len(s))
    BY <1>1, <1>3, JoinedSequence
  <2>2. (s \o t)[Len(s) + (n - Len(s))] = t[n - Len(s)]
    BY <2>1, JoinedSequence
  <2>. QED BY <2>1, <2>2, JoinedSequence
<1>4. n \in Int /\ Len(s) \in Int
  BY <1>1, JoinedSequence
<1>. QED BY <1>2, <1>3, <1>4

\* All entries of a wallet without a change chain are those of its one chain.
LEMMA JoinedWithEmpty ==
  ASSUME NEW s, EntriesOK(s)
  PROVE  s \o <<>> = s
BY DEF EntriesOK

-----------------------------------------------------------------------------
\* Entries that are what they should be.

\* Only in a deterministic wallet does the key depend on the place of the entry.
LEMMA EntryAnywhere ==
  ASSUME NEW b, NEW w, w.type \in WalletTypes \ {"deterministic"}, NEW e, NEW m, EntryIs(b, w, e, m),
         NEW n
  PROVE  EntryIs(b, w, e, n)
BY DEF EntryIs, KeyOf, WalletTypes

\* Whether an entry is right depends on type, coin and bip44 coin of its wallet.
LEMMA EntryOfSameKind ==
  ASSUME NEW b, NEW w, NEW v, v.type = w.type, v.coin = w.coin, v.bip44Coin = w.bip44Coin,
         NEW e, NEW n, EntryIs(b, w, e, n)
  PROVE  EntryIs(b, v, e, n)
BY DEF EntryIs, KeyOf

\* An entry has an address and a secret.
LEMMA EntryDomain ==
  ASSUME NEW b, NEW w, NEW e, NEW n, EntryIs(b, w, e, n)
  PROVE  {"address", "secret"} \subseteq DOMAIN e
<1>1. e = [address |-> [coin |-> w.coin, key |-> e.public], public |-> e.public,
           secret |-> e.secret, childNumber |-> e.childNumber, change |-> e.change]
  BY DEF EntryIs
<1>2. DOMAIN e = {"address", "public", "secret", "childNumber", "change"}
  BY <1>1
<1>. QED BY <1>2

\* What an entry is does not depend on whether its secret is there.
LEMMA EntryWithOtherSecret ==
  ASSUME NEW b, NEW w, w.type \in WalletTypes, NEW e, NEW n, EntryIs(b, w, e, n), NEW secret
  PROVE  /\ EntryIs(b, w, [e EXCEPT !.secret = secret], n)
         /\ [e EXCEPT !.secret = secret].secret = secret
         /\ [e EXCEPT !.secret = secret].public = e.public
         /\ [e EXCEPT !.secret = secret].address = e.address
         /\ [e EXCEPT !.secret = secret].childNumber = e.childNumber
         /\ [e EXCEPT !.secret = secret].change = e.change
<1> DEFINE f == [e EXCEPT !.secret = secret]
<1>1. /\ e = [address |-> [coin |-> w.coin, key |-> e.public], public |-> e.public,
              secret |-> e.secret, childNumber |-> e.childNumber, change |-> e.change]
  BY DEF EntryIs
<1>2. /\ f.secret = secret /\ f.public = e.public /\ f.address = e.address
      /\ f.childNumber = e.childNumber /\ f.change = e.change
  BY <1>1
<1>3. f = [address |-> [coin |-> w.coin, key |-> e.public], public |-> e.public,
           secret |-> secret, childNumber |-> e.childNumber, change |-> e.change]
  BY <1>1
<1>4. KeyOf(b, w, f, n) = KeyOf(b, w, e, n)
  BY <1>2 DEF KeyOf, WalletTypes
<1>. HIDE DEF f
<1>5. EntryIs(b, w, f, n)
  BY <1>2, <1>3, <1>4 DEF EntryIs
<1>. QED BY <1>2, <1>5 DEF f

\* The entries t are those of s but for their secrets.
Resecreted(s, t) ==
  /\ t = [n \in DOMAIN s |-> t[n]]
  /\ \A n \in DOMAIN s : t[n] = [s[n] EXCEPT !.secret = t[n].secret]

\* An entry that only got another secret is as right as before.
LEMMA ResecretedEntry ==
  ASSUME NEW b, NEW w, w.type \in WalletTypes, NEW s, NEW t, EntriesAre(b, w, s), Resecreted(s, t),
         NEW n \in DOMAIN s
  PROVE  /\ EntryIs(b, w, t[n], n)
         /\ t[n].public = s[n].public
         /\ t[n].address = s[n].address
         /\ t[n].childNumber = s[n].childNumber
         /\ t[n].change = s[n].change
<1>1. EntryIs(b, w, s[n], n)
  BY DEF EntriesAre
<1>2. t[n] = [s[n] EXCEPT !.secret = t[n].secret]
  BY DEF Resecreted
<1> DEFINE secret == t[n].secret
<1>. HIDE DEF secret
<1>3. t[n] = [s[n] EXCEPT !.secret = secret]
  BY <1>2 DEF secret
<1>. QED BY <1>1, <1>3, EntryWithOtherSecret

\* They are as many, with the same child numbers and on the same chain.
SameShape(s, t) ==
  /\ DOMAIN t = DOMAIN s
  /\ Len(t) = Len(s)
  /\ ChildNumbers(t) = ChildNumbers(s)
  /\ \A c : OnChain(s, c) => OnChain(t, c)

\* So are all of them, and they keep their shape.
LEMMA ResecretedEntries ==
  ASSUME NEW b, NEW w, w.type \in WalletTypes, NEW s, NEW t, EntriesAre(b, w, s), Resecreted(s, t)
  PROVE  EntriesAre(b, w, t) /\ SameShape(s, t)
<1>1. EntriesOK(s) /\ t = [n \in DOMAIN s |-> t[n]]
  BY DEF EntriesAre, Resecreted
<1>2. DOMAIN t = DOMAIN s
  BY <1>1, Zenon
<1>3. ASSUME NEW n \in DOMAIN s PROVE {"address", "secret"} \subseteq DOMAIN t[n]
  <2>1. EntryIs(b, w, t[n], n)
    BY ResecretedEntry
  <2>. QED BY <2>1, EntryDomain
<1>4. EntriesOK(t)
  BY <1>1, <1>3, MappedEntries
<1>5. EntriesAre(b, w, t)
  BY <1>2, <1>4, ResecretedEntry DEF EntriesAre
<1>6. Len(t) = Len(s)
  BY <1>1, <1>2, <1>4, EntriesDomain
<1>7. ChildNumbers(t) = ChildNumbers(s)
  BY <1>2, ResecretedEntry DEF ChildNumbers
<1>8. \A c : OnChain(s, c) => OnChain(t, c)
  BY <1>2, ResecretedEntry DEF OnChain
<1>. QED BY <1>2, <1>5, <1>6, <1>7, <1>8 DEF SameShape

-----------------------------------------------------------------------------
\* Wallets with the same entries but for their secrets.

\* The addresses of both chains are those of the two together.
LEMMA AddressesJoined ==
  ASSUME NEW s, NEW t, EntriesOK(s), EntriesOK(t)
  PROVE  Addresses(s \o t) = Addresses(s) \cup Addresses(t)
<1>1. ASSUME NEW a \in Addresses(s \o t) PROVE a \in Addresses(s) \cup Addresses(t)
  <2>1. PICK n \in DOMAIN (s \o t) : a = (s \o t)[n].address
    BY DEF Addresses
  <2>. QED BY <2>1, JoinedPlaces DEF Addresses
<1>2. ASSUME NEW a \in Addresses(s) PROVE a \in Addresses(s \o t)
  <2>1. PICK n \in DOMAIN s : a = s[n].address
    BY DEF Addresses
  <2>2. n \in DOMAIN (s \o t) /\ (s \o t)[n] = s[n]
    BY JoinedSequence
  <2>. QED BY <2>1, <2>2 DEF Addresses
<1>3. ASSUME NEW a \in Addresses(t) PROVE a \in Addresses(s \o t)
  <2>1. PICK n \in DOMAIN t : a = t[n].address
    BY DEF Addresses
  <2>2. Len(s) + n \in DOMAIN (s \o t) /\ (s \o t)[Len(s) + n] = t[n]
    BY JoinedSequence
  <2>. QED BY <2>1, <2>2 DEF Addresses
<1>. QED BY <1>1, <1>2, <1>3

\* Other secrets, same addresses.
LEMMA ResecretedAddresses ==
  ASSUME NEW b, NEW w, w.type \in WalletTypes, NEW s, NEW t, EntriesAre(b, w, s), Resecreted(s, t)
  PROVE  Addresses(t) = Addresses(s)
<1>1. DOMAIN t = DOMAIN s
  BY Zenon DEF Resecreted
<1>2. \A n \in DOMAIN s : t[n].address = s[n].address
  BY ResecretedEntry
<1>. QED BY <1>1, <1>2 DEF Addresses

\* Changing secrets twice is changing them.
LEMMA ResecretedTwice ==
  ASSUME NEW s, NEW t, NEW u, Resecreted(s, t), Resecreted(t, u)
  PROVE  Resecreted(s, u)
<1>1. DOMAIN t = DOMAIN s
  BY Zenon DEF Resecreted
<1>2. u = [n \in DOMAIN s |-> u[n]]
  BY <1>1, Zenon DEF Resecreted
<1>3. ASSUME NEW n \in DOMAIN s PROVE u[n] = [s[n] EXCEPT !.secret = u[n].secret]
  <2>1. t[n] = [s[n] EXCEPT !.secret = t[n].secret] /\ u[n] = [t[n] EXCEPT !.secret = u[n].secret]
    BY <1>1 DEF Resecreted
  <2>. QED BY <2>1
<1>. QED BY <1>2, <1>3 DEF Resecreted

\* Erase changes nothing of an entry but its secret (entry.go:98).
LEMMA ErasedResecreted ==
  ASSUME NEW es, EntriesOK(es)
  PROVE  Resecreted(es, ErasedEntries(es))
<1>1. \A n \in DOMAIN es : ErasedEntries(es)[n] = [es[n] EXCEPT !.secret = Null]
  BY DEF ErasedEntries
<1>2. \A n \in DOMAIN es : ErasedEntries(es)[n].secret = Null
  BY ErasedEntriesOK
<1>3. ErasedEntries(es) = [n \in DOMAIN es |-> ErasedEntries(es)[n]]
  BY DEF ErasedEntries
<1>. QED BY <1>1, <1>2, <1>3 DEF Resecreted

\* UnpackSecrets looks up each secret by the address, and changes nothing else.
LEMMA UnpackedResecreted ==
  ASSUME NEW es, EntriesOK(es), NEW keys
  PROVE  /\ Resecreted(es, UnpackedEntries(es, keys))
         /\ \A n \in DOMAIN es : UnpackedEntries(es, keys)[n].secret = keys[es[n].address]
<1>1. \A n \in DOMAIN es :
        UnpackedEntries(es, keys)[n] = [es[n] EXCEPT !.secret = keys[es[n].address]]
  BY DEF UnpackedEntries
<1>2. \A n \in DOMAIN es : UnpackedEntries(es, keys)[n].secret = keys[es[n].address]
  BY <1>1 DEF EntriesOK
<1>3. UnpackedEntries(es, keys) = [n \in DOMAIN es |-> UnpackedEntries(es, keys)[n]]
  BY DEF UnpackedEntries
<1>. QED BY <1>1, <1>2, <1>3 DEF Resecreted

\* Entries have the secrets they have.
LEMMA ResecretedItself ==
  ASSUME NEW b, NEW w, NEW es, EntriesAre(b, w, es)
  PROVE  Resecreted(es, es)
<1>1. es = [n \in DOMAIN es |-> es[n]]
  BY DEF EntriesAre, EntriesOK
<1>2. ASSUME NEW n \in DOMAIN es PROVE es[n] = [es[n] EXCEPT !.secret = es[n].secret]
  <2> DEFINE e == es[n]
  <2>1. e = [address |-> [coin |-> w.coin, key |-> e.public], public |-> e.public,
             secret |-> e.secret, childNumber |-> e.childNumber, change |-> e.change]
    BY DEF EntriesAre, EntryIs
  <2>. HIDE DEF e
  <2>2. e = [e EXCEPT !.secret = e.secret]
    BY <2>1
  <2>. QED BY <2>2 DEF e
<1>. QED BY <1>1, <1>2 DEF Resecreted

\* The wallet v is w but for secrets and for what says whether it is encrypted.
SameBut(w, v) ==
  /\ IsRecord(v)
  /\ v.type = w.type /\ v.coin = w.coin /\ v.bip44Coin = w.bip44Coin /\ v.xpub = w.xpub
  /\ v.node \in BOOLEAN
  /\ Resecreted(w.entries, v.entries)
  /\ Resecreted(w.changeEntries, v.changeEntries)

\* Entries are as right in a wallet of the same type, coin and bip44 coin.
LEMMA SameEntries ==
  ASSUME NEW b, NEW w, NEW v, v.type = w.type, v.coin = w.coin, v.bip44Coin = w.bip44Coin,
         NEW es, EntriesAre(b, w, es)
  PROVE  EntriesAre(b, v, es)
BY EntryOfSameKind DEF EntriesAre

\* What differs only in what locking changes has the same content and order.
LEMMA SameButContent ==
  ASSUME NEW b, NEW w, NEW v, Content(b, w), SameBut(w, v)
  PROVE  /\ Content(b, v)
         /\ Split(w) => Split(v)
         /\ Len(v.entries) = Len(w.entries)
         /\ Addresses(AllEntries(v)) = Addresses(AllEntries(w))
<1>1. /\ w.type \in WalletTypes /\ EntriesAre(b, w, w.entries) /\ EntriesAre(b, w, w.changeEntries)
      /\ Resecreted(w.entries, v.entries) /\ Resecreted(w.changeEntries, v.changeEntries)
      /\ v.type = w.type /\ v.coin = w.coin /\ v.bip44Coin = w.bip44Coin
  BY DEF Content, SameBut
<1>2. /\ EntriesAre(b, w, v.entries) /\ SameShape(w.entries, v.entries)
      /\ EntriesAre(b, w, v.changeEntries) /\ SameShape(w.changeEntries, v.changeEntries)
  BY <1>1, ResecretedEntries
<1>3. EntriesAre(b, v, v.entries) /\ EntriesAre(b, v, v.changeEntries)
  BY <1>1, <1>2, SameEntries
<1>4. v.type # "bip44" => v.changeEntries = <<>>
  <2> SUFFICES ASSUME v.type # "bip44" PROVE v.changeEntries = <<>>
    OBVIOUS
  <2>1. w.changeEntries = <<>>
    BY <1>1 DEF Content
  <2>2. Len(v.changeEntries) = 0
    BY <1>2, <2>1 DEF SameShape
  <2>3. EntriesOK(v.changeEntries)
    BY <1>2 DEF EntriesAre
  <2>. QED BY <2>2, <2>3, EmptySeq DEF EntriesOK
<1>5. Content(b, v)
  BY <1>1, <1>3, <1>4 DEF Content, SameBut
<1>6. Split(w) => Split(v)
  BY <1>1, <1>2 DEF Split, SameShape
<1>7. Addresses(AllEntries(v)) = Addresses(AllEntries(w))
  <2>1. Addresses(v.entries) = Addresses(w.entries)
    BY <1>1, ResecretedAddresses
  <2>2. Addresses(v.changeEntries) = Addresses(w.changeEntries)
    BY <1>1, ResecretedAddresses
  <2>3. /\ EntriesOK(w.entries) /\ EntriesOK(w.changeEntries)
        /\ EntriesOK(v.entries) /\ EntriesOK(v.changeEntries)
    BY <1>1, <1>2 DEF EntriesAre
  <2>. QED BY <2>1, <2>2, <2>3, AddressesJoined DEF AllEntries
<1>. QED BY <1>2, <1>5, <1>6, <1>7 DEF SameShape

\* Locking and unlocking one after the other changes nothing else either.
LEMMA SameButTwice ==
  ASSUME NEW w, NEW v, NEW u, SameBut(w, v), SameBut(v, u)
  PROVE  SameBut(w, u)
BY ResecretedTwice DEF SameBut

\* The wallet v is w with its secrets in a ciphertext, before they are erased.
Seals(w, p, ct, v) ==
  /\ IsRecord(v)
  /\ v.type = w.type /\ v.coin = w.coin /\ v.bip44Coin = w.bip44Coin /\ v.xpub = w.xpub
  /\ v.node = w.node /\ v.entries = w.entries /\ v.changeEntries = w.changeEntries
  /\ v.encrypted = TRUE /\ v.cryptoType = ct
  /\ v.secrets.password = p /\ v.secrets.data = Serialized(PackSecrets(w))
  /\ v.secrets = [password |-> v.secrets.password, cryptoType |-> ct, data |-> v.secrets.data]

\* What PackSecrets and encryption have set before Lock erases the rest.
LEMMA SealingFields ==
  ASSUME NEW w, IsRecord(w), NEW p, NEW ct
  PROVE  Seals(w, p, ct, Sealing(w, p, ct))
<1> DEFINE v == Sealing(w, p, ct)
<1> DEFINE s == [password |-> p, cryptoType |-> ct, data |-> Serialized(PackSecrets(w))]
<1>1. v = [w EXCEPT !.encrypted = TRUE, !.cryptoType = ct, !.secrets = s]
  BY DEF Sealing
<1>2. /\ s.password = p /\ s.data = Serialized(PackSecrets(w))
      /\ s = [password |-> s.password, cryptoType |-> ct, data |-> s.data]
  OBVIOUS
<1>. HIDE DEF s
<1>3. DOMAIN w = Fields
  BY DEF IsRecord
<1>. HIDE DEF v
<1>4. v.secrets = s
  BY <1>1, <1>3 DEF Fields
<1>5. /\ IsRecord(v)
      /\ v.type = w.type /\ v.coin = w.coin /\ v.bip44Coin = w.bip44Coin /\ v.xpub = w.xpub
      /\ v.node = w.node /\ v.entries = w.entries /\ v.changeEntries = w.changeEntries
      /\ v.encrypted = TRUE /\ v.cryptoType = ct
  BY <1>1, <1>3 DEF IsRecord, Fields
<1>. QED BY <1>2, <1>4, <1>5 DEF Seals, v

\* The fields Erase leaves alone, and what it leaves of the others.
LEMMA EraseFields ==
  ASSUME NEW w, IsRecord(w)
  PROVE  LET v == Erase(w) IN
         /\ IsRecord(v)
         /\ v.type = w.type /\ v.coin = w.coin /\ v.bip44Coin = w.bip44Coin /\ v.xpub = w.xpub
         /\ v.node = w.node /\ v.encrypted = w.encrypted /\ v.cryptoType = w.cryptoType
         /\ v.secrets = w.secrets
         /\ v.seed = Null /\ v.lastSeed = Null /\ v.seedPassphrase = Null
         /\ v.entries = ErasedEntries(w.entries)
         /\ v.changeEntries = ErasedEntries(w.changeEntries)
BY DEF Erase, IsRecord, Fields

\* A copy has the fields of the original; of an xpub wallet also the parsed xpub.
LEMMA CopiedFields ==
  ASSUME NEW w, IsRecord(w)
  PROVE  LET v == Copied(w) IN
         /\ IsRecord(v)
         /\ v.type = w.type /\ v.coin = w.coin /\ v.bip44Coin = w.bip44Coin /\ v.xpub = w.xpub
         /\ v.node = (w.type = "xpub") /\ v.encrypted = w.encrypted /\ v.cryptoType = w.cryptoType
         /\ v.secrets = w.secrets
         /\ v.seed = w.seed /\ v.lastSeed = w.lastSeed /\ v.seedPassphrase = w.seedPassphrase
         /\ v.entries = w.entries /\ v.changeEntries = w.changeEntries
BY DEF Copied, IsRecord, Fields

-----------------------------------------------------------------------------
\* What Lock encrypts.

\* The entries of both chains are right in one list, as PackSecrets and the file have them.
LEMMA AllEntriesAre ==
  ASSUME NEW b, NEW w, Content(b, w)
  PROVE  EntriesAre(b, w, AllEntries(w))
<1> DEFINE s == w.entries
           t == w.changeEntries
<1>1. EntriesAre(b, w, s) /\ EntriesAre(b, w, t) /\ w.type \in WalletTypes
  BY DEF Content
<1>2. EntriesOK(s) /\ EntriesOK(t)
  BY <1>1 DEF EntriesAre
<1>3. w.type # "bip44" => t = <<>>
  BY DEF Content
<1>4. AllEntries(w) = s \o t
  BY DEF AllEntries
<1>. HIDE DEF s, t
<1>5. ASSUME NEW n \in DOMAIN (s \o t) PROVE EntryIs(b, w, (s \o t)[n], n)
  <2>1. CASE n \in DOMAIN s /\ (s \o t)[n] = s[n]
    BY <1>1, <2>1 DEF EntriesAre
  <2>2. CASE n - Len(s) \in DOMAIN t /\ (s \o t)[n] = t[n - Len(s)]
    <3>1. w.type = "bip44"
      BY <1>3, <2>2
    <3>2. EntryIs(b, w, t[n - Len(s)], n - Len(s))
      BY <1>1, <2>2 DEF EntriesAre
    <3>3. EntryIs(b, w, t[n - Len(s)], n)
      BY <3>1, <3>2, EntryAnywhere DEF WalletTypes
    <3>. QED BY <2>2, <3>3
  <2>. QED BY <1>2, <2>1, <2>2, JoinedPlaces
<1>6. EntriesOK(s \o t)
  BY <1>2, JoinedSequence
<1>. QED BY <1>4, <1>5, <1>6 DEF EntriesAre

\* An open wallet shows the secrets of both chains.
LEMMA AllSecretsShown ==
  ASSUME NEW b, NEW w, Content(b, w), Open(b, w)
  PROVE  SecretsShown(w, AllEntries(w))
<1> DEFINE s == w.entries
           t == w.changeEntries
<1>1. EntriesOK(s) /\ EntriesOK(t)
  BY DEF Content, EntriesAre
<1>2. SecretsShown(w, s) /\ SecretsShown(w, t)
  BY DEF Open
<1>3. AllEntries(w) = s \o t
  BY DEF AllEntries
<1>. HIDE DEF s, t
<1>4. ASSUME NEW n \in DOMAIN (s \o t)
      PROVE  (s \o t)[n].secret = IF w.type = "xpub" THEN Null ELSE (s \o t)[n].public
  <2>1. CASE n \in DOMAIN s /\ (s \o t)[n] = s[n]
    BY <1>2, <2>1 DEF SecretsShown
  <2>2. CASE n - Len(s) \in DOMAIN t /\ (s \o t)[n] = t[n - Len(s)]
    BY <1>2, <2>2 DEF SecretsShown
  <2>. QED BY <1>1, <2>1, <2>2, JoinedPlaces
<1>. QED BY <1>3, <1>4 DEF SecretsShown

\* An address that is there has a last entry.
LEMMA LastOfAddress ==
  ASSUME NEW es, EntriesOK(es), NEW a \in Addresses(es)
  PROVE  \E n \in DOMAIN es : es[n].address = a /\ \A m \in DOMAIN es : es[m].address = a => m <= n
<1> DEFINE P == { n \in DOMAIN es : es[n].address = a }
<1>1. Len(es) \in Nat /\ DOMAIN es = 1 .. Len(es)
  BY EntriesDomain
<1>2. P # {}
  BY DEF Addresses
<1>3. P \in SUBSET (0 .. Len(es))
  BY <1>1
<1>4. PICK n \in P : \A m \in P : m <= n
  <2>. HIDE DEF P
  <2>. QED BY <1>1, <1>2, <1>3, GreatestNatural
<1>. QED BY <1>4

\* The secret packed for an address is its key, whichever entry it is taken from.
LEMMA SecretOfShown ==
  ASSUME NEW b, NEW w, w.type # "xpub", NEW es, EntriesAre(b, w, es), SecretsShown(w, es),
         NEW a \in Addresses(es)
  PROVE  SecretOf(es, a) = a.key
<1> DEFINE IsLast(n) == es[n].address = a /\ \A m \in DOMAIN es : es[m].address = a => m <= n
<1>1. EntriesOK(es)
  BY DEF EntriesAre
<1>2. \E n \in DOMAIN es : IsLast(n)
  BY <1>1, LastOfAddress
<1> DEFINE last == CHOOSE n \in DOMAIN es : IsLast(n)
<1>3. SecretOf(es, a) = es[last].secret
  BY DEF SecretOf
<1>4. last \in DOMAIN es /\ es[last].address = a
  BY <1>2
<1>. HIDE DEF last
<1>5. EntryIs(b, w, es[last], last) /\ es[last].secret = es[last].public
  BY <1>4 DEF EntriesAre, SecretsShown
<1>6. es[last].address.key = es[last].public
  BY <1>5 DEF EntryIs
<1>. QED BY <1>3, <1>4, <1>5, <1>6

\* JSON gives seed, passphrase and the state of the hash chain back.
LEMMA JsonOfOrdinary ==
  ASSUME Ordinary, NEW b, BornIs(b)
  PROVE  /\ Json(b.seed) = b.seed /\ Json(b.seedPassphrase) = b.seedPassphrase
         /\ \A s, n : SeedReached(b, s, n) => JsonLastSeed(s) = s
<1>1. b \in OptionSet
  BY DEF BornIs, Accepted
<1>2. Json(b.seed) = b.seed /\ Json(b.seedPassphrase) = b.seedPassphrase
  BY <1>1 DEF Ordinary, Json
<1>3. ASSUME NEW s, NEW n, SeedReached(b, s, n) PROVE JsonLastSeed(s) = s
  <2>1. s = [root |-> b.seed, index |-> n, hex |-> s.hex]
    BY <1>3 DEF SeedReached
  <2>2. [s EXCEPT !.root = Json(@)] = s
    BY <1>2, <2>1
  <2>. QED BY <2>2 DEF JsonLastSeed
<1>. QED BY <1>2, <1>3

\* What Lock encrypts is what Unlock needs (PackSecrets in the four *_wallet.go).
LEMMA PackedIs ==
  ASSUME Ordinary, NEW b, BornIs(b), NEW w, Content(b, w), Open(b, w)
  PROVE  DataIs(b, w, Serialized(PackSecrets(w)))
<1> DEFINE d == Serialized(PackSecrets(w))
           es == AllEntries(w)
           texts == [f \in SecretFields(w.type) |-> w[f]]
           keys == IF w.type = "xpub" THEN <<>> ELSE [a \in Addresses(es) |-> SecretOf(es, a)]
           stored == [f \in SecretFields(w.type) |->
                       IF f = "lastSeed" THEN JsonLastSeed(w[f]) ELSE Json(w[f])]
<1>1. PackSecrets(w) = [texts |-> texts, keys |-> keys]
  BY DEF PackSecrets
<1>2. DOMAIN texts = SecretFields(w.type) /\ \A f \in SecretFields(w.type) : texts[f] = w[f]
  OBVIOUS
<1>3. DOMAIN d = {"texts", "keys"} /\ d.keys = keys /\ d.texts = stored
  <2>. HIDE DEF texts, keys
  <2>1. /\ DOMAIN d = {"texts", "keys"} /\ d.keys = keys
        /\ d.texts = [f \in DOMAIN texts |->
                       IF f = "lastSeed" THEN JsonLastSeed(texts[f]) ELSE Json(texts[f])]
    BY <1>1 DEF Serialized
  <2>. QED BY <1>2, <2>1
<1>4. DOMAIN stored = SecretFields(w.type)
  OBVIOUS
<1>5. w.type \in {"deterministic", "bip44"} => stored["seed"] = b.seed
  BY JsonOfOrdinary DEF Open, SecretFields
<1>6. w.type = "deterministic" => SeedReached(b, stored["lastSeed"], Len(w.entries))
  <2> SUFFICES ASSUME w.type = "deterministic"
               PROVE  SeedReached(b, stored["lastSeed"], Len(w.entries))
    OBVIOUS
  <2>1. SeedReached(b, w.lastSeed, Len(w.entries))
    BY DEF Open
  <2>2. stored["lastSeed"] = JsonLastSeed(w.lastSeed)
    BY DEF SecretFields
  <2>3. JsonLastSeed(w.lastSeed) = w.lastSeed
    BY <2>1, JsonOfOrdinary
  <2>. QED BY <2>1, <2>2, <2>3
<1>7. w.type = "bip44" => stored["seedPassphrase"] = b.seedPassphrase
  BY JsonOfOrdinary DEF Open, SecretFields
<1>8. ASSUME w.type # "xpub"
      PROVE  DOMAIN keys = Addresses(es) /\ \A a \in Addresses(es) : keys[a] = a.key
  <2>1. EntriesAre(b, w, es) /\ SecretsShown(w, es)
    BY AllEntriesAre, AllSecretsShown
  <2>2. \A a \in Addresses(es) : SecretOf(es, a) = a.key
    BY <1>8, <2>1, SecretOfShown
  <2>. HIDE DEF es
  <2>. QED BY <1>8, <2>2
<1>. HIDE DEF stored, keys, d
<1>9. DataIs(b, w, d)
  BY <1>3, <1>4, <1>5, <1>6, <1>7, <1>8 DEF DataIs
<1>. QED BY <1>9 DEF d

\* A ciphertext is as good for a wallet of the same type, length and addresses.
LEMMA DataOfSame ==
  ASSUME NEW b, NEW w, NEW v, NEW d, DataIs(b, w, d), v.type = w.type,
         Len(v.entries) = Len(w.entries), Addresses(AllEntries(v)) = Addresses(AllEntries(w))
  PROVE  DataIs(b, v, d)
BY DEF DataIs

-----------------------------------------------------------------------------
\* Lock and Unlock.

\* A Lock that fails returns the wallet it was given, and why.
LEMMA LockErrors ==
  ASSUME NEW w, NEW p, NEW ct, NEW fails
  PROVE  LET r == Lock(w, p, ct, fails) IN
         /\ r.err \in Results /\ r.err # "panic"
         /\ r.err # "ok" => r.w = w
         /\ r.err = "ok" =>
              /\ p # Null /\ ~w.encrypted /\ ct \in CryptoTypes
              /\ r.w = Copied(Erase(Sealing(w, p, ct)))
<1> DEFINE r == Lock(w, p, ct, fails)
           v == Copied(Erase(Sealing(w, p, ct)))
<1>1. \/ \E error \in {"missingPassword", "walletEncrypted", "unknownCryptoType", "encryptFailed"} :
           r = Fails(error, w)
      \/ p # Null /\ ~w.encrypted /\ ct \in CryptoTypes /\ r = Ok(v)
  <2>. HIDE DEF v
  <2>1. CASE p = Null
    BY <2>1 DEF Lock
  <2>2. CASE p # Null /\ w.encrypted
    BY <2>2 DEF Lock
  <2>3. CASE p # Null /\ ~w.encrypted /\ ct \notin CryptoTypes
    BY <2>3 DEF Lock
  <2>4. CASE p # Null /\ ~w.encrypted /\ ct \in CryptoTypes /\ fails
    BY <2>4 DEF Lock
  <2>5. CASE p # Null /\ ~w.encrypted /\ ct \in CryptoTypes /\ ~fails
    BY <2>5 DEF Lock, v
  <2>. QED BY <2>1, <2>2, <2>3, <2>4, <2>5
<1>. HIDE DEF r, v
<1>2. /\ r.err \in Results /\ r.err # "panic"
      /\ r.err # "ok" => r.w = w
      /\ r.err = "ok" => p # Null /\ ~w.encrypted /\ ct \in CryptoTypes /\ r.w = v
  <2>1. ASSUME NEW error \in {"missingPassword", "walletEncrypted", "unknownCryptoType",
                              "encryptFailed"}, r = Fails(error, w)
        PROVE  r.err = error /\ r.w = w /\ error \in Results /\ error # "panic" /\ error # "ok"
    BY <2>1 DEF Fails, Results
  <2>2. ASSUME r = Ok(v) PROVE r.err = "ok" /\ r.w = v /\ "ok" \in Results /\ "ok" # "panic"
    BY <2>2 DEF Ok, Results
  <2>. QED BY <1>1, <2>1, <2>2
<1>. QED BY <1>2 DEF r, v

\* Locking an open wallet puts all of it into the ciphertext.
LEMMA SealedIsLocked ==
  ASSUME Ordinary, NEW b, BornIs(b), NEW w, Content(b, w), Open(b, w),
         NEW p \in Passwords, NEW ct \in CryptoTypes
  PROVE  LET v == Copied(Erase(Sealing(w, p, ct)))
         IN  SameBut(w, v) /\ Locked(b, v) /\ v.secrets.password = p
<1> DEFINE s == Sealing(w, p, ct)
           e == Erase(s)
           v == Copied(e)
           d == Serialized(PackSecrets(w))
<1>1. IsRecord(w) /\ EntriesAre(b, w, w.entries) /\ EntriesAre(b, w, w.changeEntries)
  BY DEF Content
<1>2. EntriesOK(w.entries) /\ EntriesOK(w.changeEntries)
  BY <1>1 DEF EntriesAre
<1>3. Seals(w, p, ct, s)
  BY <1>1, SealingFields
<1>. HIDE DEF s, d
<1>4. /\ IsRecord(e)
      /\ e.type = w.type /\ e.coin = w.coin /\ e.bip44Coin = w.bip44Coin /\ e.xpub = w.xpub
      /\ e.entries = ErasedEntries(w.entries)
      /\ e.changeEntries = ErasedEntries(w.changeEntries)
      /\ e.encrypted = TRUE /\ e.cryptoType = ct
      /\ e.seed = Null /\ e.lastSeed = Null /\ e.seedPassphrase = Null
      /\ e.secrets = s.secrets
  BY <1>3, EraseFields DEF Seals
<1>. HIDE DEF e
<1>5. /\ IsRecord(v)
      /\ v.type = w.type /\ v.coin = w.coin /\ v.bip44Coin = w.bip44Coin /\ v.xpub = w.xpub
      /\ v.entries = ErasedEntries(w.entries)
      /\ v.changeEntries = ErasedEntries(w.changeEntries)
      /\ v.encrypted = TRUE /\ v.cryptoType = ct
      /\ v.seed = Null /\ v.lastSeed = Null /\ v.seedPassphrase = Null
      /\ v.secrets = s.secrets
      /\ v.node \in BOOLEAN
  BY <1>4, CopiedFields
<1>. HIDE DEF v
<1>6. SameBut(w, v)
  BY <1>2, <1>5, ErasedResecreted DEF SameBut
<1>7. NoPlaintext(v)
  BY <1>2, <1>5, ErasedEntriesOK DEF NoPlaintext
<1>8. Len(v.entries) = Len(w.entries) /\ Addresses(AllEntries(v)) = Addresses(AllEntries(w))
  BY <1>6, SameButContent
<1>9. DataIs(b, v, d)
  <2>1. DataIs(b, w, d)
    BY PackedIs DEF d
  <2>. QED BY <1>5, <1>8, <2>1, DataOfSame
<1>10. /\ v.secrets = [password |-> v.secrets.password, cryptoType |-> v.cryptoType,
                      data |-> v.secrets.data]
       /\ v.secrets.password = p /\ v.secrets.data = d
  BY <1>3, <1>5 DEF Seals, d
<1>11. Locked(b, v)
  BY <1>5, <1>7, <1>9, <1>10 DEF Locked
<1>. QED BY <1>6, <1>10, <1>11 DEF v, e, s

\* The flag of the wallet tells open from locked.
LEMMA OpenOrLocked ==
  ASSUME NEW b, NEW w
  PROVE  /\ Open(b, w) => w.encrypted = FALSE
         /\ Locked(b, w) => w.encrypted = TRUE
BY DEF Open, Locked

\* Lock makes a locked wallet of an open one that has everything in its ciphertext.
LEMMA LockGood ==
  ASSUME Ordinary, NEW b, BornIs(b), NEW w, Good(b, w), NEW p \in Passwords \cup {Null},
         NEW ct, NEW fails, Lock(w, p, ct, fails).err = "ok"
  PROVE  LET v == Lock(w, p, ct, fails).w
         IN  SameBut(w, v) /\ Good(b, v) /\ Locked(b, v)
<1> DEFINE v == Copied(Erase(Sealing(w, p, ct)))
<1>1. p \in Passwords /\ ~w.encrypted /\ ct \in CryptoTypes /\ Lock(w, p, ct, fails).w = v
  BY LockErrors
<1>2. Content(b, w) /\ Open(b, w) /\ Split(w)
  BY <1>1, OpenOrLocked DEF Good
<1>3. SameBut(w, v) /\ Locked(b, v)
  BY <1>1, <1>2, SealedIsLocked
<1>. HIDE DEF v
<1>4. Content(b, v) /\ Split(v)
  BY <1>2, <1>3, SameButContent
<1>. QED BY <1>1, <1>3, <1>4 DEF Good

\* UnpackSecrets finds everything it looks for.
LEMMA UnpackFields ==
  ASSUME NEW b, NEW w, IsRecord(w), w.type \in WalletTypes, NEW d, DataIs(b, w, d)
  PROVE  LET v == UnpackSecrets(w, d).w IN
         /\ UnpackSecrets(w, d).err = "ok"
         /\ IsRecord(v)
         /\ v.type = w.type /\ v.coin = w.coin /\ v.bip44Coin = w.bip44Coin /\ v.xpub = w.xpub
         /\ v.node = w.node
         /\ v.seed = IF w.type \in {"deterministic", "bip44"} THEN b.seed ELSE w.seed
         /\ v.lastSeed = IF w.type = "deterministic" THEN d.texts["lastSeed"] ELSE w.lastSeed
         /\ v.seedPassphrase = IF w.type = "bip44" THEN b.seedPassphrase ELSE w.seedPassphrase
         /\ v.entries = IF w.type = "xpub" THEN w.entries ELSE UnpackedEntries(w.entries, d.keys)
         /\ v.changeEntries = IF w.type = "xpub" THEN w.changeEntries
                              ELSE UnpackedEntries(w.changeEntries, d.keys)
<1> DEFINE r == UnpackSecrets(w, d)
<1>1. DOMAIN w = Fields
  BY DEF IsRecord
<1>2. w.type \in {"deterministic", "bip44"} => "seed" \in DOMAIN d.texts /\ d.texts["seed"] = b.seed
  BY DEF DataIs, SecretFields
<1>3. w.type = "deterministic" => "lastSeed" \in DOMAIN d.texts
  BY DEF DataIs, SecretFields
<1>4. w.type = "bip44" =>
        "seedPassphrase" \in DOMAIN d.texts /\ d.texts["seedPassphrase"] = b.seedPassphrase
  BY DEF DataIs, SecretFields
<1>5. w.type # "xpub" => Addresses(AllEntries(w)) \subseteq DOMAIN d.keys
  BY DEF DataIs
<1> DEFINE es == UnpackedEntries(w.entries, d.keys)
           fs == UnpackedEntries(w.changeEntries, d.keys)
<1>6. CASE w.type = "xpub"
  BY <1>6, Zenon DEF UnpackSecrets, Ok
<1>7. CASE w.type = "deterministic"
  <2>1. r = Ok([w EXCEPT !.seed = d.texts["seed"], !.lastSeed = d.texts["lastSeed"],
                         !.seedPassphrase = @, !.entries = es, !.changeEntries = fs])
    BY <1>2, <1>3, <1>5, <1>7 DEF UnpackSecrets
  <2>. HIDE DEF es, fs, r
  <2>2. /\ r.err = "ok"
        /\ r.w = [w EXCEPT !.seed = d.texts["seed"], !.lastSeed = d.texts["lastSeed"],
                           !.seedPassphrase = @, !.entries = es, !.changeEntries = fs]
    BY <2>1 DEF Ok
  <2>. QED BY <1>1, <1>2, <1>7, <2>2 DEF IsRecord, Fields, r, es, fs
<1>8. CASE w.type = "bip44"
  <2>1. r = Ok([w EXCEPT !.seed = d.texts["seed"], !.lastSeed = @,
                         !.seedPassphrase = d.texts["seedPassphrase"],
                         !.entries = es, !.changeEntries = fs])
    BY <1>2, <1>4, <1>5, <1>8 DEF UnpackSecrets
  <2>. HIDE DEF es, fs, r
  <2>2. /\ r.err = "ok"
        /\ r.w = [w EXCEPT !.seed = d.texts["seed"], !.lastSeed = @,
                         !.seedPassphrase = d.texts["seedPassphrase"],
                         !.entries = es, !.changeEntries = fs]
    BY <2>1 DEF Ok
  <2>. QED BY <1>1, <1>2, <1>4, <1>8, <2>2 DEF IsRecord, Fields, r, es, fs
<1>9. CASE w.type = "collection"
  <2>1. r = Ok([w EXCEPT !.seed = @, !.lastSeed = @, !.seedPassphrase = @,
                         !.entries = es, !.changeEntries = fs])
    BY <1>5, <1>9 DEF UnpackSecrets
  <2>. HIDE DEF es, fs, r
  <2>2. /\ r.err = "ok"
        /\ r.w = [w EXCEPT !.seed = @, !.lastSeed = @, !.seedPassphrase = @,
                         !.entries = es, !.changeEntries = fs]
    BY <2>1 DEF Ok
  <2>. QED BY <1>1, <1>9, <2>2 DEF IsRecord, Fields, r, es, fs
<1>. QED BY <1>6, <1>7, <1>8, <1>9 DEF WalletTypes

\* The secrets go back to the entries they were taken from.
LEMMA UnpackedShown ==
  ASSUME NEW b, NEW w, w.type \in WalletTypes \ {"xpub"}, NEW es, EntriesAre(b, w, es), NEW keys,
         \A n \in DOMAIN es : keys[es[n].address] = es[n].address.key
  PROVE  SecretsShown(w, UnpackedEntries(es, keys))
<1> DEFINE fs == UnpackedEntries(es, keys)
<1>1. EntriesOK(es)
  BY DEF EntriesAre
<1>2. Resecreted(es, fs) /\ \A n \in DOMAIN es : fs[n].secret = keys[es[n].address]
  BY <1>1, UnpackedResecreted
<1>. HIDE DEF fs
<1>3. DOMAIN fs = DOMAIN es
  BY <1>2, Zenon DEF Resecreted
<1>4. ASSUME NEW n \in DOMAIN fs PROVE fs[n].secret = fs[n].public
  <2>1. fs[n].public = es[n].public
    BY <1>2, <1>3, ResecretedEntry
  <2>2. EntryIs(b, w, es[n], n)
    BY <1>3 DEF EntriesAre
  <2>3. es[n].address.key = es[n].public
    BY <2>2 DEF EntryIs
  <2>. QED BY <1>2, <1>3, <2>1, <2>3
<1>. QED BY <1>4 DEF SecretsShown, fs

\* UnpackSecrets and the cleared fields make an open wallet of a locked one.
LEMMA UnpackedOpens ==
  ASSUME NEW b, Accepted(b), NEW w, Content(b, w), Locked(b, w)
  PROVE  LET r == UnpackSecrets(Copied(w), w.secrets.data)
             v == [r.w EXCEPT !.encrypted = FALSE, !.secrets = Null, !.cryptoType = Null]
         IN  r.err = "ok" /\ SameBut(w, v) /\ Open(b, v)
<1> DEFINE c == Copied(w)
           d == w.secrets.data
           r == UnpackSecrets(c, d)
           u == r.w
           v == [u EXCEPT !.encrypted = FALSE, !.secrets = Null, !.cryptoType = Null]
<1>1. /\ IsRecord(w) /\ w.type \in WalletTypes /\ w.type = b.type
      /\ EntriesAre(b, w, w.entries) /\ EntriesAre(b, w, w.changeEntries)
      /\ DataIs(b, w, d) /\ NoPlaintext(w)
  BY DEF Content, Locked
<1>2. EntriesOK(w.entries) /\ EntriesOK(w.changeEntries)
  BY <1>1 DEF EntriesAre
<1>. HIDE DEF d
<1>3. /\ IsRecord(c)
      /\ c.type = w.type /\ c.coin = w.coin /\ c.bip44Coin = w.bip44Coin /\ c.xpub = w.xpub
      /\ c.node \in BOOLEAN
      /\ c.seed = w.seed /\ c.lastSeed = w.lastSeed /\ c.seedPassphrase = w.seedPassphrase
      /\ c.entries = w.entries /\ c.changeEntries = w.changeEntries
  BY <1>1, CopiedFields
<1>. HIDE DEF c
<1>4. DataIs(b, c, d)
  BY <1>1, <1>3, DataOfSame DEF AllEntries
<1>5. /\ r.err = "ok"
      /\ IsRecord(u)
      /\ u.type = w.type /\ u.coin = w.coin /\ u.bip44Coin = w.bip44Coin /\ u.xpub = w.xpub
      /\ u.node \in BOOLEAN
      /\ u.seed = IF w.type \in {"deterministic", "bip44"} THEN b.seed ELSE w.seed
      /\ u.lastSeed = IF w.type = "deterministic" THEN d.texts["lastSeed"] ELSE w.lastSeed
      /\ u.seedPassphrase = IF w.type = "bip44" THEN b.seedPassphrase ELSE w.seedPassphrase
      /\ u.entries = IF w.type = "xpub" THEN w.entries ELSE UnpackedEntries(w.entries, d.keys)
      /\ u.changeEntries = IF w.type = "xpub" THEN w.changeEntries
                           ELSE UnpackedEntries(w.changeEntries, d.keys)
  BY <1>1, <1>3, <1>4, UnpackFields
<1>. HIDE DEF r
<1>6. /\ IsRecord(v)
      /\ v.type = u.type /\ v.coin = u.coin /\ v.bip44Coin = u.bip44Coin /\ v.xpub = u.xpub
      /\ v.node = u.node
      /\ v.seed = u.seed /\ v.lastSeed = u.lastSeed /\ v.seedPassphrase = u.seedPassphrase
      /\ v.entries = u.entries /\ v.changeEntries = u.changeEntries
      /\ v.encrypted = FALSE /\ v.cryptoType = Null /\ v.secrets = Null
  <2>. HIDE DEF u
  <2>. QED BY <1>5 DEF IsRecord, Fields
<1>. HIDE DEF u, v
<1>7. Resecreted(w.entries, v.entries) /\ Resecreted(w.changeEntries, v.changeEntries)
  BY <1>1, <1>2, <1>5, <1>6, UnpackedResecreted, ResecretedItself
<1>8. SameBut(w, v)
  BY <1>5, <1>6, <1>7 DEF SameBut
<1>9. Len(v.entries) = Len(w.entries)
  BY <1>8, SameButContent
<1>10. v.seed = b.seed /\ v.seedPassphrase = b.seedPassphrase
  BY <1>1, <1>5, <1>6 DEF Accepted, NoPlaintext
<1>11. w.type = "deterministic" => SeedReached(b, v.lastSeed, Len(v.entries))
  BY <1>1, <1>5, <1>6, <1>9 DEF DataIs
<1>12. w.type # "deterministic" => v.lastSeed = Null
  BY <1>1, <1>5, <1>6 DEF NoPlaintext
<1>13. SecretsShown(w, v.entries) /\ SecretsShown(w, v.changeEntries)
  <2>1. CASE w.type = "xpub"
    BY <1>1, <1>5, <1>6, <2>1 DEF SecretsShown, NoPlaintext
  <2>2. CASE w.type # "xpub"
    <3>1. \A n \in DOMAIN w.entries : d.keys[w.entries[n].address] = w.entries[n].address.key
      <4>1. \A a \in Addresses(w.entries) : d.keys[a] = a.key
        BY <1>1, <1>2, <2>2, AddressesJoined DEF DataIs, AllEntries
      <4>. QED BY <4>1 DEF Addresses
    <3>2. \A n \in DOMAIN w.changeEntries :
            d.keys[w.changeEntries[n].address] = w.changeEntries[n].address.key
      <4>1. \A a \in Addresses(w.changeEntries) : d.keys[a] = a.key
        BY <1>1, <1>2, <2>2, AddressesJoined DEF DataIs, AllEntries
      <4>. QED BY <4>1 DEF Addresses
    <3>. QED BY <1>1, <1>5, <1>6, <2>2, <3>1, <3>2, UnpackedShown
  <2>. QED BY <2>1, <2>2
<1>14. Open(b, v)
  BY <1>5, <1>6, <1>10, <1>11, <1>12, <1>13 DEF Open, SecretsShown
<1>. QED BY <1>5, <1>8, <1>14 DEF v, u, r, c, d

\* A locked wallet opens with its password and with no other.
LEMMA UnlockOpens ==
  ASSUME Ordinary, NEW b, Accepted(b), NEW w, Content(b, w), Locked(b, w), NEW p
  PROVE  LET r == Unlock(w, p) IN
         /\ p = w.secrets.password => r.err = "ok" /\ SameBut(w, r.w) /\ Open(b, r.w)
         /\ p # w.secrets.password => r.err \in {"missingPassword", "invalidPassword"} /\ r.w = w
<1> DEFINE r == UnpackSecrets(Copied(w), w.secrets.data)
           v == [r.w EXCEPT !.encrypted = FALSE, !.secrets = Null, !.cryptoType = Null]
<1>1. r.err = "ok" /\ SameBut(w, v) /\ Open(b, v)
  BY UnpackedOpens
<1>2. /\ w.encrypted = TRUE /\ w.cryptoType \in CryptoTypes
      /\ w.secrets.cryptoType = w.cryptoType
      /\ w.secrets.password \in Passwords
      /\ w.secrets = [password |-> w.secrets.password, cryptoType |-> w.cryptoType,
                      data |-> w.secrets.data]
  BY DEF Locked
<1>3. w.secrets # Null /\ w.secrets.password # Null
  BY <1>2, NullIsNoRecord, WalletAssumption
<1>4. p = w.secrets.password => Unlock(w, p) = Ok(v)
  <2>. HIDE DEF v
  <2>1. p = w.secrets.password => Unlock(w, p) = IF r.err # "ok" THEN Fails(r.err, w) ELSE Ok(v)
    BY <1>2, <1>3, Zenon DEF Unlock, v
  <2>. HIDE DEF r
  <2>. QED BY <1>1, <2>1
<1>5. p # w.secrets.password =>
        Unlock(w, p) = Fails("missingPassword", w) \/ Unlock(w, p) = Fails("invalidPassword", w)
  BY <1>2, <1>3, Zenon DEF Unlock
<1>. HIDE DEF v
<1>6. Ok(v).err = "ok" /\ Ok(v).w = v
  BY DEF Ok
<1>7. \A e : Fails(e, w).err = e /\ Fails(e, w).w = w
  BY DEF Fails
<1>. QED BY <1>1, <1>4, <1>5, <1>6, <1>7

\* What Unlock makes of any wallet that holds what it should.
LEMMA UnlockGood ==
  ASSUME Ordinary, NEW b, Accepted(b), NEW w, Good(b, w), NEW p
  PROVE  LET r == Unlock(w, p) IN
         /\ r.err \in Results /\ r.err # "panic"
         /\ r.err # "ok" => r.w = w
         /\ r.err = "ok" => Locked(b, w) /\ Good(b, r.w)
<1>1. CASE Open(b, w)
  <2>1. Unlock(w, p) = Fails("walletNotEncrypted", w)
    BY <1>1, OpenOrLocked DEF Unlock
  <2>. QED BY <2>1 DEF Fails, Results
<1>2. CASE Locked(b, w)
  <2>1. Content(b, w) /\ Split(w)
    BY DEF Good
  <2>2. CASE p = w.secrets.password
    <3>1. Unlock(w, p).err = "ok" /\ SameBut(w, Unlock(w, p).w) /\ Open(b, Unlock(w, p).w)
      BY <1>2, <2>1, <2>2, UnlockOpens
    <3>2. Content(b, Unlock(w, p).w) /\ Split(Unlock(w, p).w)
      BY <2>1, <3>1, SameButContent
    <3>. QED BY <1>2, <3>1, <3>2 DEF Good, Results
  <2>3. CASE p # w.secrets.password
    <3>1. Unlock(w, p).err \in {"missingPassword", "invalidPassword"} /\ Unlock(w, p).w = w
      BY <1>2, <2>1, <2>3, UnlockOpens
    <3>. QED BY <3>1 DEF Results
  <2>. QED BY <2>2, <2>3
<1>. QED BY <1>1, <1>2 DEF Good

\* Erasing a copy of a locked wallet takes nothing from it: GuardUpdate erases the
\* one it has just locked.
LEMMA ErasedCopyGood ==
  ASSUME NEW b, NEW w, Good(b, w), Locked(b, w)
  PROVE  Good(b, Erase(Copied(w)))
<1> DEFINE c == Copied(w)
           v == Erase(c)
<1>1. Content(b, w) /\ Split(w)
  BY DEF Good
<1>2. /\ IsRecord(w) /\ EntriesOK(w.entries) /\ EntriesOK(w.changeEntries)
      /\ w.type \in WalletTypes
  BY <1>1 DEF Content, EntriesAre
<1>3. /\ IsRecord(c)
      /\ c.type = w.type /\ c.coin = w.coin /\ c.bip44Coin = w.bip44Coin /\ c.xpub = w.xpub
      /\ c.node \in BOOLEAN /\ c.encrypted = w.encrypted /\ c.cryptoType = w.cryptoType
      /\ c.secrets = w.secrets
      /\ c.entries = w.entries /\ c.changeEntries = w.changeEntries
  BY <1>2, CopiedFields
<1>. HIDE DEF c
<1>4. /\ IsRecord(v)
      /\ v.type = w.type /\ v.coin = w.coin /\ v.bip44Coin = w.bip44Coin /\ v.xpub = w.xpub
      /\ v.node \in BOOLEAN /\ v.encrypted = w.encrypted /\ v.cryptoType = w.cryptoType
      /\ v.secrets = w.secrets
      /\ v.seed = Null /\ v.lastSeed = Null /\ v.seedPassphrase = Null
      /\ v.entries = ErasedEntries(w.entries)
      /\ v.changeEntries = ErasedEntries(w.changeEntries)
  BY <1>3, EraseFields
<1>. HIDE DEF v
<1>5. SameBut(w, v)
  BY <1>2, <1>4, ErasedResecreted DEF SameBut
<1>6. NoPlaintext(v)
  BY <1>2, <1>4, ErasedEntriesOK DEF NoPlaintext
<1>7. /\ Content(b, v) /\ Split(v) /\ Len(v.entries) = Len(w.entries)
      /\ Addresses(AllEntries(v)) = Addresses(AllEntries(w))
  BY <1>1, <1>5, SameButContent
<1>8. DataIs(b, v, w.secrets.data)
  BY <1>4, <1>7, DataOfSame DEF Locked
<1>9. Locked(b, v)
  BY <1>4, <1>6, <1>8 DEF Locked
<1>. QED BY <1>7, <1>9 DEF Good, v, c

-----------------------------------------------------------------------------
\* What a wallet that holds what it should has to do with the properties.

\* An open wallet with the right content has what its creation gave it.
LEMMA OpenIsIntact ==
  ASSUME NEW w, Content(born, w), Open(born, w)
  PROVE  Intact(w)
<1>1. w.type = "deterministic" =>
        /\ w.lastSeed.root = born.seed
        /\ w.lastSeed.index = Len(w.entries)
        /\ w.entries # <<>> => w.lastSeed.hex
  <2> SUFFICES ASSUME w.type = "deterministic"
               PROVE  /\ w.lastSeed.root = born.seed
                      /\ w.lastSeed.index = Len(w.entries)
                      /\ w.entries # <<>> => w.lastSeed.hex
    OBVIOUS
  <2>1. SeedReached(born, w.lastSeed, Len(w.entries))
    BY DEF Open
  <2>2. w.lastSeed.root = born.seed /\ w.lastSeed.index = Len(w.entries)
    BY <2>1 DEF SeedReached
  <2>3. w.entries # <<>> => Len(w.entries) # 0
    BY EmptySeq DEF Content, EntriesAre, EntriesOK
  <2>. QED BY <2>1, <2>2, <2>3 DEF SeedReached
<1>2. EntriesAre(born, w, AllEntries(w)) /\ SecretsShown(w, AllEntries(w))
  BY AllEntriesAre, AllSecretsShown
<1>3. ASSUME NEW n \in DOMAIN AllEntries(w)
      PROVE  LET e == AllEntries(w)[n] IN
             /\ e.public = ExpectedKey(w, n)
             /\ e.address = [coin |-> w.coin, key |-> e.public]
             /\ e.secret = IF w.type = "xpub" THEN Null ELSE e.public
  <2> DEFINE e == AllEntries(w)[n]
  <2>1. EntryIs(born, w, e, n)
    BY <1>2 DEF EntriesAre
  <2>2. e.secret = IF w.type = "xpub" THEN Null ELSE e.public
    BY <1>2 DEF SecretsShown
  <2>3. ExpectedKey(w, n) = KeyOf(born, w, e, n)
    BY DEF ExpectedKey, KeyOf
  <2>. HIDE DEF e
  <2>4. e.public = KeyOf(born, w, e, n) /\ e.address = [coin |-> w.coin, key |-> e.public]
    BY <2>1 DEF EntryIs
  <2>. QED BY <2>2, <2>3, <2>4 DEF e
<1>4. w.encrypted = FALSE /\ w.seed = born.seed /\ w.seedPassphrase = born.seedPassphrase
  BY DEF Open
<1>5. w.xpub = born.xpub
  BY DEF Content
<1>. QED BY <1>1, <1>3, <1>4, <1>5 DEF Intact

\* Whether it is open or locked, it opens and is intact.
LEMMA HoldsOpens ==
  ASSUME Ordinary, Accepted(born), NEW w, Content(born, w), Open(born, w) \/ Locked(born, w)
  PROVE  LET opened == IF w.encrypted THEN Unlock(w, w.secrets.password) ELSE Ok(w)
         IN  opened.err = "ok" /\ Intact(opened.w)
<1>1. CASE Open(born, w)
  <2>1. w.encrypted = FALSE /\ Intact(w)
    BY <1>1, OpenOrLocked, OpenIsIntact
  <2>. QED BY <2>1 DEF Ok
<1>2. CASE Locked(born, w)
  <2> DEFINE r == Unlock(w, w.secrets.password)
  <2>1. w.encrypted = TRUE
    BY <1>2, OpenOrLocked
  <2>2. r.err = "ok" /\ SameBut(w, r.w) /\ Open(born, r.w)
    BY <1>2, UnlockOpens
  <2>. HIDE DEF r
  <2>3. Content(born, r.w)
    BY <2>2, SameButContent
  <2>4. Intact(r.w)
    BY <2>2, <2>3, OpenIsIntact
  <2>. QED BY <2>1, <2>2, <2>4 DEF r
<1>. QED BY <1>1, <1>2

\* A right entry is an entry.
LEMMA EntryTyped ==
  ASSUME NEW b, NEW w, w.coin \in CoinTypes, NEW e, NEW n, EntryIs(b, w, e, n)
  PROVE  IsEntry(e)
<1>1. e = [address |-> [coin |-> w.coin, key |-> e.public], public |-> e.public,
           secret |-> e.secret, childNumber |-> e.childNumber, change |-> e.change]
  BY DEF EntryIs
<1>2. /\ DOMAIN e = {"address", "public", "secret", "childNumber", "change"}
      /\ DOMAIN e.address = {"coin", "key"} /\ e.address.coin = w.coin
  BY <1>1
<1>3. e.childNumber \in Uint32 /\ e.change \in {0, 1}
  BY ChildBounds DEF EntryIs, Uint32
<1>. QED BY <1>2, <1>3 DEF IsEntry

\* Right entries are entries.
LEMMA EntriesTyped ==
  ASSUME NEW b, NEW w, w.coin \in CoinTypes, NEW es, EntriesAre(b, w, es)
  PROVE  IsEntries(es)
<1>1. DOMAIN es = 1 .. Len(es)
  BY EntriesDomain DEF EntriesAre
<1>2. \A n \in DOMAIN es : IsEntry(es[n])
  BY EntryTyped DEF EntriesAre
<1>. QED BY <1>1, <1>2 DEF IsEntries

\* A wallet with the right content, open or locked, is one.
LEMMA HoldsTyped ==
  ASSUME NEW b, NEW w, Content(b, w), Open(b, w) \/ Locked(b, w)
  PROVE  IsWallet(w)
<1>1. /\ DOMAIN w = Fields /\ w.type \in WalletTypes /\ w.coin \in CoinTypes /\ w.node \in BOOLEAN
  BY DEF Content, IsRecord
<1>2. IsEntries(w.entries) /\ IsEntries(w.changeEntries)
  BY <1>1, EntriesTyped DEF Content
<1>3. w.encrypted \in BOOLEAN /\ w.cryptoType \in CryptoTypes \cup {Null}
  BY DEF Open, Locked
<1>4. w.secrets = Null \/ IsBlob(w.secrets)
  <2>1. ASSUME Locked(b, w) PROVE IsBlob(w.secrets)
    <3> DEFINE s == w.secrets
    <3>1. s = [password |-> s.password, cryptoType |-> w.cryptoType, data |-> s.data]
      BY <2>1 DEF Locked
    <3>2. s.password \in Passwords /\ w.cryptoType \in CryptoTypes /\ DOMAIN s.data = {"texts", "keys"}
      BY <2>1 DEF Locked, DataIs
    <3>. HIDE DEF s
    <3>3. DOMAIN s = {"password", "cryptoType", "data"} /\ s.cryptoType = w.cryptoType
      BY <3>1
    <3>. QED BY <3>2, <3>3 DEF IsBlob, s
  <2>. QED BY <2>1 DEF Open
<1>. QED BY <1>1, <1>2, <1>3, <1>4 DEF IsWallet, Fields

\* Erasing a wallet leaves a wallet: what the caller still holds of a temporary copy.
LEMMA ErasedTyped ==
  ASSUME NEW b, NEW w, Good(b, w)
  PROVE  IsWallet(Erase(w))
<1> DEFINE v == Erase(w)
<1>1. /\ Content(b, w) /\ IsWallet(w)
      /\ IsRecord(w) /\ EntriesAre(b, w, w.entries) /\ EntriesAre(b, w, w.changeEntries)
      /\ w.type \in WalletTypes /\ w.coin \in CoinTypes
  BY HoldsTyped DEF Good, Content
<1>2. /\ IsRecord(v)
      /\ v.type = w.type /\ v.coin = w.coin
      /\ v.node = w.node /\ v.encrypted = w.encrypted /\ v.cryptoType = w.cryptoType
      /\ v.secrets = w.secrets
      /\ v.entries = ErasedEntries(w.entries)
      /\ v.changeEntries = ErasedEntries(w.changeEntries)
  BY <1>1, EraseFields
<1>. HIDE DEF v
<1>3. EntriesAre(b, w, v.entries) /\ EntriesAre(b, w, v.changeEntries)
  <2>1. Resecreted(w.entries, v.entries) /\ Resecreted(w.changeEntries, v.changeEntries)
    BY <1>1, <1>2, ErasedResecreted DEF EntriesAre
  <2>. QED BY <1>1, <2>1, ResecretedEntries
<1>4. IsEntries(v.entries) /\ IsEntries(v.changeEntries)
  BY <1>1, <1>3, EntriesTyped
<1>5. DOMAIN v = Fields
  BY <1>2 DEF IsRecord
<1>6. IsWallet(v)
  BY <1>1, <1>2, <1>4, <1>5 DEF IsWallet, Fields
<1>. QED BY <1>6 DEF v

-----------------------------------------------------------------------------
\* Child numbers: where a chain goes on and what one call adds to it.

\* Below the largest uint32, adding one does not wrap.
LEMMA WrapAddOne ==
  ASSUME NEW a \in 0 .. MaxUint32 - 1
  PROVE  WrapAdd(a, 1) = a + 1
BY ChildNumberAssumption, Z3 DEF WrapAdd

\* The new children in order, all from the first free one on and below the largest
\* uint32.
LEMMA ChildrenInOrder ==
  ASSUME NEW first \in 0 .. MaxUint32, NEW num \in Nat
  PROVE  LET children == NewChildren(first, num)
             k == Cardinality(children)
         IN  /\ k \in Nat
             /\ \A n \in 1 .. k :
                  InOrder(children)[n] \in 0 .. MaxUint32 - 1 /\ first <= InOrder(children)[n]
             /\ \A m, n \in 1 .. k : m < n => InOrder(children)[m] < InOrder(children)[n]
<1> DEFINE C == NewChildren(first, num)
           k == Cardinality(C)
<1>1. MaxUint32 \in Nat /\ MaxUint32 >= 1
  BY ChildBounds
<1>2. \A c \in C : c \in 0 .. MaxUint32 - 1 /\ first <= c
  BY <1>1 DEF NewChildren, TriedChildren, CapNum, Uint32
<1>3. k \in Nat
  BY NewChildrenCount
<1>. HIDE DEF C
<1>4. C \in SUBSET (0 .. MaxUint32)
  BY <1>1, <1>2
<1>5. \E s \in [1 .. k -> C] : \A m, n \in 1 .. k : m < n => s[m] < s[n]
  BY <1>1, <1>4, AscendingExists
<1>6. \E s \in [1 .. k -> C] : Ascending(s)
  BY <1>5 DEF Ascending
<1>7. InOrder(C) \in [1 .. k -> C] /\ Ascending(InOrder(C))
  BY <1>6 DEF InOrder
<1>8. \A n \in 1 .. k : InOrder(C)[n] \in C
  BY <1>7
<1>9. \A m, n \in 1 .. k : m < n => InOrder(C)[m] < InOrder(C)[n]
  BY <1>7 DEF Ascending
<1>. QED BY <1>2, <1>3, <1>8, <1>9 DEF C

\* One after the last child number is above all of a chain, and no wrap.
LEMMA NextChild ==
  ASSUME NEW b, NEW w, NEW es, EntriesAre(b, w, es), Ascending(ChildNumbers(es))
  PROVE  /\ NextChildIdx(ChildNumbers(es)) \in 0 .. MaxUint32
         /\ \A n \in DOMAIN es : es[n].childNumber < NextChildIdx(ChildNumbers(es))
<1> DEFINE chain == ChildNumbers(es)
<1>1. /\ Len(es) \in Nat /\ DOMAIN es = 1 .. Len(es)
      /\ MaxUint32 \in Nat /\ MaxUint32 >= 1
  BY EntriesDomain, ChildBounds DEF EntriesAre
<1>2. chain = [n \in 1 .. Len(es) |-> es[n].childNumber]
  BY <1>1 DEF ChildNumbers
<1>3. \A n \in 1 .. Len(es) : es[n].childNumber \in 0 .. MaxUint32 - 1
  BY <1>1 DEF EntriesAre, EntryIs
<1>4. CASE Len(es) = 0
  BY <1>1, <1>2, <1>4, ChildBounds DEF NextChildIdx
<1>5. CASE Len(es) # 0
  <2> DEFINE last == es[Len(es)].childNumber
  <2>1. chain # <<>> /\ Len(chain) = Len(es) /\ chain[Len(es)] = last
    BY <1>1, <1>2, <1>5
  <2>2. last \in 0 .. MaxUint32 - 1
    BY <1>1, <1>3, <1>5
  <2>3. NextChildIdx(chain) = last + 1
    <3>. HIDE DEF chain, last
    <3>. QED BY <2>1, <2>2, WrapAddOne DEF NextChildIdx
  <2>4. ASSUME NEW n \in DOMAIN es PROVE es[n].childNumber <= last
    <3>1. CASE n = Len(es)
      BY <2>2, <3>1
    <3>2. CASE n < Len(es)
      <4>1. chain[n] < chain[Len(es)]
        BY <1>1, <1>2, <3>2 DEF Ascending
      <4>. QED BY <1>1, <1>2, <1>3, <2>1, <2>2, <4>1
    <3>. QED BY <1>1, <3>1, <3>2
  <2>5. \A n \in DOMAIN es : es[n].childNumber \in Int
    BY <1>1, <1>3
  <2>. HIDE DEF chain, last
  <2>6. \A n \in DOMAIN es : es[n].childNumber < NextChildIdx(chain)
    BY <2>2, <2>3, <2>4, <2>5
  <2>7. NextChildIdx(chain) \in 0 .. MaxUint32
    BY <1>1, <2>2, <2>3
  <2>. QED BY <2>6, <2>7 DEF chain
<1>. QED BY <1>4, <1>5

\* A chain that goes on above its last child number is still in order.
LEMMA ChainGoesOn ==
  ASSUME NEW s, NEW t, EntriesOK(s), EntriesOK(t),
         Ascending(ChildNumbers(s)), Ascending(ChildNumbers(t)),
         \A m \in DOMAIN s, n \in DOMAIN t : s[m].childNumber < t[n].childNumber
  PROVE  Ascending(ChildNumbers(s \o t))
<1> DEFINE u == s \o t
<1>1. /\ Len(s) \in Nat /\ Len(t) \in Nat /\ DOMAIN s = 1 .. Len(s) /\ DOMAIN t = 1 .. Len(t)
      /\ DOMAIN u = 1 .. Len(s) + Len(t)
  BY JoinedSequence
<1>2. \A n \in DOMAIN u : \/ n \in DOMAIN s /\ u[n] = s[n]
                          \/ n - Len(s) \in DOMAIN t /\ u[n] = t[n - Len(s)]
  BY JoinedPlaces
<1>3. \A m, n \in DOMAIN s : m < n => s[m].childNumber < s[n].childNumber
  BY DEF Ascending, ChildNumbers
<1>4. \A m, n \in DOMAIN t : m < n => t[m].childNumber < t[n].childNumber
  BY DEF Ascending, ChildNumbers
<1>. HIDE DEF u
<1>5. ASSUME NEW m \in DOMAIN u, NEW n \in DOMAIN u, m < n
      PROVE  u[m].childNumber < u[n].childNumber
  <2>1. m \in Int /\ n \in Int
    BY <1>1
  <2>2. CASE m \in DOMAIN s /\ u[m] = s[m] /\ n \in DOMAIN s /\ u[n] = s[n]
    BY <1>3, <1>5, <2>2
  <2>3. CASE m \in DOMAIN s /\ u[m] = s[m] /\ n - Len(s) \in DOMAIN t /\ u[n] = t[n - Len(s)]
    BY <2>3
  <2>4. CASE /\ m - Len(s) \in DOMAIN t /\ u[m] = t[m - Len(s)]
             /\ n - Len(s) \in DOMAIN t /\ u[n] = t[n - Len(s)]
    BY <1>1, <1>4, <1>5, <2>1, <2>4
  <2>5. CASE m - Len(s) \in DOMAIN t /\ n \in DOMAIN s
    BY <1>1, <1>5, <2>1, <2>5
  <2>. QED BY <1>2, <2>2, <2>3, <2>4, <2>5
<1>. QED BY <1>5 DEF Ascending, ChildNumbers, u

-----------------------------------------------------------------------------
\* The entries one call adds to a chain of an open wallet.
Added(b, w, fs, change, first) ==
  /\ EntriesAre(b, w, fs)
  /\ SecretsShown(w, fs)
  /\ OnChain(fs, change)
  /\ Ascending(ChildNumbers(fs))
  /\ \A n \in DOMAIN fs : first <= fs[n].childNumber

\* Entries whose child numbers grow with the place are in order.
LEMMA InOrderByPlace ==
  ASSUME NEW fs, \A m, n \in DOMAIN fs : m < n => fs[m].childNumber < fs[n].childNumber
  PROVE  Ascending(ChildNumbers(fs))
BY DEF Ascending, ChildNumbers

\* The entries made of the children of a call, by ascending number, can be appended.
LEMMA AddedInOrder ==
  ASSUME NEW b, NEW w, NEW change, NEW first \in 0 .. MaxUint32, NEW num \in Nat, NEW fs,
         fs = [n \in 1 .. Cardinality(NewChildren(first, num)) |-> fs[n]],
         \A n \in DOMAIN fs :
           /\ fs[n].childNumber = InOrder(NewChildren(first, num))[n]
           /\ fs[n].change = change
           /\ fs[n].secret = IF w.type = "xpub" THEN Null ELSE fs[n].public
           /\ fs[n].childNumber \in 0 .. MaxUint32 - 1 => EntryIs(b, w, fs[n], n)
  PROVE  Added(b, w, fs, change, first)
<1> DEFINE C == NewChildren(first, num)
           k == Cardinality(C)
<1>1. /\ k \in Nat
      /\ \A n \in 1 .. k : InOrder(C)[n] \in 0 .. MaxUint32 - 1 /\ first <= InOrder(C)[n]
      /\ \A m, n \in 1 .. k : m < n => InOrder(C)[m] < InOrder(C)[n]
  BY ChildrenInOrder
<1>. HIDE DEF C, k
<1>2. fs = [n \in 1 .. k |-> fs[n]]
  BY DEF k, C
<1>3. fs \in Seq(Image(fs)) /\ DOMAIN fs = 1 .. k
  BY <1>1, <1>2, FunctionIsSeq
<1>4. \A n \in 1 .. k : fs[n].childNumber = InOrder(C)[n]
  BY <1>3 DEF C
<1>5. ASSUME NEW n \in DOMAIN fs PROVE EntryIs(b, w, fs[n], n)
  BY <1>1, <1>3, <1>4
<1>6. EntriesAre(b, w, fs)
  BY <1>3, <1>5, EntryDomain DEF EntriesAre, EntriesOK
<1>7. SecretsShown(w, fs)
  BY DEF SecretsShown
<1>8. OnChain(fs, change)
  BY DEF OnChain
<1>9. Ascending(ChildNumbers(fs))
  <2>1. ASSUME NEW m \in DOMAIN fs, NEW n \in DOMAIN fs, m < n
        PROVE  fs[m].childNumber < fs[n].childNumber
    <3>1. m \in 1 .. k /\ n \in 1 .. k
      BY <1>3
    <3>2. InOrder(C)[m] < InOrder(C)[n]
      BY <1>1, <2>1, <3>1
    <3>. QED BY <1>4, <3>1, <3>2
  <2>. QED BY <2>1, InOrderByPlace
<1>10. \A n \in DOMAIN fs : first <= fs[n].childNumber
  BY <1>1, <1>3, <1>4
<1>. QED BY <1>6, <1>7, <1>8, <1>9, <1>10 DEF Added

\* A generated entry is that of its key, child number and chain.
LEMMA NewEntryFields ==
  ASSUME NEW w, NEW key, NEW secret, NEW c, NEW change
  PROVE  LET e == NewEntry(w, key, secret, c, change) IN
         /\ e = [address |-> [coin |-> w.coin, key |-> e.public], public |-> e.public,
                 secret |-> e.secret, childNumber |-> e.childNumber, change |-> e.change]
         /\ e.public = key /\ e.secret = secret /\ e.childNumber = c /\ e.change = change
         /\ e.address.key = key
BY DEF NewEntry


\* The children generateEntries and PeekChangeEntry derive for a bip44 wallet.
LEMMA Bip44Added ==
  ASSUME NEW b, NEW w, w.type = "bip44", Open(b, w), NEW change \in {0, 1},
         NEW first \in 0 .. MaxUint32, NEW num \in Nat
  PROVE  Added(b, w, Bip44Entries(w, num, change, first), change, first)
<1> DEFINE C == NewChildren(first, num)
           k == Cardinality(C)
           key(n) == Key(Bip44Root(w), change, InOrder(C)[n])
           fs == Bip44Entries(w, num, change, first)
<1>1. fs = [n \in 1 .. k |-> NewEntry(w, key(n), key(n), InOrder(C)[n], change)]
  BY DEF Bip44Entries
<1>2. Bip44Root(w) = <<b.seed, b.seedPassphrase, w.bip44Coin>>
  BY DEF Bip44Root, Open
<1>3. ASSUME NEW n \in 1 .. k
      PROVE  /\ fs[n].childNumber = InOrder(C)[n]
             /\ fs[n].change = change
             /\ fs[n].secret = fs[n].public
             /\ fs[n].childNumber \in 0 .. MaxUint32 - 1 => EntryIs(b, w, fs[n], n)
  <2> DEFINE c == InOrder(C)[n]
             e == NewEntry(w, key(n), key(n), c, change)
  <2>1. fs[n] = e
    BY <1>1
  <2>2. /\ e = [address |-> [coin |-> w.coin, key |-> e.public], public |-> e.public,
                secret |-> e.secret, childNumber |-> e.childNumber, change |-> e.change]
        /\ e.public = key(n) /\ e.secret = key(n) /\ e.childNumber = c /\ e.change = change
    <3>. HIDE DEF key, C
    <3>. QED BY NewEntryFields
  <2>3. key(n) = Key(<<b.seed, b.seedPassphrase, w.bip44Coin>>, change, c)
    BY <1>2
  <2>. HIDE DEF e, key, c, fs
  <2>4. KeyOf(b, w, e, n) = key(n)
    BY <2>2, <2>3 DEF KeyOf
  <2>5. e.childNumber \in 0 .. MaxUint32 - 1 => EntryIs(b, w, e, n)
    BY <2>2, <2>4 DEF EntryIs
  <2>. QED BY <2>1, <2>2, <2>5 DEF c
<1>4. fs = [n \in 1 .. k |-> fs[n]] /\ DOMAIN fs = 1 .. k
  BY <1>1, Zenon
<1>. HIDE DEF fs
<1>5. ASSUME NEW n \in DOMAIN fs
      PROVE  fs[n].secret = IF w.type = "xpub" THEN Null ELSE fs[n].public
  BY <1>3, <1>4
<1>6. Added(b, w, fs, change, first)
  BY <1>3, <1>4, <1>5, AddedInOrder
<1>. QED BY <1>6 DEF fs

\* Those of an xpub wallet, which has no secret keys.
LEMMA XPubAdded ==
  ASSUME NEW b, NEW w, w.type = "xpub", w.xpub = b.xpub,
         NEW first \in 0 .. MaxUint32, NEW num \in Nat
  PROVE  LET C == NewChildren(first, num)
             fs == [n \in 1 .. Cardinality(C) |->
                      NewEntry(w, Key(w.xpub, 0, InOrder(C)[n]), Null, InOrder(C)[n], 0)]
         IN  Added(b, w, fs, 0, first)
<1> DEFINE C == NewChildren(first, num)
           k == Cardinality(C)
           key(n) == Key(w.xpub, 0, InOrder(C)[n])
           fs == [n \in 1 .. k |-> NewEntry(w, key(n), Null, InOrder(C)[n], 0)]
<1>3. ASSUME NEW n \in 1 .. k
      PROVE  /\ fs[n].childNumber = InOrder(C)[n]
             /\ fs[n].change = 0
             /\ fs[n].secret = Null
             /\ fs[n].childNumber \in 0 .. MaxUint32 - 1 => EntryIs(b, w, fs[n], n)
  <2> DEFINE c == InOrder(C)[n]
             e == NewEntry(w, key(n), Null, c, 0)
  <2>1. fs[n] = e
    OBVIOUS
  <2>2. /\ e = [address |-> [coin |-> w.coin, key |-> e.public], public |-> e.public,
                secret |-> e.secret, childNumber |-> e.childNumber, change |-> e.change]
        /\ e.public = key(n) /\ e.secret = Null /\ e.childNumber = c /\ e.change = 0
    <3>. HIDE DEF key, C
    <3>. QED BY NewEntryFields
  <2>3. key(n) = Key(b.xpub, 0, c)
    OBVIOUS
  <2>. HIDE DEF e, key, c, fs
  <2>4. KeyOf(b, w, e, n) = key(n)
    BY <2>2, <2>3 DEF KeyOf
  <2>5. e.childNumber \in 0 .. MaxUint32 - 1 => EntryIs(b, w, e, n)
    BY <2>2, <2>4 DEF EntryIs
  <2>. QED BY <2>1, <2>2, <2>5 DEF c
<1>4. fs = [n \in 1 .. k |-> fs[n]] /\ DOMAIN fs = 1 .. k
  BY Zenon
<1>. HIDE DEF fs
<1>5. Added(b, w, fs, 0, first)
  BY <1>3, <1>4, AddedInOrder
<1>. QED BY <1>5 DEF fs

-----------------------------------------------------------------------------
\* An open wallet that got more entries.

\* Right entries appended to right entries are right.
LEMMA EntriesJoined ==
  ASSUME NEW b, NEW w, NEW es, EntriesAre(b, w, es), SecretsShown(w, es),
         NEW fs, EntriesOK(fs), SecretsShown(w, fs),
         \A n \in DOMAIN fs : EntryIs(b, w, fs[n], Len(es) + n)
  PROVE  EntriesAre(b, w, es \o fs) /\ SecretsShown(w, es \o fs)
<1> DEFINE u == es \o fs
<1>1. EntriesOK(es)
  BY DEF EntriesAre
<1>2. EntriesOK(u) /\ Len(es) \in Nat
  BY <1>1, JoinedSequence
<1>3. ASSUME NEW n \in DOMAIN u
      PROVE  EntryIs(b, w, u[n], n) /\ u[n].secret = IF w.type = "xpub" THEN Null ELSE u[n].public
  <2>1. CASE n \in DOMAIN es /\ u[n] = es[n]
    <3>. HIDE DEF u
    <3>. QED BY <2>1 DEF EntriesAre, SecretsShown
  <2>2. CASE n - Len(es) \in DOMAIN fs /\ u[n] = fs[n - Len(es)] /\ n = Len(es) + (n - Len(es))
    <3>. HIDE DEF u
    <3>1. EntryIs(b, w, fs[n - Len(es)], Len(es) + (n - Len(es)))
      BY <2>2
    <3>. QED BY <2>2, <3>1 DEF SecretsShown
  <2>. QED BY <1>1, <2>1, <2>2, JoinedPlaces
<1>. QED BY <1>2, <1>3 DEF EntriesAre, SecretsShown

\* A chain of a bip44 or an xpub wallet that goes on where it should.
LEMMA ChainGrown ==
  ASSUME NEW b, NEW w, w.type \in WalletTypes \ {"deterministic"},
         NEW es, EntriesAre(b, w, es), SecretsShown(w, es), Ascending(ChildNumbers(es)),
         NEW change, NEW fs, Added(b, w, fs, change, NextChildIdx(ChildNumbers(es)))
  PROVE  /\ EntriesAre(b, w, es \o fs)
         /\ SecretsShown(w, es \o fs)
         /\ Ascending(ChildNumbers(es \o fs))
         /\ OnChain(es, change) => OnChain(es \o fs, change)
<1>1. EntriesOK(es) /\ EntriesOK(fs)
  BY DEF EntriesAre, Added
<1>2. EntriesAre(b, w, es \o fs) /\ SecretsShown(w, es \o fs)
  <2>1. \A n \in DOMAIN fs : EntryIs(b, w, fs[n], Len(es) + n)
    BY EntryAnywhere DEF Added, EntriesAre
  <2>2. SecretsShown(w, fs)
    BY DEF Added
  <2>. QED BY <1>1, <2>1, <2>2, EntriesJoined
<1>3. \A m \in DOMAIN es, n \in DOMAIN fs : es[m].childNumber < fs[n].childNumber
  <2> DEFINE next == NextChildIdx(ChildNumbers(es))
  <2>1. next \in 0 .. MaxUint32 /\ \A m \in DOMAIN es : es[m].childNumber < next
    BY NextChild
  <2>. HIDE DEF next
  <2>2. \A n \in DOMAIN fs : next <= fs[n].childNumber
    BY DEF Added, next
  <2>3. \A m \in DOMAIN es : es[m].childNumber \in Int
    BY ChildBounds DEF EntriesAre, EntryIs
  <2>4. \A n \in DOMAIN fs : fs[n].childNumber \in Int
    BY ChildBounds DEF Added, EntriesAre, EntryIs
  <2>5. next \in Int
    BY <2>1, ChildBounds
  <2>. QED BY <2>1, <2>2, <2>3, <2>4, <2>5
<1>4. Ascending(ChildNumbers(es \o fs))
  BY <1>1, <1>3, ChainGoesOn DEF Added
<1>5. ASSUME OnChain(es, change) PROVE OnChain(es \o fs, change)
  <2>1. \A n \in DOMAIN (es \o fs) : \/ n \in DOMAIN es /\ (es \o fs)[n] = es[n]
                                     \/ n - Len(es) \in DOMAIN fs /\ (es \o fs)[n] = fs[n - Len(es)]
    BY <1>1, JoinedPlaces
  <2> DEFINE u == es \o fs
  <2>. HIDE DEF u
  <2>2. \A n \in DOMAIN u : \/ n \in DOMAIN es /\ u[n] = es[n]
                            \/ n - Len(es) \in DOMAIN fs /\ u[n] = fs[n - Len(es)]
    BY <2>1 DEF u
  <2>3. OnChain(u, change)
    BY <1>5, <2>2 DEF Added, OnChain
  <2>. QED BY <2>3 DEF u
<1>. QED BY <1>2, <1>4, <1>5

\* What entry generation and AddEntry leave alone, ...
SameRest(w, v) ==
  /\ IsRecord(v)
  /\ v.type = w.type /\ v.coin = w.coin /\ v.bip44Coin = w.bip44Coin /\ v.xpub = w.xpub
  /\ v.node = w.node /\ v.encrypted = w.encrypted /\ v.cryptoType = w.cryptoType
  /\ v.secrets = w.secrets /\ v.seed = w.seed /\ v.seedPassphrase = w.seedPassphrase

\* ... and what the entries they add must be for nothing to be lost.
Regrown(b, w, v) ==
  /\ SameRest(w, v)
  /\ EntriesAre(b, w, v.entries) /\ SecretsShown(w, v.entries)
  /\ EntriesAre(b, w, v.changeEntries) /\ SecretsShown(w, v.changeEntries)
  /\ w.type # "bip44" => v.changeEntries = <<>>
  /\ w.type = "deterministic" => SeedReached(b, v.lastSeed, Len(v.entries))
  /\ w.type # "deterministic" => v.lastSeed = Null
  /\ Split(v)

\* An open wallet whose chains grew as the code grows them is good.
LEMMA RegrownGood ==
  ASSUME NEW b, NEW w, Content(b, w), Open(b, w), NEW v, Regrown(b, w, v)
  PROVE  Content(b, v) /\ Open(b, v) /\ Good(b, v)
<1>1. EntriesAre(b, v, v.entries) /\ EntriesAre(b, v, v.changeEntries)
  BY SameEntries DEF Regrown, SameRest
<1>2. SecretsShown(v, v.entries) /\ SecretsShown(v, v.changeEntries)
  BY DEF Regrown, SameRest, SecretsShown
<1>3. Content(b, v)
  BY <1>1 DEF Regrown, SameRest, Content
<1>4. Open(b, v)
  BY <1>2 DEF Regrown, SameRest, Open
<1>. QED BY <1>3, <1>4 DEF Good, Regrown

Grown(w, es, fs, s, v) ==
  SameRest(w, v) /\ v.entries = es /\ v.changeEntries = fs /\ v.lastSeed = s

\* Setting the entries of a chain, and the state of the hash chain, changes nothing else.
LEMMA GrownFields ==
  ASSUME NEW w, IsRecord(w), NEW es, NEW s
  PROVE  /\ Grown(w, es, w.changeEntries, w.lastSeed, [w EXCEPT !.entries = es])
         /\ Grown(w, w.entries, es, w.lastSeed, [w EXCEPT !.changeEntries = es])
         /\ Grown(w, es, w.changeEntries, s, [w EXCEPT !.lastSeed = s, !.entries = es])
BY DEF Grown, SameRest, IsRecord, Fields

-----------------------------------------------------------------------------
\* What the operations that add entries return: a wallet from which nothing is lost,
\* or the one they were given.  Only an xpub wallet without its parsed key panics.
Outcome(b, w, r) ==
  /\ r.err \in Results
  /\ r.err # "ok" => r.w = w
  /\ r.err = "ok" => Good(b, r.w)
  /\ r.err = "panic" => w.type = "xpub" /\ ~w.node

\* The errors that leave the wallet as it is.
LEMMA RefusedOutcome ==
  ASSUME NEW b, NEW w,
         NEW e \in {"notImplemented", "walletEncrypted", "numTooLarge", "chainNodeFailed",
                    "childFailed", "noMoreChangeAddresses", "invalidEntry", "duplicateAddress",
                    "invalidMnemonic"}
  PROVE  Outcome(b, w, Fails(e, w))
BY DEF Outcome, Fails, Results

\* Success with a good wallet is a good outcome.
LEMMA OkOutcome ==
  ASSUME NEW b, NEW w, NEW v, Good(b, v)
  PROVE  Outcome(b, w, Ok(v))
BY DEF Outcome, Ok, Results

\* The seed a deterministic wallet goes on from is the one it was created from.
LEMMA GenerateDeterministicGood ==
  ASSUME Ordinary, NEW b, Accepted(b), NEW w, Good(b, w), Open(b, w), w.type = "deterministic",
         NEW num \in Nat
  PROVE  Outcome(b, w, GenerateDeterministic(w, num))
<1> DEFINE es == w.entries
           start == IF es = <<>> THEN SeedAt(w.seed, 0) ELSE w.lastSeed
           steps == Iterations(num)
           key(n) == Key(start.root, 0, start.index + n)
           fs == [n \in 1 .. steps |-> NewEntry(w, key(n), key(n), 0, 0)]
           s == HexSeedAt(start.root, start.index + steps)
           v == [w EXCEPT !.lastSeed = s, !.entries = es \o fs]
           r == GenerateDeterministic(w, num)
<1>1. /\ Content(b, w) /\ IsRecord(w)
      /\ EntriesAre(b, w, es) /\ EntriesOK(es) /\ SecretsShown(w, es)
      /\ w.changeEntries = <<>>
      /\ EntriesAre(b, w, w.changeEntries) /\ SecretsShown(w, w.changeEntries)
      /\ w.seed = b.seed /\ SeedReached(b, w.lastSeed, Len(es))
  BY DEF Good, Content, Open, EntriesAre
<1>2. b.seed # Null
  BY <1>1 DEF Accepted, Content
<1>3. Len(es) \in Nat /\ (es = <<>> <=> Len(es) = 0)
  BY <1>1, EntriesDomain, EmptySeq DEF EntriesOK
<1>4. steps \in Nat
  BY IterationsNat
<1>5. start # Null /\ start.root = b.seed /\ start.index = Len(es) /\ (es # <<>> => start.hex)
  <2>1. CASE es = <<>>
    <3>1. start = [root |-> b.seed, index |-> 0, hex |-> FALSE]
      BY <1>1, <2>1 DEF SeedAt
    <3>2. [root |-> b.seed, index |-> 0, hex |-> FALSE] # Null
      BY NullIsNoRecord
    <3>. HIDE DEF start
    <3>. QED BY <1>3, <2>1, <3>1, <3>2
  <2>2. CASE es # <<>>
    <3>1. start = w.lastSeed
      BY <2>2
    <3>. HIDE DEF start
    <3>2. start = [root |-> b.seed, index |-> Len(es), hex |-> start.hex]
      BY <1>1, <3>1 DEF SeedReached
    <3>3. [root |-> b.seed, index |-> Len(es), hex |-> start.hex] # Null
      BY NullIsNoRecord
    <3>4. start.hex
      BY <1>1, <1>3, <2>2, <3>1 DEF SeedReached
    <3>. QED BY <3>2, <3>3, <3>4
  <2>. QED BY <2>1, <2>2
<1>6. r = Ok(w) \/ r = Ok(v)
  <2>1. ~(start = Null \/ start.root = Null) /\ ~(es # <<>> /\ ~start.hex)
    BY <1>2, <1>5
  <2> HIDE DEF steps
  <2>. QED BY <2>1 DEF GenerateDeterministic, steps
<1>. HIDE DEF start, steps
<1>7. /\ fs = [n \in 1 .. steps |-> fs[n]] /\ DOMAIN fs = 1 .. steps
      /\ \A n \in 1 .. steps : fs[n] = NewEntry(w, key(n), key(n), 0, 0)
  OBVIOUS
<1>. HIDE DEF fs
<1>8. ASSUME NEW n \in 1 .. steps
      PROVE  EntryIs(b, w, fs[n], Len(es) + n) /\ fs[n].secret = fs[n].public
  <2> DEFINE e == NewEntry(w, key(n), key(n), 0, 0)
  <2>2. /\ e = [address |-> [coin |-> w.coin, key |-> e.public], public |-> e.public,
                secret |-> e.secret, childNumber |-> e.childNumber, change |-> e.change]
        /\ e.public = key(n) /\ e.secret = key(n) /\ e.childNumber = 0 /\ e.change = 0
    <3>. HIDE DEF key
    <3>. QED BY NewEntryFields
  <2>3. key(n) = Key(b.seed, 0, Len(es) + n)
    BY <1>5
  <2>. HIDE DEF e, key
  <2>4. EntryIs(b, w, e, Len(es) + n)
    BY <2>2, <2>3, ChildBounds DEF EntryIs, KeyOf
  <2>5. fs[n] = e
    BY <1>7 DEF e
  <2>. QED BY <2>2, <2>4, <2>5
<1>9. EntriesOK(fs) /\ Len(fs) = steps
  <2>1. fs \in Seq(Image(fs))
    BY <1>4, <1>7, FunctionIsSeq
  <2>2. \A n \in 1 .. steps : {"address", "secret"} \subseteq DOMAIN fs[n]
    BY <1>8, EntryDomain
  <2>. QED BY <1>4, <1>7, <2>1, <2>2 DEF EntriesOK
<1>10. SecretsShown(w, fs)
  BY <1>7, <1>8 DEF SecretsShown
<1>11. EntriesAre(b, w, es \o fs) /\ SecretsShown(w, es \o fs)
  BY <1>1, <1>7, <1>8, <1>9, <1>10, EntriesJoined
<1>12. Len(es \o fs) = Len(es) + steps
  BY <1>1, <1>9, JoinedSequence
<1>13. SeedReached(b, s, Len(es \o fs))
  BY <1>5, <1>12 DEF SeedReached, HexSeedAt
<1>14. Grown(w, es \o fs, w.changeEntries, s, v)
  <2>. HIDE DEF s
  <2>. QED BY <1>1, GrownFields
<1>. HIDE DEF v, s
<1>15. Split(v)
  BY <1>14 DEF Split, SameRest, Grown
<1>16. Regrown(b, w, v)
  BY <1>1, <1>11, <1>13, <1>14, <1>15 DEF Regrown, Grown
<1>17. Good(b, v)
  BY <1>1, <1>16, RegrownGood
<1>. QED BY <1>6, <1>17, OkOutcome

\* One or more children further on the external chain of a bip44 or xpub wallet.
LEMMA ExternalGrown ==
  ASSUME NEW b, NEW w, Good(b, w), Open(b, w), w.type \in {"bip44", "xpub"},
         NEW fs, Added(b, w, fs, 0, NextChildIdx(ChildNumbers(w.entries)))
  PROVE  Good(b, [w EXCEPT !.entries = w.entries \o fs])
<1> DEFINE v == [w EXCEPT !.entries = w.entries \o fs]
<1>1. /\ Content(b, w) /\ IsRecord(w) /\ Split(w)
      /\ EntriesAre(b, w, w.entries) /\ SecretsShown(w, w.entries)
      /\ EntriesAre(b, w, w.changeEntries) /\ SecretsShown(w, w.changeEntries)
      /\ w.type # "bip44" => w.changeEntries = <<>>
      /\ w.lastSeed = Null
  BY DEF Good, Content, Open
<1>2. Ascending(ChildNumbers(w.entries)) /\ Ascending(ChildNumbers(w.changeEntries))
  BY <1>1 DEF Split
<1>3. /\ EntriesAre(b, w, w.entries \o fs) /\ SecretsShown(w, w.entries \o fs)
      /\ Ascending(ChildNumbers(w.entries \o fs))
      /\ OnChain(w.entries, 0) => OnChain(w.entries \o fs, 0)
  BY <1>1, <1>2, ChainGrown DEF WalletTypes
<1>4. Grown(w, w.entries \o fs, w.changeEntries, w.lastSeed, v)
  BY <1>1, GrownFields
<1>. HIDE DEF v
<1>5. Split(v)
  BY <1>1, <1>2, <1>3, <1>4 DEF Split, SameRest, Grown
<1>6. Regrown(b, w, v)
  BY <1>1, <1>3, <1>4, <1>5 DEF Regrown, Grown
<1>7. Good(b, v)
  BY <1>1, <1>6, RegrownGood
<1>. QED BY <1>7 DEF v

\* GenerateAddresses of a bip44 wallet appends to the external chain.
LEMMA GenerateBip44Good ==
  ASSUME NEW b, Accepted(b), NEW w, Good(b, w), Open(b, w), w.type = "bip44", NEW num \in Nat
  PROVE  Outcome(b, w, GenerateBip44(w, num))
<1> DEFINE first == NextChildIdx(ChildNumbers(w.entries))
           fs == Bip44Entries(w, num, 0, first)
           v == [w EXCEPT !.entries = w.entries \o fs]
           r == GenerateBip44(w, num)
<1>1. \/ \E e \in {"numTooLarge", "invalidMnemonic", "chainNodeFailed"} : r = Fails(e, w)
      \/ r = Ok(v)
  <2>. HIDE DEF v
  <2>. QED BY DEF GenerateBip44, ChainError, v
<1>2. first \in 0 .. MaxUint32
  BY NextChild DEF Good, Content, Split
<1>. HIDE DEF first
<1>3. Added(b, w, fs, 0, first)
  BY <1>2, Bip44Added
<1>. HIDE DEF fs, r
<1>4. Good(b, v)
  BY <1>3, ExternalGrown DEF first
<1>. HIDE DEF v
<1>. QED BY <1>1, <1>4, RefusedOutcome, OkOutcome DEF r

\* GenerateAddresses of an xpub wallet appends to its one chain.
LEMMA GenerateXPubGood ==
  ASSUME NEW b, Accepted(b), NEW w, Good(b, w), Open(b, w), w.type = "xpub", NEW num \in Nat
  PROVE  Outcome(b, w, GenerateXPub(w, num))
<1> DEFINE first == NextChildIdx(ChildNumbers(w.entries))
           C == NewChildren(first, num)
           fs == [n \in 1 .. Cardinality(C) |->
                    NewEntry(w, Key(w.xpub, 0, InOrder(C)[n]), Null, InOrder(C)[n], 0)]
           v == [w EXCEPT !.entries = w.entries \o fs]
           r == GenerateXPub(w, num)
<1>1. \/ \E e \in {"numTooLarge", "childFailed"} : r = Fails(e, w)
      \/ r = Fails("panic", w) /\ ~w.node
      \/ r = Ok(v)
  <2>. HIDE DEF v
  <2>. QED BY DEF GenerateXPub, v
<1>2. first \in 0 .. MaxUint32
  BY NextChild DEF Good, Content, Split
<1>. HIDE DEF first
<1>3. Added(b, w, fs, 0, first)
  BY <1>2, XPubAdded DEF Good, Content
<1>. HIDE DEF fs, r
<1>4. Good(b, v)
  BY <1>3, ExternalGrown DEF first
<1>. HIDE DEF v
<1>5. ~w.node => Outcome(b, w, Fails("panic", w))
  BY DEF Outcome, Fails, Results
<1>. QED BY <1>1, <1>4, <1>5, RefusedOutcome, OkOutcome DEF r

\* GenerateAddresses of any wallet.
LEMMA GenerateAddressesGood ==
  ASSUME Ordinary, NEW b, Accepted(b), NEW w, Good(b, w), NEW num \in Nat
  PROVE  Outcome(b, w, GenerateAddresses(w, num))
<1>1. w.type \in WalletTypes
  BY DEF Good, Content
<1>2. w.encrypted # TRUE => Open(b, w)
  BY DEF Good, Locked
<1>3. CASE w.type = "collection"
  BY <1>3, RefusedOutcome DEF GenerateAddresses
<1>4. CASE w.type # "collection" /\ w.encrypted
  BY <1>4, RefusedOutcome DEF GenerateAddresses
<1>5. CASE w.type = "deterministic" /\ ~w.encrypted
  BY <1>2, <1>5, GenerateDeterministicGood DEF GenerateAddresses
<1>6. CASE w.type = "bip44" /\ ~w.encrypted
  BY <1>2, <1>6, GenerateBip44Good DEF GenerateAddresses
<1>7. CASE w.type = "xpub" /\ ~w.encrypted
  BY <1>2, <1>7, GenerateXPubGood DEF GenerateAddresses
<1>. QED BY <1>1, <1>3, <1>4, <1>5, <1>6, <1>7 DEF WalletTypes

\* Appending an entry is joining a list of one.
LEMMA AppendJoins ==
  ASSUME NEW es, EntriesOK(es), NEW e
  PROVE  Append(es, e) = es \o <<e>>
<1> DEFINE S == Image(es) \cup {e}
<1>1. es \in Seq(S) /\ e \in S
  BY SeqMonotonic DEF EntriesOK
<1>. HIDE DEF S
<1>. QED BY <1>1

\* A change address is the first, and only, one of a call.
LEMMA OneAdded ==
  ASSUME NEW b, NEW w, w.type = "bip44", NEW change, NEW first, NEW fs, fs # <<>>,
         Added(b, w, fs, change, first)
  PROVE  Added(b, w, <<fs[1]>>, change, first)
<1> DEFINE one == <<fs[1]>>
<1>1. EntriesOK(fs) /\ 1 \in DOMAIN fs
  <2>1. EntriesOK(fs)
    BY DEF Added, EntriesAre
  <2>. QED BY <2>1, EmptySeq, EntriesDomain DEF EntriesOK
<1>2. DOMAIN one = {1} /\ one[1] = fs[1] /\ Len(one) = 1 /\ one = [n \in 1 .. 1 |-> fs[1]]
  OBVIOUS
<1>3. /\ EntryIs(b, w, fs[1], 1) /\ fs[1].secret = IF w.type = "xpub" THEN Null ELSE fs[1].public
      /\ fs[1].change = change /\ first <= fs[1].childNumber
  BY <1>1 DEF Added, EntriesAre, SecretsShown, OnChain
<1>. HIDE DEF one
<1>4. EntriesAre(b, w, one)
  <2>1. one = [n \in 1 .. 1 |-> one[n]]
    BY <1>2
  <2>2. one \in Seq(Image(one))
    BY <2>1, FunctionIsSeq
  <2>. QED BY <1>2, <1>3, <2>2, EntryDomain DEF EntriesAre, EntriesOK
<1>5. Ascending(ChildNumbers(one))
  <2>1. \A m, n \in DOMAIN one : ~(m < n)
    BY <1>2
  <2>. QED BY <2>1, InOrderByPlace
<1>6. Added(b, w, one, change, first)
  BY <1>2, <1>3, <1>4, <1>5 DEF Added, SecretsShown, OnChain
<1>. QED BY <1>6 DEF one

\* GenerateChangeEntry.
LEMMA GenerateChangeGood ==
  ASSUME NEW b, Accepted(b), NEW w, Good(b, w), w.type = "bip44"
  PROVE  Outcome(b, w, GenerateChange(w))
<1> DEFINE es == w.changeEntries
           first == NextChildIdx(ChildNumbers(es))
           fs == Bip44Entries(w, 1, 1, first)
           v == [w EXCEPT !.changeEntries = Append(es, fs[1])]
           r == GenerateChange(w)
<1>1. \/ \E e \in {"walletEncrypted", "invalidMnemonic", "chainNodeFailed",
                "noMoreChangeAddresses"} : r = Fails(e, w)
      \/ ~w.encrypted /\ fs # <<>> /\ r = Ok(v)
  <2>. HIDE DEF v
  <2>. QED BY DEF GenerateChange, ChainError, v
<1>2. ASSUME ~w.encrypted, fs # <<>> PROVE Good(b, v)
  <2>1. Open(b, w)
    BY <1>2, OpenOrLocked DEF Good
  <2>2. /\ Content(b, w) /\ IsRecord(w) /\ Split(w)
        /\ EntriesAre(b, w, w.entries) /\ SecretsShown(w, w.entries)
        /\ EntriesAre(b, w, es) /\ SecretsShown(w, es)
        /\ w.lastSeed = Null
    BY <2>1 DEF Good, Content, Open
  <2>3. /\ Ascending(ChildNumbers(w.entries)) /\ Ascending(ChildNumbers(es))
        /\ OnChain(w.entries, 0) /\ OnChain(es, 1)
    BY <2>2 DEF Split
  <2>4. first \in 0 .. MaxUint32
    BY <2>2, <2>3, NextChild
  <2>. HIDE DEF first
  <2>5. Added(b, w, fs, 1, first)
    BY <2>1, <2>4, Bip44Added
  <2>. HIDE DEF fs
  <2>6. Added(b, w, <<fs[1]>>, 1, NextChildIdx(ChildNumbers(es)))
    BY <1>2, <2>5, OneAdded DEF first
  <2> DEFINE gs == es \o <<fs[1]>>
  <2>7. EntriesAre(b, w, gs) /\ SecretsShown(w, gs) /\ Ascending(ChildNumbers(gs)) /\ OnChain(gs, 1)
    BY <2>2, <2>3, <2>6, ChainGrown DEF WalletTypes
  <2>8. Append(es, fs[1]) = gs
    BY <2>2, AppendJoins DEF EntriesAre
  <2>9. Grown(w, w.entries, gs, w.lastSeed, v)
    <3>. HIDE DEF gs
    <3>. QED BY <2>2, <2>8, GrownFields
  <2>. HIDE DEF v, gs
  <2>10. Split(v)
    BY <2>3, <2>7, <2>9 DEF Split, SameRest, Grown
  <2>11. Regrown(b, w, v)
    BY <2>2, <2>7, <2>9, <2>10 DEF Regrown, Grown
  <2>. QED BY <2>2, <2>1, <2>11, RegrownGood
<1>. HIDE DEF v, fs, r
<1>. QED BY <1>1, <1>2, RefusedOutcome, OkOutcome DEF r

\* CollectionWallet.AddEntry of an entry of Skycoin.
LEMMA AddEntryGood ==
  ASSUME Ordinary, NEW b, Accepted(b), NEW w, Good(b, w), w.type = "collection", NEW e \in NewEntries
  PROVE  Outcome(b, w, AddEntry(w, e))
<1> DEFINE es == w.entries
           v == [w EXCEPT !.entries = Append(es, e)]
           r == AddEntry(w, e)
<1>1. /\ Content(b, w) /\ IsRecord(w) /\ w.coin = "skycoin"
      /\ EntriesAre(b, w, es) /\ EntriesAre(b, w, w.changeEntries)
      /\ w.changeEntries = <<>> /\ Split(w)
  BY DEF Good, Content
<1>2. e.address.coin = "skycoin" /\ e.childNumber = 0 /\ e.change = 0
  BY DEF Ordinary
<1>3. \A n \in DOMAIN es : es[n].address.coin = "skycoin"
  <2>1. ASSUME NEW n \in DOMAIN es PROVE es[n].address.coin = w.coin
    <3> DEFINE f == es[n]
    <3>1. EntryIs(b, w, f, n)
      BY <1>1 DEF EntriesAre
    <3>. HIDE DEF f
    <3>2. f.address.coin = w.coin
      BY <3>1 DEF EntryIs
    <3>. QED BY <3>2 DEF f
  <2>. QED BY <1>1, <2>1
<1>4. \/ \E x \in {"walletEncrypted", "invalidEntry", "duplicateAddress"} : r = Fails(x, w)
      \/ ~w.encrypted /\ Verified(e) /\ r = Ok(v)
  <2>. HIDE DEF v
  <2>. QED BY <1>2, <1>3, Zenon DEF AddEntry, v
<1>5. ASSUME ~w.encrypted, Verified(e) PROVE Good(b, v)
  <2> DEFINE fs == <<e>>
             gs == es \o fs
  <2>1. Open(b, w) /\ SecretsShown(w, es) /\ SecretsShown(w, w.changeEntries) /\ w.lastSeed = Null
    BY <1>5, OpenOrLocked DEF Good, Open
  <2>2. e = [address |-> [coin |-> e.address.coin, key |-> e.address.key],
             public |-> e.public, secret |-> e.secret,
             childNumber |-> e.childNumber, change |-> e.change]
    BY WalletAssumption
  <2>3. e.secret = e.public /\ e.address.key = e.public /\ e.address.coin = w.coin
    BY <1>1, <1>2, <1>5 DEF Verified
  <2>4. e = [address |-> [coin |-> w.coin, key |-> e.public], public |-> e.public,
             secret |-> e.secret, childNumber |-> e.childNumber, change |-> e.change]
    BY <2>2, <2>3
  <2>5. EntryIs(b, w, e, Len(es) + 1)
    BY <1>2, <2>3, <2>4, ChildBounds DEF EntryIs, KeyOf
  <2>6. DOMAIN fs = {1} /\ fs[1] = e /\ Len(fs) = 1 /\ fs = [n \in 1 .. 1 |-> e]
    OBVIOUS
  <2>. HIDE DEF fs
  <2>7. EntriesOK(fs)
    <3>1. fs = [n \in 1 .. 1 |-> fs[n]]
      BY <2>6
    <3>2. fs \in Seq(Image(fs))
      BY <3>1, FunctionIsSeq
    <3>. QED BY <2>5, <2>6, <3>2, EntryDomain DEF EntriesOK
  <2>8. SecretsShown(w, fs)
    BY <2>3, <2>6 DEF SecretsShown
  <2>9. EntriesAre(b, w, gs) /\ SecretsShown(w, gs)
    BY <1>1, <2>1, <2>5, <2>6, <2>7, <2>8, EntriesJoined
  <2>10. Append(es, e) = gs
    BY <1>1, AppendJoins DEF EntriesAre, fs
  <2>. HIDE DEF gs
  <2>11. Grown(w, gs, w.changeEntries, w.lastSeed, v)
    BY <1>1, <2>10, GrownFields
  <2>. HIDE DEF v
  <2>12. Split(v)
    BY <2>11 DEF Split, SameRest, Grown
  <2>13. Regrown(b, w, v)
    BY <1>1, <2>1, <2>9, <2>11, <2>12 DEF Regrown, Grown
  <2>. QED BY <1>1, <2>1, <2>13, RegrownGood
<1>. HIDE DEF v, r
<1>. QED BY <1>4, <1>5, RefusedOutcome, OkOutcome DEF r

-----------------------------------------------------------------------------
\* Load takes the one list of the file apart and sorts its parts.  Entries that were
\* in order when they were saved come back as they were.
LEMMA SortingOfSorted ==
  ASSUME NEW d \in Nat, NEW es, NEW t, EntriesOK(t), Ascending(ChildNumbers(t)),
         \A n \in 1 .. Len(t) : es[d + n] = t[n] /\ t[n].childNumber \in Int
  PROVE  Sortings(es, d + 1 .. d + Len(t)) = {t}
<1> DEFINE k == Len(t)
<1>0. k \in Nat /\ t = [n \in 1 .. k |-> t[n]]
  BY EntriesDomain DEF EntriesOK
<1>. HIDE DEF k
<1> DEFINE places == d + 1 .. d + k
           Injective(p) == \A m, n \in DOMAIN p : m # n => p[m] # p[n]
           Sorted(p) == \A m, n \in DOMAIN p : m < n => es[p[m]].childNumber <= es[p[n]].childNumber
           At(p) == [n \in DOMAIN p |-> es[p[n]]]
<1>1. Cardinality(places) = k
  <2>1. Cardinality(places) = IF d + 1 > d + k THEN 0 ELSE (d + k) - (d + 1) + 1
    <3>1. d + 1 \in Int /\ d + k \in Int
      BY <1>0
    <3>. QED BY <3>1, FS_Interval
  <2>. QED BY <1>0, <2>1
<1>2. DOMAIN t = 1 .. k
  BY <1>0
<1>3. \A m, n \in 1 .. k : m < n => t[m].childNumber < t[n].childNumber
  BY <1>2 DEF Ascending, ChildNumbers
<1>4. \A n \in places : n - d \in 1 .. k /\ es[n] = t[n - d]
  <2>1. ASSUME NEW n \in places PROVE n - d \in 1 .. k /\ es[n] = t[n - d]
    <3>1. n - d \in 1 .. k /\ n = d + (n - d)
      BY <1>0
    <3>. QED BY <3>1 DEF k
  <2>. QED BY <2>1
<1>5. ASSUME NEW p \in [1 .. k -> places], Injective(p), Sorted(p)
      PROVE  At(p) = t
  <2>1. DOMAIN p = 1 .. k /\ \A n \in 1 .. k : p[n] \in places
    OBVIOUS
  <2>2. ASSUME NEW m \in 1 .. k, NEW n \in 1 .. k, m < n PROVE p[m] < p[n]
    <3>1. p[m] # p[n] /\ es[p[m]].childNumber <= es[p[n]].childNumber
      BY <1>5, <2>1, <2>2
    <3> DEFINE a == p[m] - d
               c == p[n] - d
    <3>2. /\ a \in 1 .. k /\ c \in 1 .. k /\ es[p[m]] = t[a] /\ es[p[n]] = t[c]
          /\ p[m] \in Int /\ p[n] \in Int
      <4>1. p[m] \in places /\ p[n] \in places
        BY <2>1
      <4>2. p[m] \in Int /\ p[n] \in Int
        BY <1>0, <4>1
      <4>. HIDE DEF places
      <4>. QED BY <1>4, <4>1, <4>2
    <3>3. t[a].childNumber <= t[c].childNumber
      BY <3>1, <3>2
    <3>4. ~(c < a)
      <4>1. ASSUME c < a PROVE FALSE
        <5>. HIDE DEF a, c
        <5>1. t[c].childNumber < t[a].childNumber
          BY <1>3, <3>2, <4>1
        <5>2. t[a].childNumber \in Int /\ t[c].childNumber \in Int
          BY <3>2 DEF k
        <5>. QED BY <3>3, <5>1, <5>2
      <4>. QED BY <4>1
    <3>. QED BY <3>1, <3>2, <3>4
  <2>3. \A n \in 1 .. k : p[n] = d + n
    BY <1>0, <2>2, AscendingCounts
  <2>4. At(p) = [n \in 1 .. k |-> t[n]]
    <3>1. \A n \in 1 .. k : es[p[n]] = t[n]
      BY <2>3 DEF k
    <3>. QED BY <2>1, <3>1
  <2>. QED BY <1>0, <2>4
<1> DEFINE q == [n \in 1 .. k |-> d + n]
<1>6. q \in [1 .. k -> places] /\ Injective(q) /\ Sorted(q) /\ At(q) = t
  <2>1. q \in [1 .. k -> places] /\ Injective(q)
    BY <1>0
  <2>2. DOMAIN q = 1 .. k /\ \A n \in 1 .. k : es[q[n]] = t[n]
    BY DEF k
  <2>. HIDE DEF q
  <2>3. Sorted(q)
    <3>1. ASSUME NEW m \in DOMAIN q, NEW n \in DOMAIN q, m < n
          PROVE  es[q[m]].childNumber <= es[q[n]].childNumber
      <4>1. t[m].childNumber < t[n].childNumber
        BY <1>3, <2>2, <3>1
      <4>2. t[m].childNumber \in Int /\ t[n].childNumber \in Int
        BY <2>2, <3>1 DEF k
      <4>. QED BY <2>2, <3>1, <4>1, <4>2
    <3>. QED BY <3>1
  <2>4. At(q) = [n \in 1 .. k |-> t[n]]
    BY <2>2
  <2>. QED BY <1>0, <2>1, <2>3, <2>4
<1>7. Sortings(es, places) =
        { At(p) : p \in { p \in { p \in [1 .. k -> places] : Injective(p) } : Sorted(p) } }
  <2>. HIDE DEF places
  <2>. QED BY <1>1 DEF Sortings
<1>. HIDE DEF places, Injective, Sorted, At, q
<1>8. Sortings(es, places) = {t}
  <2>1. ASSUME NEW s \in Sortings(es, places) PROVE s = t
    BY <1>5, <1>7
  <2>2. t \in Sortings(es, places)
    BY <1>6, <1>7
  <2>. QED BY <2>1, <2>2
<1>. QED BY <1>8 DEF places, k

\* Child numbers are numbers.
LEMMA ChildNumbersInt ==
  ASSUME NEW b, NEW w, NEW es, EntriesAre(b, w, es)
  PROVE  \A n \in DOMAIN es : es[n].childNumber \in Int
BY ChildBounds DEF EntriesAre, EntryIs

\* The places of the two chains of a bip44 wallet in the one list of its file.
LEMMA ChainPlaces ==
  ASSUME NEW s, NEW t, EntriesOK(s), EntriesOK(t), OnChain(s, 0), OnChain(t, 1)
  PROVE  /\ OfChain(s \o t, 0) = 0 + 1 .. 0 + Len(s)
         /\ OfChain(s \o t, 1) = Len(s) + 1 .. Len(s) + Len(t)
<1> DEFINE u == s \o t
<1>1. /\ Len(s) \in Nat /\ Len(t) \in Nat /\ DOMAIN s = 1 .. Len(s) /\ DOMAIN t = 1 .. Len(t)
      /\ DOMAIN u = 1 .. Len(s) + Len(t)
      /\ \A n \in 1 .. Len(s) : u[n] = s[n]
      /\ \A n \in 1 .. Len(t) : u[Len(s) + n] = t[n]
  BY JoinedSequence
<1>. HIDE DEF u
<1>2. \A n \in 1 .. Len(s) : u[n].change = 0
  BY <1>1 DEF OnChain
<1>3. \A n \in Len(s) + 1 .. Len(s) + Len(t) : u[n].change = 1
  <2>1. ASSUME NEW n \in Len(s) + 1 .. Len(s) + Len(t) PROVE u[n].change = 1
    <3>1. n - Len(s) \in 1 .. Len(t) /\ n = Len(s) + (n - Len(s))
      BY <1>1
    <3>2. u[n] = t[n - Len(s)]
      BY <1>1, <3>1
    <3>. QED BY <1>1, <3>1, <3>2 DEF OnChain
  <2>. QED BY <2>1
<1>4. \A n \in DOMAIN u : n \in 1 .. Len(s) \/ n \in Len(s) + 1 .. Len(s) + Len(t)
  BY <1>1
<1>5. OfChain(u, 0) = 0 + 1 .. 0 + Len(s)
  BY <1>1, <1>2, <1>3, <1>4 DEF OfChain
<1>6. OfChain(u, 1) = Len(s) + 1 .. Len(s) + Len(t)
  BY <1>1, <1>2, <1>3, <1>4 DEF OfChain
<1>. QED BY <1>5, <1>6 DEF u

\* Each of two chains, sorted where it stands in the one list.
LEMMA SortedApart ==
  ASSUME NEW b, NEW w, NEW s, NEW t, EntriesAre(b, w, s), EntriesAre(b, w, t),
         Ascending(ChildNumbers(s)), Ascending(ChildNumbers(t))
  PROVE  /\ Sortings(s \o t, 0 + 1 .. 0 + Len(s)) = {s}
         /\ Sortings(s \o t, Len(s) + 1 .. Len(s) + Len(t)) = {t}
<1> DEFINE u == s \o t
<1>1. EntriesOK(s) /\ EntriesOK(t)
  BY DEF EntriesAre
<1>2. /\ Len(s) \in Nat /\ Len(t) \in Nat /\ DOMAIN s = 1 .. Len(s) /\ DOMAIN t = 1 .. Len(t)
      /\ \A n \in 1 .. Len(s) : u[n] = s[n]
      /\ \A n \in 1 .. Len(t) : u[Len(s) + n] = t[n]
  BY <1>1, JoinedSequence
<1>3. /\ \A n \in DOMAIN s : s[n].childNumber \in Int
      /\ \A n \in DOMAIN t : t[n].childNumber \in Int
  BY ChildNumbersInt
<1>. HIDE DEF u
<1>4. \A n \in 1 .. Len(s) : u[0 + n] = s[n] /\ s[n].childNumber \in Int
  BY <1>2, <1>3
<1>5. \A n \in 1 .. Len(t) : u[Len(s) + n] = t[n] /\ t[n].childNumber \in Int
  BY <1>2, <1>3
<1>6. Sortings(u, 0 + 1 .. 0 + Len(s)) = {s}
  BY <1>1, <1>4, SortingOfSorted
<1>7. Sortings(u, Len(s) + 1 .. Len(s) + Len(t)) = {t}
  BY <1>1, <1>2, <1>5, SortingOfSorted
<1>. QED BY <1>6, <1>7 DEF u

\* What Load makes of the list a wallet's entries are saved in.
LEMMA SplitAgain ==
  ASSUME NEW b, NEW w, Content(b, w), Split(w)
  PROVE  /\ ExternalEntries(w.type, AllEntries(w)) = {w.entries}
         /\ ChangeEntries(w.type, AllEntries(w)) = {w.changeEntries}
<1>1. /\ EntriesAre(b, w, w.entries) /\ EntriesAre(b, w, w.changeEntries)
      /\ w.type # "bip44" => w.changeEntries = <<>>
  BY DEF Content
<1>2. EntriesOK(w.entries) /\ EntriesOK(w.changeEntries)
  BY <1>1 DEF EntriesAre
<1>3. w.type # "bip44" => AllEntries(w) = w.entries
  BY <1>1, <1>2, JoinedWithEmpty DEF AllEntries
<1>4. ASSUME w.type \in {"bip44", "xpub"}
      PROVE  /\ Sortings(AllEntries(w), 0 + 1 .. 0 + Len(w.entries)) = {w.entries}
             /\ Sortings(AllEntries(w), Len(w.entries) + 1 .. Len(w.entries) + Len(w.changeEntries))
                  = {w.changeEntries}
  <2> DEFINE s == w.entries
             t == w.changeEntries
  <2>1. Ascending(ChildNumbers(s)) /\ Ascending(ChildNumbers(t))
    BY <1>4 DEF Split
  <2>2. EntriesAre(b, w, s) /\ EntriesAre(b, w, t)
    BY <1>1
  <2>3. AllEntries(w) = s \o t
    BY DEF AllEntries
  <2>. HIDE DEF s, t
  <2>4. /\ Sortings(s \o t, 0 + 1 .. 0 + Len(s)) = {s}
        /\ Sortings(s \o t, Len(s) + 1 .. Len(s) + Len(t)) = {t}
    BY <2>1, <2>2, SortedApart
  <2>5. /\ Sortings(AllEntries(w), 0 + 1 .. 0 + Len(s)) = {s}
        /\ Sortings(AllEntries(w), Len(s) + 1 .. Len(s) + Len(t)) = {t}
    BY <2>3, <2>4
  <2>. QED BY <2>5 DEF s, t
<1>5. CASE w.type = "bip44"
  <2>1. /\ OfChain(AllEntries(w), 0) = 0 + 1 .. 0 + Len(w.entries)
        /\ OfChain(AllEntries(w), 1) = Len(w.entries) + 1 .. Len(w.entries) + Len(w.changeEntries)
    BY <1>2, <1>5, ChainPlaces DEF Split, AllEntries
  <2>. QED BY <1>4, <1>5, <2>1 DEF ExternalEntries, ChangeEntries
<1>6. CASE w.type = "xpub"
  <2>1. DOMAIN AllEntries(w) = 0 + 1 .. 0 + Len(w.entries)
    BY <1>2, <1>3, <1>6, EntriesDomain
  <2>. QED BY <1>1, <1>4, <1>6, <2>1 DEF ExternalEntries, ChangeEntries
<1>7. CASE w.type \notin {"bip44", "xpub"}
  BY <1>1, <1>3, <1>7 DEF ExternalEntries, ChangeEntries
<1>. QED BY <1>5, <1>6, <1>7

-----------------------------------------------------------------------------
\* The file d shows what the wallet w shows.
Shows(w, d) ==
  /\ IsRecord(d)
  /\ d.type = w.type /\ d.coin = w.coin /\ d.bip44Coin = w.bip44Coin /\ d.xpub = w.xpub
  /\ d.encrypted = w.encrypted /\ d.cryptoType = w.cryptoType /\ d.secrets = w.secrets
  /\ d.seed = w.seed /\ d.lastSeed = w.lastSeed /\ d.seedPassphrase = w.seedPassphrase
  /\ d.entries = AllEntries(w) /\ d.changeEntries = <<>> /\ d.node = FALSE

\* The seeds of an ordinary wallet come through JSON as they were.
LEMMA TextsAreKept ==
  ASSUME Ordinary, NEW b, BornIs(b), NEW w, Content(b, w), Open(b, w) \/ Locked(b, w)
  PROVE  /\ Json(w.seed) = w.seed /\ Json(w.seedPassphrase) = w.seedPassphrase
         /\ JsonLastSeed(w.lastSeed) = w.lastSeed
<1>1. CASE Open(b, w)
  <2>1. Json(w.seed) = w.seed /\ Json(w.seedPassphrase) = w.seedPassphrase
    BY <1>1, JsonOfOrdinary DEF Open
  <2>2. CASE w.type = "deterministic"
    <3>1. SeedReached(b, w.lastSeed, Len(w.entries))
      BY <1>1, <2>2 DEF Open
    <3>. QED BY <2>1, <3>1, JsonOfOrdinary
  <2>3. CASE w.type # "deterministic"
    <3>1. w.lastSeed = Null
      BY <1>1, <2>3 DEF Open
    <3>. QED BY <2>1, <3>1, JsonOfNull
  <2>. QED BY <2>2, <2>3
<1>2. CASE Locked(b, w)
  <2>1. w.seed = Null /\ w.lastSeed = Null /\ w.seedPassphrase = Null
    BY <1>2 DEF Locked, NoPlaintext
  <2>. QED BY <2>1, JsonOfNull
<1>. QED BY <1>1, <1>2

\* The file shows of a wallet what the wallet shows.
LEMMA ReadableShows ==
  ASSUME Ordinary, NEW b, BornIs(b), NEW w, Content(b, w), Open(b, w) \/ Locked(b, w)
  PROVE  Shows(w, Readable(w))
<1>1. /\ Json(w.seed) = w.seed /\ Json(w.seedPassphrase) = w.seedPassphrase
      /\ JsonLastSeed(w.lastSeed) = w.lastSeed
  BY TextsAreKept
<1>2. IsRecord(w)
  BY DEF Content
<1> DEFINE es == AllEntries(w)
<1>3. Readable(w) = [w EXCEPT !.seed = w.seed, !.lastSeed = w.lastSeed,
                              !.seedPassphrase = w.seedPassphrase,
                              !.entries = es, !.changeEntries = <<>>, !.node = FALSE]
  BY <1>1 DEF Readable
<1>. HIDE DEF es
<1>. QED BY <1>2, <1>3 DEF Shows, IsRecord, Fields, es

\* So it is as good as the wallet, but for its chains.
LEMMA ShownIsGood ==
  ASSUME NEW b, NEW w, Content(b, w), Open(b, w) \/ Locked(b, w), NEW d, Shows(w, d)
  PROVE  Content(b, d) /\ (Open(b, d) \/ Locked(b, d))
<1> DEFINE es == AllEntries(w)
<1>1. /\ IsRecord(w) /\ w.type \in WalletTypes
      /\ EntriesAre(b, w, w.entries) /\ EntriesAre(b, w, w.changeEntries)
      /\ w.type # "bip44" => w.changeEntries = <<>>
  BY DEF Content
<1>2. EntriesOK(w.entries) /\ EntriesOK(w.changeEntries)
  BY <1>1 DEF EntriesAre
<1>3. EntriesAre(b, w, es) /\ EntriesOK(es)
  <2>1. EntriesAre(b, w, es)
    BY AllEntriesAre
  <2>. QED BY <2>1 DEF EntriesAre
<1>4. w.type = "deterministic" => es = w.entries
  BY <1>1, <1>2, JoinedWithEmpty DEF AllEntries
<1>5. AllEntries(d) = es
  <2>1. es \o <<>> = es
    BY <1>3, JoinedWithEmpty
  <2>. QED BY <2>1 DEF AllEntries, Shows
<1>. HIDE DEF es
<1>6. d.entries = es /\ d.changeEntries = <<>> /\ d.type = w.type /\ d.coin = w.coin
      /\ d.bip44Coin = w.bip44Coin
  BY DEF Shows, es
<1>7. EntriesAre(b, d, es)
  BY <1>3, <1>6, SameEntries
<1>8. EntriesAre(b, d, <<>>) /\ SecretsShown(d, <<>>)
  BY EmptyEntries DEF EntriesAre, SecretsShown
<1>9. Content(b, d)
  BY <1>6, <1>7, <1>8 DEF Content, Shows
<1>10. CASE Open(b, w)
  <2>1. SecretsShown(w, es)
    BY <1>10, AllSecretsShown DEF es
  <2>2. SecretsShown(d, es)
    BY <1>6, <2>1 DEF SecretsShown
  <2>3. w.type = "deterministic" => SeedReached(b, w.lastSeed, Len(es))
    BY <1>4, <1>10 DEF Open
  <2>4. Open(b, d)
    BY <1>6, <1>8, <1>10, <2>2, <2>3 DEF Open, Shows
  <2>. QED BY <1>9, <2>4
<1>11. CASE Locked(b, w)
  <2>1. \A n \in DOMAIN es : es[n].secret = Null
    <3>1. ASSUME NEW n \in DOMAIN (w.entries \o w.changeEntries)
          PROVE  (w.entries \o w.changeEntries)[n].secret = Null
      <4>1. \/ n \in DOMAIN w.entries
               /\ (w.entries \o w.changeEntries)[n] = w.entries[n]
            \/ n - Len(w.entries) \in DOMAIN w.changeEntries
               /\ (w.entries \o w.changeEntries)[n] = w.changeEntries[n - Len(w.entries)]
        BY <1>2, <3>1, JoinedPlaces
      <4>2. /\ \A m \in DOMAIN w.entries : w.entries[m].secret = Null
            /\ \A m \in DOMAIN w.changeEntries : w.changeEntries[m].secret = Null
        BY <1>11 DEF Locked, NoPlaintext
      <4>. QED BY <4>1, <4>2
    <3>. QED BY <3>1 DEF es, AllEntries
  <2>2. NoPlaintext(d)
    BY <1>6, <1>11, <2>1 DEF NoPlaintext, Locked, Shows
  <2>3. DataIs(b, d, w.secrets.data)
    <3>1. DataIs(b, w, w.secrets.data)
      BY <1>11 DEF Locked
    <3>2. w.type = "deterministic" => Len(d.entries) = Len(w.entries)
      BY <1>4, <1>6
    <3>3. Addresses(AllEntries(d)) = Addresses(AllEntries(w))
      BY <1>5 DEF es
    <3>. QED BY <1>6, <3>1, <3>2, <3>3 DEF DataIs
  <2>4. Locked(b, d)
    BY <1>11, <2>2, <2>3 DEF Locked, Shows
  <2>. QED BY <1>9, <2>4
<1>. QED BY <1>10, <1>11

-----------------------------------------------------------------------------
\* Meta.validate has nothing to say against such a wallet, unless its seed is no
\* mnemonic or its path no path.
LEMMA ValidateGood ==
  ASSUME Ordinary, NEW b, Accepted(b), NEW w, Content(b, w), Open(b, w) \/ Locked(b, w)
  PROVE  /\ Validate(w) \in {"ok", "invalidMnemonic", "invalidBip44Meta"}
         /\ BornIs(b) => Validate(w) = "ok"
         /\ Open(b, w) /\ Validate(w) = "ok" => BornIs(b)
<1>1. /\ w.type \in WalletTypes /\ w.type = b.type /\ w.bip44Coin = Bip44CoinOf(b)
      /\ w.xpub = b.xpub
  BY DEF Content
<1>2. /\ b.type \in {"deterministic", "bip44"} => b.seed # Null
      /\ b.type \notin {"deterministic", "bip44"} => b.seed = Null
      /\ b.type # "xpub" => b.xpub = Null
  BY DEF Accepted
<1>3. BornIs(b) <=> (w.type = "bip44" => b.seed \in Mnemonics /\ w.bip44Coin # Null)
  BY <1>1 DEF BornIs
<1>4. CASE Locked(b, w)
  <2>1. w.encrypted = TRUE /\ w.cryptoType \in CryptoTypes /\ w.seed = Null /\ w.lastSeed = Null
    BY <1>4 DEF Locked, NoPlaintext
  <2>2. w.secrets # Null
    <3>1. w.secrets = [password |-> w.secrets.password, cryptoType |-> w.cryptoType,
                       data |-> w.secrets.data]
      BY <1>4 DEF Locked
    <3>. QED BY <3>1, NullIsNoRecord
  <2>3. ~Open(b, w)
    BY <2>1, OpenOrLocked
  <2>4. Validate(w) = IF w.type = "bip44" /\ w.bip44Coin = Null THEN "invalidBip44Meta" ELSE "ok"
    BY <1>1, <1>2, <2>1, <2>2 DEF Validate
  <2>. QED BY <1>3, <2>3, <2>4
<1>5. CASE Open(b, w)
  <2>1. w.encrypted = FALSE /\ w.secrets = Null /\ w.seed = b.seed
    BY <1>5 DEF Open
  <2>2. w.type # "deterministic" => w.lastSeed = Null
    BY <1>5 DEF Open
  <2>3. w.type = "deterministic" => w.lastSeed # Null
    <3>1. w.type = "deterministic" =>
            w.lastSeed = [root |-> b.seed, index |-> Len(w.entries), hex |-> w.lastSeed.hex]
      BY <1>5 DEF Open, SeedReached
    <3>. QED BY <3>1, NullIsNoRecord
  <2>4. Validate(w) =
          IF w.type = "bip44" /\ b.seed \notin Mnemonics THEN "invalidMnemonic"
          ELSE IF w.type = "bip44" /\ w.bip44Coin = Null THEN "invalidBip44Meta" ELSE "ok"
    BY <1>1, <1>2, <2>1, <2>2, <2>3 DEF Validate
  <2>. QED BY <1>3, <2>4
<1>. QED BY <1>4, <1>5

\* NewReadableEntry has a place for every entry.
LEMMA ReadableWorks ==
  ASSUME NEW b, NEW w, Content(b, w)
  PROVE  ~ReadablePanics(w)
<1>1. EntriesAre(b, w, AllEntries(w))
  BY AllEntriesAre
<1>2. ASSUME NEW n \in DOMAIN AllEntries(w)
      PROVE  /\ w.type \in {"deterministic", "collection"} => AllEntries(w)[n].childNumber = 0
             /\ w.type # "bip44" => AllEntries(w)[n].change = 0
  BY <1>1 DEF EntriesAre, EntryIs
<1>. QED BY <1>2 DEF ReadablePanics

\* A coin in full resolves to itself.
LEMMA ResolvedCoin == \A c \in CoinTypes : ResolveCoinType(c) = c /\ c # Null
BY WalletDataAssumption DEF CoinTypes, ResolveCoinType

\* Every entry decodes to itself.
LEMMA DecodedIsSame ==
  ASSUME NEW b, NEW w, NEW es, EntriesAre(b, w, es)
  PROVE  /\ DecodedEntries(w.coin, es) = es
         /\ \A n \in DOMAIN es : Decodes(w.coin, es[n].address)
<1>1. ASSUME NEW n \in DOMAIN es
      PROVE  /\ [es[n] EXCEPT !.address = DecodedAddress(w.coin, @)] = es[n]
             /\ Decodes(w.coin, es[n].address)
  <2> DEFINE e == es[n]
  <2>1. e = [address |-> [coin |-> w.coin, key |-> e.public], public |-> e.public,
             secret |-> e.secret, childNumber |-> e.childNumber, change |-> e.change]
    BY DEF EntriesAre, EntryIs
  <2>. HIDE DEF e
  <2>2. e.address.coin = w.coin
    BY <2>1
  <2>3. DecodedAddress(w.coin, e.address) = e.address /\ Decodes(w.coin, e.address)
    BY <2>2 DEF DecodedAddress, Decodes
  <2>4. [e EXCEPT !.address = e.address] = e
    BY <2>1
  <2>. QED BY <2>3, <2>4 DEF e
<1>2. es = [n \in DOMAIN es |-> es[n]]
  BY EntriesDomain DEF EntriesAre, EntriesOK
<1>3. DecodedEntries(w.coin, es) = es
  BY <1>1, <1>2, Zenon DEF DecodedEntries
<1>. QED BY <1>1, <1>3

\* Load accepts the file of a good wallet ...
LEMMA LoadAccepts ==
  ASSUME Ordinary, NEW b, BornIs(b), NEW w, Good(b, w)
  PROVE  LoadError(Readable(w)) = "ok"
<1> DEFINE d == Readable(w)
           es == AllEntries(w)
<1>1. Content(b, w) /\ (Open(b, w) \/ Locked(b, w)) /\ w.coin \in CoinTypes
  BY DEF Good, Content
<1>2. Shows(w, d)
  BY <1>1, ReadableShows
<1>. HIDE DEF d
<1>3. Content(b, d) /\ (Open(b, d) \/ Locked(b, d))
  BY <1>1, <1>2, ShownIsGood
<1>4. Validate(d) = "ok"
  BY <1>3, ValidateGood DEF BornIs
<1>5. ResolveCoinType(d.coin) = w.coin /\ w.coin # Null
  BY <1>1, <1>2, ResolvedCoin DEF Shows
<1>6. EntriesAre(b, w, es)
  BY <1>1, AllEntriesAre
<1>7. DecodedEntries(w.coin, es) = es /\ \A n \in DOMAIN es : Decodes(w.coin, es[n].address)
  BY <1>6, DecodedIsSame
<1>8. ASSUME ~d.encrypted, NEW n \in DOMAIN es, es[n].secret # Null
      PROVE  Verified(es[n])
  <2> DEFINE e == es[n]
  <2>1. Open(b, w)
    BY <1>1, <1>2, <1>8, OpenOrLocked DEF Shows
  <2>2. SecretsShown(w, es)
    BY <1>1, <2>1, AllSecretsShown
  <2>3. e.secret = e.public
    BY <1>8, <2>2 DEF SecretsShown
  <2>4. e = [address |-> [coin |-> w.coin, key |-> e.public], public |-> e.public,
             secret |-> e.secret, childNumber |-> e.childNumber, change |-> e.change]
    BY <1>6 DEF EntriesAre, EntryIs
  <2>. HIDE DEF e
  <2>5. e.address.key = e.public
    BY <2>4
  <2>6. Verified(e)
    BY <2>3, <2>5 DEF Verified
  <2>. QED BY <2>6 DEF e
<1>9. d.entries = es
  BY <1>2 DEF Shows
<1>. HIDE DEF es
<1>10. LoadError(d) = "ok"
  BY <1>4, <1>5, <1>7, <1>8, <1>9 DEF LoadError
<1>. QED BY <1>10 DEF d

\* ... and returns the wallet it was written from.
LEMMA LoadReturns ==
  ASSUME Ordinary, NEW b, BornIs(b), NEW w, Good(b, w)
  PROVE  Loaded(Readable(w)) = {[w EXCEPT !.node = FALSE]}
<1> DEFINE d == Readable(w)
           es == AllEntries(w)
           v == [w EXCEPT !.node = FALSE]
           base == [d EXCEPT !.coin = w.coin, !.node = FALSE]
<1>1. /\ Content(b, w) /\ (Open(b, w) \/ Locked(b, w)) /\ Split(w)
      /\ w.coin \in CoinTypes /\ IsRecord(w)
  BY DEF Good, Content
<1>2. Shows(w, d)
  BY <1>1, ReadableShows
<1>. HIDE DEF d
<1>3. ResolveCoinType(d.coin) = w.coin
  BY <1>1, <1>2, ResolvedCoin DEF Shows
<1>4. DecodedEntries(w.coin, es) = es
  <2>1. EntriesAre(b, w, es)
    BY <1>1, AllEntriesAre
  <2>. QED BY <2>1, DecodedIsSame
<1>5. d.entries = es /\ d.type = w.type
  BY <1>2 DEF Shows
<1>6. ExternalEntries(w.type, es) = {w.entries} /\ ChangeEntries(w.type, es) = {w.changeEntries}
  BY <1>1, SplitAgain
<1>. HIDE DEF es
<1>7. WithEntries(base, w.entries, w.changeEntries) = v
  <2> DEFINE u == WithEntries(base, w.entries, w.changeEntries)
  <2>1. u = [d EXCEPT !.coin = w.coin, !.node = FALSE,
                      !.entries = w.entries, !.changeEntries = w.changeEntries]
    BY <1>2 DEF WithEntries, Shows, IsRecord, Fields
  <2>2. IsRecord(v)
    BY <1>1 DEF IsRecord, Fields
  <2>3. IsRecord(u)
    <3>. HIDE DEF u
    <3>. QED BY <1>2, <2>1 DEF Shows, IsRecord, Fields
  <2>4. \A f \in Fields : u[f] = v[f]
    <3>. HIDE DEF u
    <3>. QED BY <1>1, <1>2, <2>1 DEF Shows, IsRecord, Fields
  <2>. HIDE DEF u, v
  <2>5. [f \in Fields |-> u[f]] = [f \in Fields |-> v[f]]
    BY <2>4
  <2>6. u = v
    BY <2>2, <2>3, <2>5 DEF IsRecord
  <2>. QED BY <2>6 DEF u
<1>. HIDE DEF v, base
<1>8. Loaded(d) = { WithEntries(base, external, change) :
                      external \in {w.entries}, change \in {w.changeEntries} }
  BY <1>3, <1>4, <1>5, <1>6 DEF Loaded, base
<1>9. Loaded(d) = {v}
  BY <1>7, <1>8
<1>. QED BY <1>9 DEF d, v

\* It lacks the parsed xpub, which is all it lacks.
LEMMA LoadedIsGood ==
  ASSUME NEW b, NEW w, Good(b, w)
  PROVE  LET v == [w EXCEPT !.node = FALSE]
         IN  Good(b, v) /\ Readable(v) = Readable(w)
<1> DEFINE v == [w EXCEPT !.node = FALSE]
<1>1. IsRecord(w) /\ Content(b, w) /\ Split(w) /\ (Open(b, w) \/ Locked(b, w))
  BY DEF Good, Content
<1>2. /\ IsRecord(v)
      /\ v.type = w.type /\ v.coin = w.coin /\ v.bip44Coin = w.bip44Coin /\ v.xpub = w.xpub
      /\ v.encrypted = w.encrypted /\ v.cryptoType = w.cryptoType /\ v.secrets = w.secrets
      /\ v.seed = w.seed /\ v.lastSeed = w.lastSeed /\ v.seedPassphrase = w.seedPassphrase
      /\ v.entries = w.entries /\ v.changeEntries = w.changeEntries /\ v.node = FALSE
  BY <1>1 DEF IsRecord, Fields
<1>3. Readable(v) = Readable(w)
  <2>1. AllEntries(v) = AllEntries(w)
    BY <1>2 DEF AllEntries
  <2>2. IsRecord(Readable(v)) /\ IsRecord(Readable(w))
    <3>. HIDE DEF v
    <3>. QED BY <1>1, <1>2 DEF Readable, IsRecord, Fields
  <2>3. \A f \in Fields : Readable(v)[f] = Readable(w)[f]
    <3>. HIDE DEF v
    <3>. QED BY <1>1, <1>2, <2>1 DEF Readable, IsRecord, Fields
  <2>. HIDE DEF v
  <2>4. [f \in Fields |-> Readable(v)[f]] = [f \in Fields |-> Readable(w)[f]]
    BY <2>3
  <2>. QED BY <2>2, <2>4 DEF IsRecord
<1>. HIDE DEF v
<1>4. EntriesAre(b, v, w.entries) /\ EntriesAre(b, v, w.changeEntries)
  BY <1>1, <1>2, SameEntries DEF Content
<1>5. Content(b, v)
  BY <1>1, <1>2, <1>4 DEF Content
<1>6. Split(v)
  BY <1>1, <1>2 DEF Split
<1>7. Open(b, w) => Open(b, v)
  BY <1>2 DEF Open, SecretsShown
<1>8. Locked(b, w) => Locked(b, v)
  <2>1. SecretFields(v.type) = SecretFields(w.type) /\ AllEntries(v) = AllEntries(w)
    BY <1>2 DEF AllEntries
  <2>. QED BY <1>2, <2>1 DEF Locked, NoPlaintext, DataIs
<1>. QED BY <1>1, <1>3, <1>5, <1>6, <1>7, <1>8 DEF Good, v

\* The file of a good wallet is one that Recoverable and TypeOK ask for.
LEMMA SavedIsGood ==
  ASSUME Ordinary, NEW b, BornIs(b), NEW w, Good(b, w)
  PROVE  /\ Saved(b, Readable(w))
         /\ Content(b, Readable(w)) /\ (Open(b, Readable(w)) \/ Locked(b, Readable(w)))
<1> DEFINE v == [w EXCEPT !.node = FALSE]
<1>1. Loaded(Readable(w)) = {v}
  BY LoadReturns
<1>2. Good(b, v) /\ Readable(v) = Readable(w)
  BY LoadedIsGood
<1>3. Content(b, w) /\ (Open(b, w) \/ Locked(b, w))
  BY DEF Good
<1>4. Shows(w, Readable(w))
  BY <1>3, ReadableShows
<1>. HIDE DEF v
<1>5. Content(b, Readable(w)) /\ (Open(b, Readable(w)) \/ Locked(b, Readable(w)))
  BY <1>3, <1>4, ShownIsGood
<1>6. Saved(b, Readable(w))
  BY <1>1, <1>2 DEF Saved
<1>. QED BY <1>5, <1>6

\* What Load returns and what the file shows.
LEMMA SavedHolds ==
  ASSUME Ordinary, NEW b, NEW d, Saved(b, d)
  PROVE  /\ LoadError(d) = "ok"
         /\ \A w \in Loaded(d) : Good(b, w)
         /\ Content(b, d) /\ (Open(b, d) \/ Locked(b, d))
<1>1. PICK w \in Loaded(d) : Good(b, w) /\ d = Readable(w)
  BY DEF Saved
<1>2. BornIs(b)
  BY DEF Saved
<1> DEFINE v == [w EXCEPT !.node = FALSE]
<1>3. LoadError(d) = "ok" /\ Loaded(d) = {v}
  BY <1>1, <1>2, LoadAccepts, LoadReturns
<1>4. Good(b, v)
  BY <1>1, LoadedIsGood
<1>5. Content(b, d) /\ (Open(b, d) \/ Locked(b, d))
  BY <1>1, <1>2, SavedIsGood
<1>. HIDE DEF v
<1>. QED BY <1>3, <1>4, <1>5

-----------------------------------------------------------------------------
\* newWallet.

\* Options that are accepted go together (wallet.go:152).
LEMMA OptionErrors ==
  ASSUME NEW opts
  PROVE  /\ OptionsError(opts) \in Results
         /\ OptionsError(opts) # "panic"
         /\ OptionsError(opts) = "ok" =>
              /\ opts.type \in WalletTypes
              /\ opts.type # "bip44" => opts.seedPassphrase = Null
              /\ opts.type # "xpub" => opts.xpub = Null
              /\ opts.type \in {"deterministic", "bip44"} => opts.seed # Null
              /\ opts.type \in {"xpub", "collection"} => opts.seed = Null
              /\ opts.coin # Null => ResolveCoinType(opts.coin) # Null
<1>1. OptionsError(opts) \in {"invalidWalletType", "seedPassphraseOnlyForBip44", "xpubOnlyForXpub",
                              "missingSeed", "seedNotWanted", "invalidCoinType", "invalidXpub",
                              "generationNotDefined", "ok"}
  BY DEF OptionsError
<1>2. OptionsError(opts) \in Results /\ OptionsError(opts) # "panic"
  BY <1>1 DEF Results
<1>3. OptionsError(opts) = "ok" =>
              /\ opts.type \in WalletTypes
              /\ opts.type # "bip44" => opts.seedPassphrase = Null
              /\ opts.type # "xpub" => opts.xpub = Null
              /\ opts.type \in {"deterministic", "bip44"} => opts.seed # Null
              /\ opts.type \in {"xpub", "collection"} => opts.seed = Null
              /\ opts.coin # Null => ResolveCoinType(opts.coin) # Null
  BY DEF OptionsError
<1>. QED BY <1>2, <1>3

\* ResolveCoinType gives a coin or nothing.
LEMMA ResolvesToCoin ==
  ASSUME NEW c, ResolveCoinType(c) # Null
  PROVE  ResolveCoinType(c) \in CoinTypes
BY DEF ResolveCoinType, CoinTypes

\* A wallet without entries is good.
LEMMA FreshIsGood ==
  ASSUME Ordinary, NEW opts \in OptionSet, OptionsError(opts) = "ok"
  PROVE  LET w == FreshWallet(opts) IN
         /\ Accepted(opts)
         /\ Good(opts, w) /\ Open(opts, w)
         /\ w.type = "xpub" => w.node
<1> DEFINE w == FreshWallet(opts)
<1>1. /\ opts.type \in WalletTypes
      /\ opts.type # "bip44" => opts.seedPassphrase = Null
      /\ opts.type # "xpub" => opts.xpub = Null
      /\ opts.type \in {"deterministic", "bip44"} => opts.seed # Null
      /\ opts.type \in {"xpub", "collection"} => opts.seed = Null
      /\ opts.coin # Null => ResolveCoinType(opts.coin) # Null
  BY OptionErrors
<1>2. Accepted(opts)
  BY <1>1 DEF Accepted, WalletTypes
<1> DEFINE coin == IF opts.coin = Null THEN "skycoin" ELSE ResolveCoinType(opts.coin)
           lastSeed == IF opts.type = "deterministic" THEN SeedAt(opts.seed, 0) ELSE Null
           path == Bip44CoinOf(opts)
<1>3. coin \in CoinTypes /\ (opts.type = "collection" => coin = "skycoin")
  BY <1>1, ResolvesToCoin DEF Ordinary, CoinTypes
<1>4. lastSeed = IF opts.type = "deterministic" THEN [root |-> opts.seed, index |-> 0, hex |-> FALSE]
                 ELSE Null
  BY DEF SeedAt
<1>. HIDE DEF coin, lastSeed, path
<1>5. /\ IsRecord(w)
      /\ w.type = opts.type /\ w.coin = coin /\ w.bip44Coin = path
      /\ w.encrypted = FALSE /\ w.cryptoType = Null /\ w.secrets = Null
      /\ w.seed = opts.seed /\ w.lastSeed = lastSeed /\ w.seedPassphrase = opts.seedPassphrase
      /\ w.xpub = opts.xpub /\ w.node = (opts.type = "xpub")
      /\ w.entries = <<>> /\ w.changeEntries = <<>>
  BY DEF FreshWallet, IsRecord, Fields, coin, lastSeed, path
<1>. HIDE DEF w
<1>6. EntriesAre(opts, w, <<>>) /\ SecretsShown(w, <<>>) /\ OnChain(<<>>, 0) /\ OnChain(<<>>, 1)
      /\ Ascending(ChildNumbers(<<>>))
  BY EmptyEntries DEF EntriesAre, SecretsShown, OnChain, Ascending, ChildNumbers
<1>7. Content(opts, w)
  BY <1>1, <1>3, <1>5, <1>6 DEF Content, path
<1>8. w.type = "deterministic" => SeedReached(opts, w.lastSeed, Len(w.entries))
  <2>1. Len(w.entries) = 0
    BY <1>5
  <2>. QED BY <1>4, <1>5, <2>1 DEF SeedReached
<1>9. Open(opts, w)
  BY <1>4, <1>5, <1>6, <1>8 DEF Open
<1>10. Split(w)
  BY <1>5, <1>6 DEF Split
<1>. QED BY <1>2, <1>5, <1>7, <1>9, <1>10 DEF Good, w

\* A good wallet is what the invariant of WalletProofs calls one.
LEMMA GoodIsWallet ==
  ASSUME NEW b, NEW w, Good(b, w)
  PROVE  WalletOK(w)
BY DEF Good, Content, IsRecord, EntriesAre, WalletOK

\* The wallet newWallet validates has its first addresses and is open.
LEMMA FirstAddresses ==
  ASSUME Ordinary, NEW opts \in OptionSet, OptionsError(opts) = "ok"
  PROVE  LET num == IF opts.generateN = 0 THEN 1 ELSE opts.generateN
             r == IF opts.type = "collection" THEN Ok(FreshWallet(opts))
                  ELSE GenerateAddresses(FreshWallet(opts), num)
         IN  /\ r.err \in Results /\ r.err # "panic"
             /\ r.err = "ok" => Good(opts, r.w) /\ Open(opts, r.w)
<1> DEFINE num == IF opts.generateN = 0 THEN 1 ELSE opts.generateN
           w == FreshWallet(opts)
           g == GenerateAddresses(w, num)
<1>1. /\ Accepted(opts) /\ Good(opts, w) /\ Open(opts, w)
      /\ w.type = "xpub" => w.node
  BY FreshIsGood
<1>2. num \in Nat
  BY WalletAssumption
<1>. HIDE DEF w, num
<1>3. Outcome(opts, w, g)
  BY <1>1, <1>2, GenerateAddressesGood
<1>4. g.w = w \/ ~g.w.encrypted
  BY <1>1, <1>2, GoodIsWallet, GenerateAddressesOK
<1>5. CASE opts.type = "collection"
  <2>1. Ok(w).err = "ok" /\ Ok(w).w = w /\ "ok" \in Results /\ "ok" # "panic"
    BY DEF Ok, Results
  <2>. QED BY <1>1, <1>5, <2>1 DEF w
<1>6. CASE opts.type # "collection"
  <2>. HIDE DEF g
  <2>1. g.err \in Results /\ g.err # "panic"
    BY <1>1, <1>3 DEF Outcome
  <2>2. g.err = "ok" => Good(opts, g.w) /\ Open(opts, g.w)
    <3>1. ~g.w.encrypted
      BY <1>1, <1>4, OpenOrLocked
    <3>. QED BY <1>3, <3>1, OpenOrLocked DEF Outcome, Good
  <2>. QED BY <1>6, <2>1, <2>2 DEF g, w, num
<1>. QED BY <1>5, <1>6

\* newWallet returns a wallet that holds what its options say, or none.
LEMMA NewWalletGood ==
  ASSUME Ordinary, NEW opts \in OptionSet, NEW fails
  PROVE  LET r == NewWallet(opts, fails) IN
         /\ r.err \in Results /\ r.err # "panic"
         /\ r.err # "ok" => r.w = Null
         /\ r.err = "ok" => BornIs(opts) /\ Good(opts, r.w)
<1> DEFINE num == IF opts.generateN = 0 THEN 1 ELSE opts.generateN
           g == IF opts.type = "collection" THEN Ok(FreshWallet(opts))
                ELSE GenerateAddresses(FreshWallet(opts), num)
           ct == IF opts.cryptoType = Null THEN DefaultCryptoType ELSE opts.cryptoType
           l == Lock(g.w, opts.password, ct, fails)
           r == NewWallet(opts, fails)
           Refuses(e) == e \in Results /\ e # "panic" /\ e # "ok" /\ r = Fails(e, Null)
<1>1. r = IF OptionsError(opts) # "ok" THEN Fails(OptionsError(opts), Null)
          ELSE IF g.err # "ok" THEN Fails(g.err, Null)
          ELSE IF Validate(g.w) # "ok" THEN Fails(Validate(g.w), Null)
          ELSE IF ~opts.encrypt
          THEN IF opts.password # Null THEN Fails("missingEncrypt", Null) ELSE g
          ELSE IF l.err # "ok" THEN Fails(l.err, Null)
          ELSE IF Validate(l.w) # "ok" THEN Fails(Validate(l.w), Null)
          ELSE l
  BY DEF NewWallet
<1>2. OptionsError(opts) \in Results /\ OptionsError(opts) # "panic"
  BY OptionErrors
<1>3. OptionsError(opts) = "ok" =>
        /\ Accepted(opts)
        /\ g.err \in Results /\ g.err # "panic"
        /\ g.err = "ok" => Good(opts, g.w) /\ Open(opts, g.w)
  BY FreshIsGood, FirstAddresses
<1>4. opts.password \in Passwords \cup {Null}
  BY WalletAssumption
<1>. HIDE DEF g, ct
<1>5. l.err \in Results /\ l.err # "panic"
  BY LockErrors
<1>6. ASSUME BornIs(opts), Good(opts, g.w), l.err = "ok"
      PROVE  Good(opts, l.w)
  BY <1>4, <1>6, LockGood
<1>. HIDE DEF l, r
<1>7. ASSUME NEW w, Accepted(opts), Good(opts, w)
      PROVE  Validate(w) \in Results /\ Validate(w) # "panic"
  <2>1. Validate(w) \in {"ok", "invalidMnemonic", "invalidBip44Meta"}
    BY <1>7, ValidateGood DEF Good
  <2>. QED BY <2>1 DEF Results
<1>8. ASSUME Accepted(opts), Good(opts, g.w), Open(opts, g.w), Validate(g.w) = "ok"
      PROVE  BornIs(opts)
  BY <1>8, ValidateGood DEF Good
<1>9. "missingEncrypt" \in Results
  BY DEF Results
<1>10. \/ \E e : Refuses(e)
       \/ BornIs(opts) /\ r.err = "ok" /\ Good(opts, r.w)
  <2>1. CASE OptionsError(opts) # "ok"
    BY <1>1, <1>2, <2>1
  <2>2. CASE OptionsError(opts) = "ok" /\ g.err # "ok"
    BY <1>1, <1>3, <2>2
  <2>3. CASE OptionsError(opts) = "ok" /\ g.err = "ok" /\ Validate(g.w) # "ok"
    BY <1>1, <1>3, <1>7, <2>3
  <2>4. CASE OptionsError(opts) = "ok" /\ g.err = "ok" /\ Validate(g.w) = "ok"
    <3>1. BornIs(opts) /\ Good(opts, g.w) /\ Accepted(opts)
      BY <1>3, <1>8, <2>4
    <3>2. CASE ~opts.encrypt
      BY <1>1, <1>9, <2>4, <3>1, <3>2
    <3>3. CASE opts.encrypt /\ l.err # "ok"
      BY <1>1, <1>5, <2>4, <3>3
    <3>4. CASE opts.encrypt /\ l.err = "ok"
      <4>1. Good(opts, l.w)
        BY <1>6, <3>1, <3>4
      <4>2. r = IF Validate(l.w) # "ok" THEN Fails(Validate(l.w), Null) ELSE l
        BY <1>1, <2>4, <3>4
      <4>. QED BY <1>7, <3>1, <3>4, <4>1, <4>2
    <3>. QED BY <3>2, <3>3, <3>4
  <2>. QED BY <2>1, <2>2, <2>3, <2>4
<1>11. "ok" \in Results /\ "ok" # "panic"
  BY DEF Results
<1>12. ASSUME NEW e, Refuses(e) PROVE r.err = e /\ r.w = Null
  BY <1>12 DEF Fails
<1>. QED BY <1>10, <1>11, <1>12 DEF r

-----------------------------------------------------------------------------
(***************************************************************************)
(* The invariant, action by action.                                        *)
(***************************************************************************)

\* Of the results, two are no panics.
LEMMA OkResult == "ok" \in Results /\ "panic" \in Results /\ "callbackFailed" \in Results
                  /\ "ok" # "panic" /\ "callbackFailed" # "panic"
BY DEF Results

\* At first there is no wallet, no copy and no file.
LEMMA RecoveryInit == Init => RecoveryInv
BY OkResult DEF Init, RecoveryInv, NoPanic

\* What an operation is applied to, wallet or copy, is good.
LEMMA SubjectGood ==
  ASSUME RecoveryInv, Subject # Null
  PROVE  BornIs(born) /\ Accepted(born) /\ Good(born, Subject) /\ Subject.type = born.type
<1>1. BornIs(born) /\ Good(born, Subject)
  BY DEF RecoveryInv, Subject
<1>2. Accepted(born) /\ Subject.type = born.type
  BY <1>1 DEF BornIs, Good, Content
<1>. QED BY <1>1, <1>2

\* An operation with a good outcome keeps the invariant.
LEMMA ReturnsRecovers ==
  ASSUME RecoveryInv, Subject # Null, NEW r, Outcome(born, Subject, r), Returns(r)
  PROVE  RecoveryInv'
<1>1. BornIs(born) /\ Good(born, Subject) /\ Subject.type = born.type
  BY SubjectGood
<1>2. err' = r.err /\ r.err \in Results /\ disk' = disk /\ born' = born
  BY DEF Returns, Outcome, Forget
<1>3. CASE r.err = "panic"
  <2>1. Forget /\ born.type = "xpub"
    BY <1>1, <1>3 DEF Returns, Outcome
  <2>. QED BY <1>2, <2>1 DEF Forget, RecoveryInv, NoPanic
<1>4. CASE r.err # "panic"
  <2>1. Good(born, r.w)
    BY <1>1 DEF Outcome
  <2>2. IsWallet(r.w)
    BY <2>1, HoldsTyped DEF Good
  <2>3. guard' = guard /\ password' = password /\ cryptoType' = cryptoType
    BY <1>4 DEF Returns
  <2>4. CASE guard = "none"
    <3>1. wallet' = r.w /\ temp' = temp
      BY <1>4, <2>4 DEF Returns
    <3>. QED BY <1>1, <1>2, <1>4, <2>1, <2>3, <2>4, <3>1 DEF RecoveryInv, NoPanic
  <2>5. CASE guard # "none"
    <3>1. temp' = r.w /\ wallet' = wallet
      BY <1>4, <2>5 DEF Returns
    <3>. QED BY <1>1, <1>2, <1>4, <2>1, <2>2, <2>3, <2>5, <3>1 DEF RecoveryInv, NoPanic
  <2>. QED BY <2>4, <2>5
<1>. QED BY <1>3, <1>4

\* Lock has a good outcome.
LEMMA LockOutcome ==
  ASSUME Ordinary, NEW b, BornIs(b), NEW w, Good(b, w), NEW p \in Passwords \cup {Null},
         NEW ct, NEW fails
  PROVE  Outcome(b, w, Lock(w, p, ct, fails))
<1>1. Lock(w, p, ct, fails).err = "ok" => Good(b, Lock(w, p, ct, fails).w)
  BY LockGood
<1>. QED BY <1>1, LockErrors DEF Outcome

\* Unlock has a good outcome, with the right password and the wrong one.
LEMMA UnlockOutcome ==
  ASSUME Ordinary, NEW b, Accepted(b), NEW w, Good(b, w), NEW p
  PROVE  Outcome(b, w, Unlock(w, p))
BY UnlockGood DEF Outcome

\* NewWallet makes a good wallet of options it accepts.
LEMMA CreateRecovers ==
  ASSUME Ordinary, RecoveryInv, NEW opts \in OptionSet, NEW fails, Create(opts, fails)
  PROVE  RecoveryInv'
<1> DEFINE r == NewWallet(opts, fails)
<1>1. /\ r.err \in Results /\ r.err # "panic"
      /\ r.err # "ok" => r.w = Null
      /\ r.err = "ok" => BornIs(opts) /\ Good(opts, r.w)
  BY NewWalletGood
<1>2. /\ wallet = Null /\ disk' = Null /\ wallet' = r.w /\ err' = r.err
      /\ born' = IF r.err = "ok" THEN opts ELSE Null
      /\ temp' = temp /\ guard' = guard /\ password' = password /\ cryptoType' = cryptoType
  BY DEF Create
<1>3. guard = "none"
  BY <1>2 DEF RecoveryInv
<1>. HIDE DEF r
<1>. QED BY <1>1, <1>2, <1>3 DEF RecoveryInv, NoPanic

\* A guard's copy is good when the callback gets it.
LEMMA GuardBeginRecovers ==
  ASSUME Ordinary, RecoveryInv, NEW kind \in {"view", "update"}, NEW p \in Passwords \cup {Null},
         GuardBegin(kind, p)
  PROVE  RecoveryInv'
<1> DEFINE r == Unlock(wallet, p)
<1>1. /\ guard = "none" /\ wallet # Null /\ err' = r.err
      /\ wallet' = wallet /\ disk' = disk /\ born' = born
  BY DEF GuardBegin
<1>2. BornIs(born) /\ Accepted(born) /\ Good(born, wallet)
  BY <1>1 DEF RecoveryInv, BornIs
<1>3. /\ r.err \in Results /\ r.err # "panic"
      /\ r.err = "ok" => Locked(born, wallet) /\ Good(born, r.w)
  BY <1>2, UnlockGood
<1>4. CASE r.err = "ok"
  <2>1. guard' = kind /\ temp' = r.w /\ password' = p /\ cryptoType' = wallet.cryptoType
    BY <1>4 DEF GuardBegin
  <2>2. IsWallet(r.w) /\ wallet.cryptoType \in CryptoTypes
    BY <1>3, <1>4, HoldsTyped DEF Good, Locked
  <2>. HIDE DEF r
  <2>. QED BY <1>1, <1>2, <1>3, <1>4, <2>1, <2>2 DEF RecoveryInv, NoPanic
<1>5. CASE r.err # "ok"
  <2>1. guard' = guard /\ temp' = temp /\ password' = password /\ cryptoType' = cryptoType
    BY <1>5 DEF GuardBegin
  <2>. HIDE DEF r
  <2>. QED BY <1>1, <1>3, <2>1 DEF RecoveryInv, NoPanic
<1>. QED BY <1>4, <1>5

\* A guard that ends without putting its copy in place.
LEMMA GuardEndRecovers ==
  ASSUME RecoveryInv, CallbackFails \/ ViewEnds
  PROVE  RecoveryInv'
<1>1. /\ guard # "none" /\ err' \in {"ok", "callbackFailed"}
      /\ wallet' = wallet /\ disk' = disk /\ born' = born
      /\ guard' = "none" /\ temp' = Erase(temp) /\ password' = Null /\ cryptoType' = Null
  BY DEF CallbackFails, ViewEnds, GuardOver
<1>2. IsWallet(Erase(temp))
  BY <1>1, ErasedTyped DEF RecoveryInv
<1>3. err' \in Results /\ err' # "panic"
  BY <1>1, OkResult
<1>. QED BY <1>1, <1>2, <1>3 DEF RecoveryInv, NoPanic

\* GuardUpdate locks the copy again, if at all, before it replaces the wallet.
LEMMA UpdateEndsRecovers ==
  ASSUME Ordinary, RecoveryInv, NEW fails, UpdateEnds(fails)
  PROVE  RecoveryInv'
<1> DEFINE r == Lock(temp, password, cryptoType, fails)
<1>1. /\ guard = "update" /\ err' = r.err
      /\ wallet' = IF r.err = "ok" THEN Erase(Copied(r.w)) ELSE wallet
      /\ guard' = "none" /\ temp' = Erase(r.w) /\ password' = Null /\ cryptoType' = Null
      /\ disk' = disk /\ born' = born
  BY DEF UpdateEnds, GuardOver
<1>2. BornIs(born) /\ Good(born, temp) /\ password \in Passwords \cup {Null}
  BY <1>1 DEF RecoveryInv
<1>3. /\ r.err \in Results /\ r.err # "panic"
      /\ r.err # "ok" => r.w = temp
  BY LockErrors
<1>4. r.err = "ok" => Good(born, r.w) /\ Locked(born, r.w)
  BY <1>2, LockGood
<1>. HIDE DEF r
<1>5. r.err = "ok" => Good(born, Erase(Copied(r.w)))
  BY <1>4, ErasedCopyGood
<1>6. IsWallet(Erase(r.w))
  BY <1>2, <1>3, <1>4, ErasedTyped
<1>. QED BY <1>1, <1>2, <1>3, <1>5, <1>6 DEF RecoveryInv, NoPanic

\* The file is written from a good wallet, and Load will return that one.
LEMMA SaveRecovers ==
  ASSUME Ordinary, RecoveryInv, Save
  PROVE  RecoveryInv'
<1>1. wallet # Null /\ BornIs(born) /\ Good(born, wallet)
  BY DEF Save, RecoveryInv
<1>2. ~ReadablePanics(wallet)
  BY <1>1, ReadableWorks DEF Good
<1>3. /\ disk' = Readable(wallet) /\ err' = "ok" /\ wallet' = wallet /\ temp' = temp
      /\ guard' = guard /\ password' = password /\ cryptoType' = cryptoType /\ born' = born
  BY <1>2 DEF Save
<1>4. Saved(born, disk')
  BY <1>1, <1>3, SavedIsGood
<1>. QED BY <1>3, <1>4, OkResult DEF RecoveryInv, NoPanic

\* Load returns the good wallet the file was written from.
LEMMA LoadRecovers ==
  ASSUME Ordinary, RecoveryInv, Load
  PROVE  RecoveryInv'
<1>1. guard = "none" /\ disk # Null /\ Saved(born, disk) /\ BornIs(born)
  BY DEF Load, RecoveryInv, Saved
<1>2. LoadError(disk) = "ok" /\ \A w \in Loaded(disk) : Good(born, w)
  BY <1>1, SavedHolds
<1>3. /\ err' = "ok" /\ wallet' \in Loaded(disk) /\ temp' = temp /\ guard' = guard
      /\ password' = password /\ cryptoType' = cryptoType /\ disk' = disk /\ born' = born
  BY <1>2 DEF Load
<1>. QED BY <1>1, <1>2, <1>3, OkResult DEF RecoveryInv, NoPanic

\* The file survives the process.
LEMMA ExitRecovers ==
  ASSUME RecoveryInv, Exit
  PROVE  RecoveryInv'
BY OkResult DEF Exit, Forget, RecoveryInv, NoPanic

\* Every step keeps the invariant.
LEMMA RecoveryNext ==
  ASSUME Ordinary, RecoveryInv, [Next]_vars
  PROVE  RecoveryInv'
<1>1. ASSUME NEW opts \in OptionSet, NEW fails \in BOOLEAN, Create(opts, fails) PROVE RecoveryInv'
  BY <1>1, CreateRecovers
<1>2. ASSUME NEW num \in Nums, Generate(num) PROVE RecoveryInv'
  <2>1. Subject # Null /\ Returns(GenerateAddresses(Subject, num)) /\ num \in Nat
    BY <1>2, WalletAssumption DEF Generate
  <2>2. Outcome(born, Subject, GenerateAddresses(Subject, num))
    BY <2>1, SubjectGood, GenerateAddressesGood
  <2>. QED BY <2>1, <2>2, ReturnsRecovers
<1>3. ASSUME GenerateChangeEntry PROVE RecoveryInv'
  <2>1. Subject # Null /\ Subject.type = "bip44" /\ Returns(GenerateChange(Subject))
    BY <1>3 DEF GenerateChangeEntry
  <2>2. Outcome(born, Subject, GenerateChange(Subject))
    BY <2>1, SubjectGood, GenerateChangeGood
  <2>. QED BY <2>1, <2>2, ReturnsRecovers
<1>4. ASSUME NEW e \in NewEntries, AddToCollection(e) PROVE RecoveryInv'
  <2>1. Subject # Null /\ Subject.type = "collection" /\ Returns(AddEntry(Subject, e))
    BY <1>4 DEF AddToCollection
  <2>2. Outcome(born, Subject, AddEntry(Subject, e))
    BY <2>1, SubjectGood, AddEntryGood
  <2>. QED BY <2>1, <2>2, ReturnsRecovers
<1>5. ASSUME NEW p \in Passwords \cup {Null}, NEW ct \in Cryptos, NEW fails \in BOOLEAN,
             LockWallet(p, ct, fails)
      PROVE  RecoveryInv'
  <2>1. Subject # Null /\ Returns(Lock(Subject, p, ct, fails))
    BY <1>5 DEF LockWallet
  <2>2. Outcome(born, Subject, Lock(Subject, p, ct, fails))
    BY <2>1, SubjectGood, LockOutcome
  <2>. QED BY <2>1, <2>2, ReturnsRecovers
<1>6. ASSUME NEW p \in Passwords \cup {Null}, UnlockWallet(p) PROVE RecoveryInv'
  <2>1. Subject # Null /\ Returns(Unlock(Subject, p))
    BY <1>6 DEF UnlockWallet, Subject
  <2>2. Outcome(born, Subject, Unlock(Subject, p))
    BY <2>1, SubjectGood, UnlockOutcome
  <2>. QED BY <2>1, <2>2, ReturnsRecovers
<1>7. ASSUME NEW kind \in {"view", "update"}, NEW p \in Passwords \cup {Null}, GuardBegin(kind, p)
      PROVE  RecoveryInv'
  BY <1>7, GuardBeginRecovers
<1>8. ASSUME CallbackFails \/ ViewEnds PROVE RecoveryInv'
  BY <1>8, GuardEndRecovers
<1>9. ASSUME NEW fails \in BOOLEAN, UpdateEnds(fails) PROVE RecoveryInv'
  BY <1>9, UpdateEndsRecovers
<1>10. ASSUME Save PROVE RecoveryInv'
  BY <1>10, SaveRecovers
<1>11. ASSUME Load PROVE RecoveryInv'
  BY <1>11, LoadRecovers
<1>12. ASSUME Exit PROVE RecoveryInv'
  BY <1>12, ExitRecovers
<1>13. ASSUME UNCHANGED vars PROVE RecoveryInv'
  BY <1>13 DEF vars, RecoveryInv, NoPanic
<1>. QED BY <1>1, <1>2, <1>3, <1>4, <1>5, <1>6, <1>7, <1>8, <1>9, <1>10, <1>11, <1>12, <1>13 DEF Next

\* The invariant holds in every reachable state.
LEMMA RecoveryAlways == ASSUME Ordinary PROVE Spec => []RecoveryInv
<1>1. Ordinary => (RecoveryInv /\ [Next]_vars => RecoveryInv')
  BY RecoveryNext
<1>. QED BY <1>1, RecoveryInit, PTL DEF Spec

-----------------------------------------------------------------------------
\* Nothing is ever lost: whatever was locked, unlocked, generated under a guard,
\* failed, saved and loaded, the wallet in memory and the one in the file open with
\* their password and have what they were created from (wallet.go:335, :389, :498,
\* :565, :629).
THEOREM NothingIsEverLost == ASSUME Ordinary PROVE Spec => []Recoverable
<1>1. RecoveryInv => Recoverable
  <2> SUFFICES ASSUME RecoveryInv, NEW w \in {wallet, disk}, w # Null
               PROVE  LET opened == IF w.encrypted THEN Unlock(w, w.secrets.password) ELSE Ok(w)
                      IN  opened.err = "ok" /\ Intact(opened.w)
    BY DEF Recoverable
  <2>1. Accepted(born) /\ Content(born, w) /\ (Open(born, w) \/ Locked(born, w))
    <3>1. CASE w = wallet
      BY <3>1 DEF RecoveryInv, Good, BornIs
    <3>2. CASE w = disk
      BY <3>2, SavedHolds DEF RecoveryInv, Saved, BornIs
    <3>. QED BY <3>1, <3>2
  <2>. QED BY <2>1, HoldsOpens
<1>2. Spec => []RecoveryInv
  BY RecoveryAlways
<1>. QED BY <1>1, <1>2, PTL

\* A wallet that was saved comes back as it was: Load accepts the file, and what it
\* splits and sorts ends up where it stood (wallet.go:629, bip44_wallet.go:506).
THEOREM SavingRoundTrips == ASSUME Ordinary PROVE Spec => []RoundTrip
<1>1. RecoveryInv => RoundTrip
  BY LoadAccepts, LoadReturns DEF RecoveryInv, RoundTrip
<1>2. Spec => []RecoveryInv
  BY RecoveryAlways
<1>. QED BY <1>1, <1>2, PTL

\* No legal call panics, but of an xpub wallet (bip44_wallet.go:271,
\* collection_wallet.go:121, readable.go).
THEOREM NothingPanics == ASSUME Ordinary PROVE Spec => []NoPanic
<1>1. RecoveryInv => NoPanic
  BY DEF RecoveryInv
<1>2. Spec => []RecoveryInv
  BY RecoveryAlways
<1>. QED BY <1>1, <1>2, PTL

\* Every wallet is a record of its type, in memory and in the file, and every call
\* returns what it may return.
THEOREM WalletTypeCorrect == ASSUME Ordinary PROVE Spec => []TypeOK
<1>1. RecoveryInv => TypeOK
  <2> SUFFICES ASSUME RecoveryInv PROVE TypeOK
    OBVIOUS
  <2>1. wallet # Null => IsWallet(wallet)
    BY HoldsTyped DEF RecoveryInv, Good
  <2>2. disk # Null => IsWallet(disk)
    BY SavedHolds, HoldsTyped DEF RecoveryInv
  <2>. QED BY <2>1, <2>2 DEF RecoveryInv, TypeOK
<1>2. Spec => []RecoveryInv
  BY RecoveryAlways
<1>. QED BY <1>1, <1>2, PTL
=============================================================================
