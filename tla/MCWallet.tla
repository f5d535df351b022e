------------------------------ MODULE MCWallet ------------------------------
(***************************************************************************)
(* Instances of Wallet for model checking.  One seed, one passphrase and   *)
(* one good xpub are enough: a wallet never meets another one's.           *)
(***************************************************************************)
EXTENDS Wallet

CONSTANTS seed, passphrase, xpub, deepXPub, oddXPub, pw1, pw2, foreign1, foreign2

NoOptions ==
  [type |-> "deterministic", coin |-> Null, bip44Coin |-> Null, seed |-> Null,
   seedPassphrase |-> Null, encrypt |-> FALSE, password |-> Null, cryptoType |-> Null,
   generateN |-> 1, xpub |-> Null]

DeterministicOptions ==
  { [NoOptions EXCEPT !.seed = seed],
    [NoOptions EXCEPT !.seed = seed, !.coin = "ethereum", !.generateN = 2,
                      !.encrypt = TRUE, !.password = pw1, !.cryptoType = "sha256-xor"] }

Bip44Options ==
  { [NoOptions EXCEPT !.type = "bip44", !.seed = seed, !.seedPassphrase = passphrase,
                      !.coin = "bitcoin"] }

XPubOptions ==
  { [NoOptions EXCEPT !.type = "xpub", !.xpub = xpub],
    [NoOptions EXCEPT !.type = "xpub", !.xpub = xpub, !.encrypt = TRUE, !.password = pw1] }

CollectionOptions(coins) ==
  { [NoOptions EXCEPT !.type = "collection", !.coin = c, !.generateN = 0] : c \in coins }

\* A coin under its short name, which ResolveCoinType accepts.
SpelledOptions == { [o EXCEPT !.coin = "btc"] : o \in Bip44Options }

BitcoinCollectionOptions == CollectionOptions({"bitcoin"})

SkycoinCollectionOptions == CollectionOptions({"skycoin"})

\* Chains that cannot be derived from: the change chain of one coin, all of another,
\* as when its number is too large for a path, and an xpub at the largest depth.
BadChains ==
  { <<<<seed, Null, 1>>, 1>>, <<<<seed, Null, 2>>, 0>>, <<<<seed, Null, 2>>, 1>>, <<deepXPub, 0>> }

\* The child after the impossible one cannot be added to this xpub.
BadChildren == { <<oddXPub, 2>> }

BadOptions ==
  { [NoOptions EXCEPT !.type = "bip44", !.seed = seed, !.bip44Coin = n] : n \in {1, 2} }
    \cup { [NoOptions EXCEPT !.type = "xpub", !.xpub = x] : x \in {deepXPub, oddXPub} }

AllOptions ==
  DeterministicOptions \cup Bip44Options \cup XPubOptions \cup SkycoinCollectionOptions
    \cup BadOptions

BothPasswords == {pw1, pw2}
KnownAndUnknownCrypto == {"sha256-xor", "rot13"}

\* A key imported from elsewhere, as an entry of a coin.
Imported(k, coin) ==
  LET key == Key(k, 0, 0) IN
  [address |-> [coin |-> coin, key |-> key], public |-> key, secret |-> key,
   childNumber |-> 0, change |-> 0]

SkycoinEntries ==
  { Imported(foreign1, "skycoin"), Imported(foreign2, "skycoin"),
    [Imported(foreign1, "skycoin") EXCEPT !.secret = Key(foreign2, 0, 0)],
    [Imported(foreign2, "skycoin") EXCEPT !.secret = Null] }

\* The second entry of a bip44 wallet: a child number is part of it.
HDEntries ==
  { [Imported(foreign1, "skycoin") EXCEPT !.childNumber = 1] }

BitcoinEntries == { Imported(foreign1, "bitcoin"), Imported(foreign2, "bitcoin") }

NoEntries == {}
=============================================================================
