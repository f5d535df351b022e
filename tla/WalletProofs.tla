---------------------------- MODULE WalletProofs ----------------------------
(***************************************************************************)
(* Proofs about Wallet: an encrypted wallet shows no secret, in memory or  *)
(* in the file, and a guard leaves none in its copy, for all options,      *)
(* passwords, entries, crypto types and bounds.                            *)
(***************************************************************************)
EXTENDS Wallet, SequenceTheorems, FiniteSetTheorems, TLAPS

\* What erasing relies on: entries are a sequence of records with a secret.
Image(es) == { es[n] : n \in DOMAIN es }

EntriesOK(es) ==
  /\ es \in Seq(Image(es))
  /\ \A n \in DOMAIN es : {"address", "secret"} \subseteq DOMAIN es[n]

Fields == {"type", "coin", "bip44Coin", "encrypted", "cryptoType", "secrets", "seed",
           "lastSeed", "seedPassphrase", "xpub", "node", "entries", "changeEntries"}

WalletOK(w) ==
  /\ DOMAIN w = Fields
  /\ w.type \in WalletTypes
  /\ EntriesOK(w.entries)
  /\ EntriesOK(w.changeEntries)

\* One wallet or none, and an encrypted one without secrets.
Safe(w) == w # Null => WalletOK(w) /\ (w.encrypted => NoPlaintext(w))

\* The entries t go on where s ends, but for secrets.
Continues(s, t) == Len(s) <= Len(t) /\ \A n \in DOMAIN s : t[n].address = s[n].address

\* The wallet v has the addresses of w, and perhaps more.
Extends(w, v) ==
  /\ Continues(w.entries, v.entries)
  /\ Continues(w.changeEntries, v.changeEntries)

-----------------------------------------------------------------------------
\* Sequences of entries.

\* A function on 1 .. n is a sequence.
LEMMA FunctionIsSeq ==
  ASSUME NEW k \in Nat, NEW f, f = [n \in 1 .. k |-> f[n]]
  PROVE  f \in Seq(Image(f)) /\ DOMAIN f = 1 .. k
<1>1. DOMAIN f = 1 .. k
  OBVIOUS
<1>2. \A n \in 1 .. k : f[n] \in Image(f)
  BY <1>1 DEF Image
<1>3. f \in [1 .. k -> Image(f)]
  BY <1>2
<1> QED
  BY <1>1, <1>3

\* A sequence is one over its own elements.
LEMMA SeqOfItsImage ==
  ASSUME NEW S, NEW f \in Seq(S)
  PROVE  f \in Seq(Image(f))
<1>1. Len(f) \in Nat /\ f = [n \in 1 .. Len(f) |-> f[n]]
  OBVIOUS
<1> QED
  BY <1>1, FunctionIsSeq

\* The places of a list of entries.
LEMMA EntriesDomain ==
  ASSUME NEW es, EntriesOK(es)
  PROVE  Len(es) \in Nat /\ DOMAIN es = 1 .. Len(es)
BY DEF EntriesOK

\* A list of entries continues itself ...
LEMMA ContinuesItself == ASSUME NEW s, EntriesOK(s) PROVE Continues(s, s)
BY EntriesDomain DEF Continues

\* ... and what continues its continuation.
LEMMA ContinuesOn ==
  ASSUME NEW s, NEW t, NEW u, EntriesOK(s), EntriesOK(t), EntriesOK(u),
         Continues(s, t), Continues(t, u)
  PROVE  Continues(s, u)
BY EntriesDomain DEF Continues

\* Entries changed one by one, but not their addresses, continue the old ones.
LEMMA MappedContinues ==
  ASSUME NEW s, EntriesOK(s), NEW t, EntriesOK(t), DOMAIN t = DOMAIN s,
         \A n \in DOMAIN s : t[n].address = s[n].address
  PROVE  Continues(s, t)
BY EntriesDomain DEF Continues

\* No entries are a list of entries.
LEMMA EmptyEntries == EntriesOK(<<>>)
BY DEF EntriesOK

\* Entries changed one by one are entries again.
LEMMA MappedEntries ==
  ASSUME NEW es, EntriesOK(es), NEW fs, fs = [n \in DOMAIN es |-> fs[n]],
         \A n \in DOMAIN es : {"address", "secret"} \subseteq DOMAIN fs[n]
  PROVE  EntriesOK(fs)
<1>1. Len(es) \in Nat /\ DOMAIN es = 1 .. Len(es)
  BY EntriesDomain
<1>2. fs = [n \in 1 .. Len(es) |-> fs[n]]
  BY <1>1, Zenon
<1>3. fs \in Seq(Image(fs)) /\ DOMAIN fs = DOMAIN es
  BY <1>1, <1>2, FunctionIsSeq
<1> QED
  BY <1>3 DEF EntriesOK

\* Two lists of entries joined are one.
LEMMA JoinedEntries ==
  ASSUME NEW es, EntriesOK(es), NEW fs, EntriesOK(fs)
  PROVE  /\ EntriesOK(es \o fs)
         /\ \A n \in DOMAIN (es \o fs) : (es \o fs)[n] \in Image(es) \cup Image(fs)
         /\ Continues(es, es \o fs)
<1> DEFINE S == Image(es) \cup Image(fs)
<1>1. es \in Seq(S) /\ fs \in Seq(S)
  BY SeqMonotonic DEF EntriesOK
<1>2. es \o fs \in Seq(S)
  BY <1>1
<1>3. DOMAIN (es \o fs) = 1 .. Len(es \o fs) /\ Len(es \o fs) \in Nat
  BY <1>2
<1>4. \A n \in DOMAIN (es \o fs) : (es \o fs)[n] \in S
  BY <1>2, <1>3
<1>5. \A e \in S : {"address", "secret"} \subseteq DOMAIN e
  BY DEF EntriesOK, Image
<1>6. es \o fs \in Seq(Image(es \o fs))
  BY <1>2, SeqOfItsImage
<1>7. Continues(es, es \o fs)
  <2>1. Len(es) \in Nat /\ Len(fs) \in Nat /\ DOMAIN es = 1 .. Len(es)
    BY EntriesDomain
  <2> HIDE DEF S
  <2>2. Len(es \o fs) = Len(es) + Len(fs) /\ \A n \in 1 .. Len(es) : (es \o fs)[n] = es[n]
    BY <1>1, <2>1
  <2> QED
    BY <2>1, <2>2 DEF Continues
<1> QED
  BY <1>4, <1>5, <1>6, <1>7 DEF EntriesOK

\* New entries behind the ones there are.
LEMMA ExtendedEntries ==
  ASSUME NEW es, EntriesOK(es), NEW k \in Nat, NEW fs, fs = [n \in 1 .. k |-> fs[n]],
         \A n \in 1 .. k : {"address", "secret"} \subseteq DOMAIN fs[n]
  PROVE  EntriesOK(es \o fs) /\ Continues(es, es \o fs)
<1>1. EntriesOK(fs)
  BY FunctionIsSeq DEF EntriesOK
<1> QED
  BY <1>1, JoinedEntries

\* So is a list with an entry appended that has a secret.
LEMMA AppendedEntry ==
  ASSUME NEW es, EntriesOK(es), NEW e, {"address", "secret"} \subseteq DOMAIN e
  PROVE  EntriesOK(Append(es, e)) /\ Continues(es, Append(es, e))
<1> DEFINE S == Image(es) \cup {e}
<1>1. es \in Seq(S)
  BY SeqMonotonic DEF EntriesOK
<1>2. Append(es, e) \in Seq(S) /\ DOMAIN Append(es, e) = 1 .. Len(es) + 1
  BY <1>1
<1>3. \A n \in DOMAIN Append(es, e) : Append(es, e)[n] \in S
  BY <1>1, <1>2
<1>4. \A f \in S : {"address", "secret"} \subseteq DOMAIN f
  BY DEF EntriesOK, Image
<1>5. Append(es, e) \in Seq(Image(Append(es, e)))
  BY <1>2, SeqOfItsImage
<1>6. Continues(es, Append(es, e))
  <2>1. Len(es) \in Nat /\ DOMAIN es = 1 .. Len(es)
    BY EntriesDomain
  <2> HIDE DEF S
  <2>2. Len(Append(es, e)) = Len(es) + 1 /\ \A n \in 1 .. Len(es) : Append(es, e)[n] = es[n]
    BY <1>1, <2>1
  <2> QED
    BY <2>1, <2>2 DEF Continues
<1> QED
  BY <1>3, <1>4, <1>5, <1>6 DEF EntriesOK

\* Erased entries are entries without secrets, with the same addresses.
LEMMA ErasedEntriesOK ==
  ASSUME NEW es, EntriesOK(es)
  PROVE  /\ EntriesOK(ErasedEntries(es))
         /\ DOMAIN ErasedEntries(es) = DOMAIN es
         /\ \A n \in DOMAIN es : ErasedEntries(es)[n].secret = Null
         /\ Continues(es, ErasedEntries(es))
<1>1. /\ DOMAIN ErasedEntries(es) = DOMAIN es
      /\ \A n \in DOMAIN es : ErasedEntries(es)[n] = [es[n] EXCEPT !.secret = Null]
  BY DEF ErasedEntries
<1>2. \A n \in DOMAIN es :
        /\ {"address", "secret"} \subseteq DOMAIN ErasedEntries(es)[n]
        /\ ErasedEntries(es)[n].secret = Null
        /\ ErasedEntries(es)[n].address = es[n].address
  BY <1>1 DEF EntriesOK
<1>3. ErasedEntries(es) = [n \in DOMAIN es |-> ErasedEntries(es)[n]]
  BY DEF ErasedEntries
<1>4. EntriesOK(ErasedEntries(es))
  BY <1>2, <1>3, MappedEntries
<1> QED
  BY <1>1, <1>2, <1>4, MappedContinues

\* Entries with their secrets restored have the same addresses.
LEMMA UnpackedEntriesOK ==
  ASSUME NEW es, EntriesOK(es), NEW keys
  PROVE  EntriesOK(UnpackedEntries(es, keys)) /\ Continues(es, UnpackedEntries(es, keys))
<1>1. \A n \in DOMAIN es :
        UnpackedEntries(es, keys)[n] = [es[n] EXCEPT !.secret = keys[es[n].address]]
  BY DEF UnpackedEntries
<1>2. \A n \in DOMAIN es :
        /\ {"address", "secret"} \subseteq DOMAIN UnpackedEntries(es, keys)[n]
        /\ UnpackedEntries(es, keys)[n].address = es[n].address
  BY <1>1 DEF EntriesOK
<1>3. /\ UnpackedEntries(es, keys) = [n \in DOMAIN es |-> UnpackedEntries(es, keys)[n]]
      /\ DOMAIN UnpackedEntries(es, keys) = DOMAIN es
  BY DEF UnpackedEntries
<1>4. EntriesOK(UnpackedEntries(es, keys))
  BY <1>2, <1>3, MappedEntries
<1> QED
  BY <1>2, <1>3, <1>4, MappedContinues

\* Decoding changes addresses only.
LEMMA DecodedEntriesOK ==
  ASSUME NEW es, EntriesOK(es), NEW coin
  PROVE  /\ EntriesOK(DecodedEntries(coin, es))
         /\ DOMAIN DecodedEntries(coin, es) = DOMAIN es
         /\ \A n \in DOMAIN es : DecodedEntries(coin, es)[n].secret = es[n].secret
<1>1. /\ DOMAIN DecodedEntries(coin, es) = DOMAIN es
      /\ \A n \in DOMAIN es : DecodedEntries(coin, es)[n] =
           [es[n] EXCEPT !.address = DecodedAddress(coin, @)]
  BY DEF DecodedEntries
<1>2. \A n \in DOMAIN es :
        /\ {"address", "secret"} \subseteq DOMAIN DecodedEntries(coin, es)[n]
        /\ DecodedEntries(coin, es)[n].secret = es[n].secret
  BY <1>1 DEF EntriesOK
<1>3. DecodedEntries(coin, es) = [n \in DOMAIN es |-> DecodedEntries(coin, es)[n]]
  BY DEF DecodedEntries
<1> QED
  BY <1>1, <1>2, <1>3, MappedEntries

\* Splitting and sorting bring no entry in that was not there.
LEMMA SortingsOK ==
  ASSUME NEW es, EntriesOK(es), NEW places \in SUBSET DOMAIN es,
         NEW s \in Sortings(es, places)
  PROVE  /\ EntriesOK(s)
         /\ \A n \in DOMAIN s : s[n] \in Image(es)
<1>1. IsFiniteSet(places)
  BY EntriesDomain, FS_Interval, FS_Subset
<1>2. Cardinality(places) \in Nat
  BY <1>1, FS_CardinalityType
<1>3. PICK p \in [1 .. Cardinality(places) -> places] : s = [n \in DOMAIN p |-> es[p[n]]]
  BY DEF Sortings
<1>4. DOMAIN p = 1 .. Cardinality(places) /\ \A n \in DOMAIN p : p[n] \in DOMAIN es
  BY <1>3
<1>5. s = [n \in 1 .. Cardinality(places) |-> s[n]]
  BY <1>3, <1>4
<1>6. s \in Seq(Image(s)) /\ DOMAIN s = 1 .. Cardinality(places)
  BY <1>2, <1>5, FunctionIsSeq
<1>7. \A n \in DOMAIN s : s[n] \in Image(es)
  BY <1>3, <1>4, <1>6 DEF Image
<1> QED
  BY <1>6, <1>7 DEF EntriesOK, Image

-----------------------------------------------------------------------------
\* Operations on one wallet.  None of them drops an address.

\* A wallet has its own addresses.
LEMMA ExtendsItself == ASSUME NEW w, WalletOK(w) PROVE Extends(w, w)
BY ContinuesItself DEF Extends, WalletOK

\* What extends a wallet that extends a wallet extends that one.
LEMMA ExtendsOn ==
  ASSUME NEW w, NEW v, NEW u, WalletOK(w), WalletOK(v), WalletOK(u), Extends(w, v), Extends(v, u)
  PROVE  Extends(w, u)
BY ContinuesOn DEF Extends, WalletOK

\* Erase leaves a wallet without secrets and with its addresses.
LEMMA EraseOK ==
  ASSUME NEW w, WalletOK(w)
  PROVE  /\ WalletOK(Erase(w)) /\ NoPlaintext(Erase(w)) /\ Erase(w).encrypted = w.encrypted
         /\ Extends(w, Erase(w))
<1>1. /\ DOMAIN Erase(w) = Fields
      /\ Erase(w).type = w.type
      /\ Erase(w).encrypted = w.encrypted
      /\ Erase(w).seed = Null
      /\ Erase(w).lastSeed = Null
      /\ Erase(w).seedPassphrase = Null
      /\ Erase(w).entries = ErasedEntries(w.entries)
      /\ Erase(w).changeEntries = ErasedEntries(w.changeEntries)
  BY DEF Erase, WalletOK, Fields
<1>2. WalletOK(Erase(w))
  BY <1>1, ErasedEntriesOK DEF WalletOK
<1>3. NoPlaintext(Erase(w))
  <2>1. EntriesOK(w.entries) /\ EntriesOK(w.changeEntries)
    BY DEF WalletOK
  <2> QED
    BY <1>1, <2>1, ErasedEntriesOK DEF NoPlaintext
<1>4. Extends(w, Erase(w))
  BY <1>1, ErasedEntriesOK DEF WalletOK, Extends
<1> QED
  BY <1>1, <1>2, <1>3, <1>4

\* A copy is a wallet, with the same secrets shown and the same addresses.
LEMMA CopiedOK ==
  ASSUME NEW w, WalletOK(w)
  PROVE  /\ WalletOK(Copied(w))
         /\ Copied(w).encrypted = w.encrypted
         /\ NoPlaintext(w) => NoPlaintext(Copied(w))
         /\ Extends(w, Copied(w))
<1>1. /\ DOMAIN Copied(w) = Fields
      /\ Copied(w).type = w.type
      /\ Copied(w).encrypted = w.encrypted
      /\ Copied(w).seed = w.seed
      /\ Copied(w).lastSeed = w.lastSeed
      /\ Copied(w).seedPassphrase = w.seedPassphrase
      /\ Copied(w).entries = w.entries
      /\ Copied(w).changeEntries = w.changeEntries
  BY DEF Copied, WalletOK, Fields
<1>2. Extends(w, Copied(w))
  BY <1>1, ContinuesItself DEF WalletOK, Extends
<1> QED
  BY <1>1, <1>2 DEF WalletOK, NoPlaintext

\* What Lock builds before it erases is a wallet with the same addresses.
LEMMA SealingOK ==
  ASSUME NEW w, WalletOK(w), NEW p, NEW ct
  PROVE  WalletOK(Sealing(w, p, ct)) /\ Extends(w, Sealing(w, p, ct))
<1>1. /\ DOMAIN Sealing(w, p, ct) = Fields
      /\ Sealing(w, p, ct).type = w.type
      /\ Sealing(w, p, ct).entries = w.entries
      /\ Sealing(w, p, ct).changeEntries = w.changeEntries
  BY DEF Sealing, WalletOK, Fields
<1>2. Extends(w, Sealing(w, p, ct))
  BY <1>1, ContinuesItself DEF WalletOK, Extends
<1> QED
  BY <1>1, <1>2 DEF WalletOK

\* What Lock leaves behind is the wallet it was given, or shows no secret.
LEMMA LockOK ==
  ASSUME NEW w, WalletOK(w), NEW p, NEW ct, NEW fails
  PROVE  /\ WalletOK(Lock(w, p, ct, fails).w)
         /\ Lock(w, p, ct, fails).w = w \/ NoPlaintext(Lock(w, p, ct, fails).w)
         /\ Extends(w, Lock(w, p, ct, fails).w)
<1>1. \/ Lock(w, p, ct, fails).w = w
      \/ Lock(w, p, ct, fails).w = Copied(Erase(Sealing(w, p, ct)))
  BY DEF Lock, Ok, Fails
<1>2. /\ WalletOK(Copied(Erase(Sealing(w, p, ct))))
      /\ NoPlaintext(Copied(Erase(Sealing(w, p, ct))))
  BY SealingOK, EraseOK, CopiedOK
<1>3. Extends(w, Copied(Erase(Sealing(w, p, ct))))
  <2>1. WalletOK(Sealing(w, p, ct)) /\ Extends(w, Sealing(w, p, ct))
    BY SealingOK
  <2>2. WalletOK(Erase(Sealing(w, p, ct))) /\ Extends(w, Erase(Sealing(w, p, ct)))
    BY <2>1, EraseOK, ExtendsOn
  <2> QED
    BY <1>2, <2>2, CopiedOK, ExtendsOn
<1> QED
  BY <1>1, <1>2, <1>3, ExtendsItself

\* UnpackSecrets leaves a wallet, whether or not every secret was found.
LEMMA UnpackSecretsOK ==
  ASSUME NEW w, WalletOK(w), NEW ss
  PROVE  WalletOK(UnpackSecrets(w, ss).w) /\ Extends(w, UnpackSecrets(w, ss).w)
<1> DEFINE r == UnpackSecrets(w, ss).w
<1>1. CASE r = w
  BY <1>1, ExtendsItself
<1>2. CASE r # w
  <2>1. /\ DOMAIN r = Fields
        /\ r.type = w.type
        /\ r.entries = UnpackedEntries(w.entries, ss.keys)
        /\ r.changeEntries = UnpackedEntries(w.changeEntries, ss.keys)
    BY <1>2 DEF UnpackSecrets, Ok, Fails, WalletOK, Fields
  <2> QED
    BY <2>1, UnpackedEntriesOK DEF WalletOK, Extends
<1> QED
  BY <1>1, <1>2

\* What Unlock leaves behind is the wallet it was given, or an open one.
LEMMA UnlockOK ==
  ASSUME NEW w, WalletOK(w), NEW p
  PROVE  /\ WalletOK(Unlock(w, p).w)
         /\ Unlock(w, p).w = w \/ Unlock(w, p).w.encrypted = FALSE
         /\ Extends(w, Unlock(w, p).w)
<1> DEFINE u == UnpackSecrets(Copied(w), w.secrets.data).w
           open == [u EXCEPT !.encrypted = FALSE, !.secrets = Null, !.cryptoType = Null]
<1>1. Unlock(w, p).w = w \/ Unlock(w, p).w = open
  BY DEF Unlock, Ok, Fails
<1>2. WalletOK(u) /\ Extends(w, u)
  BY CopiedOK, UnpackSecretsOK, ExtendsOn
<1>3. /\ DOMAIN open = Fields
      /\ open.encrypted = FALSE
      /\ open.type = u.type
      /\ open.entries = u.entries
      /\ open.changeEntries = u.changeEntries
  <2> HIDE DEF u
  <2> QED BY <1>2 DEF WalletOK, Fields
<1>4. WalletOK(open)
  <2> HIDE DEF u, open
  <2> QED BY <1>2, <1>3 DEF WalletOK
<1>5. Extends(w, open)
  <2> HIDE DEF u, open
  <2> QED BY <1>2, <1>3 DEF Extends
<1> QED
  BY <1>1, <1>3, <1>4, <1>5, ExtendsItself

\* The number of fresh children is a length.
LEMMA NewChildrenCount ==
  ASSUME NEW first, NEW num
  PROVE  Cardinality(NewChildren(first, num)) \in Nat
<1>1. 0 \in Int /\ MaxUint32 \in Int
  BY ChildNumberAssumption
<1>2. IsFiniteSet(Uint32)
  BY <1>1, FS_Interval DEF Uint32
<1>3. NewChildren(first, num) \subseteq Uint32
  BY DEF NewChildren, TriedChildren
<1> QED
  BY <1>2, <1>3, FS_Subset, FS_CardinalityType

\* A generated entry has an address and a secret, be it none.
LEMMA NewEntryHasSecret ==
  ASSUME NEW w, NEW key, NEW secret, NEW c, NEW change
  PROVE  {"address", "secret"} \subseteq DOMAIN NewEntry(w, key, secret, c, change)
BY DEF NewEntry

\* A wallet with more entries and another last seed is a wallet.
LEMMA MoreEntriesOK ==
  ASSUME NEW w, WalletOK(w), NEW r, DOMAIN r = DOMAIN w, r.type = w.type,
         EntriesOK(r.entries), EntriesOK(r.changeEntries)
  PROVE  WalletOK(r)
BY DEF WalletOK

\* The loop runs a natural number of times.
LEMMA IterationsNat ==
  ASSUME NEW num \in Nat
  PROVE  Iterations(num) \in Nat
BY WalletDataAssumption DEF Iterations, AsInt

\* GenerateAddresses of a deterministic wallet.
LEMMA GenerateDeterministicOK ==
  ASSUME NEW w, WalletOK(w), NEW num \in Nat
  PROVE  /\ WalletOK(GenerateDeterministic(w, num).w)
         /\ GenerateDeterministic(w, num).w.encrypted = w.encrypted
         /\ Extends(w, GenerateDeterministic(w, num).w)
<1> DEFINE start == IF w.entries = <<>> THEN SeedAt(w.seed, 0) ELSE w.lastSeed
           fresh(n) == NewEntry(w, Key(start.root, 0, start.index + n),
                                Key(start.root, 0, start.index + n), 0, 0)
           steps == Iterations(num)
           es == [n \in 1 .. steps |-> fresh(n)]
           seed == HexSeedAt(start.root, start.index + steps)
           r == [w EXCEPT !.lastSeed = seed, !.entries = @ \o es]
<1>1. GenerateDeterministic(w, num).w = w \/ GenerateDeterministic(w, num).w = r
  BY DEF GenerateDeterministic, Ok, Fails
<1>2. EntriesOK(w.entries \o es) /\ Continues(w.entries, w.entries \o es)
  <2>1. \A n \in 1 .. steps : {"address", "secret"} \subseteq DOMAIN fresh(n)
    BY NewEntryHasSecret
  <2>2. EntriesOK(w.entries)
    BY DEF WalletOK
  <2>4. steps \in Nat
    BY IterationsNat
  <2> HIDE DEF fresh, steps
  <2>3. es = [n \in 1 .. steps |-> es[n]] /\ \A n \in 1 .. steps : es[n] = fresh(n)
    OBVIOUS
  <2> QED
    BY <2>1, <2>2, <2>3, <2>4, ExtendedEntries
<1> HIDE DEF es, seed
<1>3. /\ DOMAIN r = DOMAIN w
      /\ r.type = w.type
      /\ r.encrypted = w.encrypted
      /\ r.entries = w.entries \o es
      /\ r.changeEntries = w.changeEntries
  BY DEF WalletOK, Fields
<1>4. WalletOK(r) /\ Extends(w, r)
  <2> HIDE DEF r
  <2> QED BY <1>2, <1>3, MoreEntriesOK, ContinuesItself DEF WalletOK, Extends
<1> QED
  BY <1>1, <1>3, <1>4, ExtendsItself

\* The entries a bip44 wallet derives are entries.
LEMMA Bip44EntriesOK ==
  ASSUME NEW w, NEW num, NEW change, NEW first
  PROVE  /\ EntriesOK(Bip44Entries(w, num, change, first))
         /\ \A es : EntriesOK(es) =>
              /\ EntriesOK(es \o Bip44Entries(w, num, change, first))
              /\ Continues(es, es \o Bip44Entries(w, num, change, first))
<1> DEFINE fs == Bip44Entries(w, num, change, first)
           k == Cardinality(NewChildren(first, num))
<1>1. k \in Nat
  BY NewChildrenCount
<1>2. /\ fs = [n \in 1 .. k |-> fs[n]]
      /\ \A n \in 1 .. k : {"address", "secret"} \subseteq DOMAIN fs[n]
  BY NewEntryHasSecret DEF Bip44Entries
<1> HIDE DEF fs, k
<1>3. EntriesOK(fs)
  BY <1>1, <1>2, FunctionIsSeq DEF EntriesOK
<1>4. \A es : EntriesOK(es) => EntriesOK(es \o fs) /\ Continues(es, es \o fs)
  BY <1>1, <1>2, ExtendedEntries
<1> QED
  BY <1>3, <1>4 DEF fs

\* GenerateAddresses of a bip44 wallet.
LEMMA GenerateBip44OK ==
  ASSUME NEW w, WalletOK(w), NEW num
  PROVE  /\ WalletOK(GenerateBip44(w, num).w)
         /\ GenerateBip44(w, num).w.encrypted = w.encrypted
         /\ Extends(w, GenerateBip44(w, num).w)
<1> DEFINE es == Bip44Entries(w, num, 0, NextChildIdx(ChildNumbers(w.entries)))
           r == [w EXCEPT !.entries = @ \o es]
<1>1. GenerateBip44(w, num).w = w \/ GenerateBip44(w, num).w = r
  BY DEF GenerateBip44, Ok, Fails
<1>2. EntriesOK(w.entries \o es) /\ Continues(w.entries, w.entries \o es)
  BY Bip44EntriesOK DEF WalletOK
<1> HIDE DEF es
<1>3. /\ DOMAIN r = DOMAIN w
      /\ r.type = w.type
      /\ r.encrypted = w.encrypted
      /\ r.entries = w.entries \o es
      /\ r.changeEntries = w.changeEntries
  BY DEF WalletOK, Fields
<1>4. WalletOK(r) /\ Extends(w, r)
  <2> HIDE DEF r
  <2> QED BY <1>2, <1>3, MoreEntriesOK, ContinuesItself DEF WalletOK, Extends
<1> QED
  BY <1>1, <1>3, <1>4, ExtendsItself

\* GenerateAddresses of an xpub wallet.
LEMMA GenerateXPubOK ==
  ASSUME NEW w, WalletOK(w), NEW num
  PROVE  /\ WalletOK(GenerateXPub(w, num).w)
         /\ GenerateXPub(w, num).w.encrypted = w.encrypted
         /\ Extends(w, GenerateXPub(w, num).w)
<1> DEFINE children == NewChildren(NextChildIdx(ChildNumbers(w.entries)), num)
           fresh(c) == NewEntry(w, Key(w.xpub, 0, c), Null, c, 0)
           es == [n \in 1 .. Cardinality(children) |-> fresh(InOrder(children)[n])]
           r == [w EXCEPT !.entries = @ \o es]
<1>1. GenerateXPub(w, num).w = w \/ GenerateXPub(w, num).w = r
  BY DEF GenerateXPub, Ok, Fails
<1>2. EntriesOK(w.entries \o es) /\ Continues(w.entries, w.entries \o es)
  <2> DEFINE k == Cardinality(children)
  <2>1. k \in Nat
    BY NewChildrenCount
  <2>2. \A c : {"address", "secret"} \subseteq DOMAIN fresh(c)
    BY NewEntryHasSecret
  <2> HIDE DEF fresh, children
  <2>3. /\ es = [n \in 1 .. k |-> es[n]]
        /\ \A n \in 1 .. k : {"address", "secret"} \subseteq DOMAIN es[n]
    BY <2>2
  <2> HIDE DEF k, es
  <2> QED
    BY <2>1, <2>3, ExtendedEntries DEF WalletOK
<1> HIDE DEF es
<1>3. /\ DOMAIN r = DOMAIN w
      /\ r.type = w.type
      /\ r.encrypted = w.encrypted
      /\ r.entries = w.entries \o es
      /\ r.changeEntries = w.changeEntries
  BY DEF WalletOK, Fields
<1>4. WalletOK(r) /\ Extends(w, r)
  <2> HIDE DEF r
  <2> QED BY <1>2, <1>3, MoreEntriesOK, ContinuesItself DEF WalletOK, Extends
<1> QED
  BY <1>1, <1>3, <1>4, ExtendsItself

\* Address generation leaves an encrypted wallet alone and an open one open.
LEMMA GenerateAddressesOK ==
  ASSUME NEW w, WalletOK(w), NEW num \in Nat
  PROVE  /\ WalletOK(GenerateAddresses(w, num).w)
         /\ GenerateAddresses(w, num).w = w \/ ~GenerateAddresses(w, num).w.encrypted
         /\ Extends(w, GenerateAddresses(w, num).w)
<1>1. \/ GenerateAddresses(w, num).w = w
      \/ /\ ~w.encrypted
         /\ \/ GenerateAddresses(w, num) = GenerateDeterministic(w, num)
            \/ GenerateAddresses(w, num) = GenerateBip44(w, num)
            \/ GenerateAddresses(w, num) = GenerateXPub(w, num)
  BY DEF GenerateAddresses, WalletOK, WalletTypes, Ok, Fails
<1> QED
  BY <1>1, GenerateDeterministicOK, GenerateBip44OK, GenerateXPubOK, ExtendsItself

\* GenerateChangeEntry of a bip44 wallet.
LEMMA GenerateChangeOK ==
  ASSUME NEW w, WalletOK(w)
  PROVE  /\ WalletOK(GenerateChange(w).w)
         /\ GenerateChange(w).w = w \/ ~GenerateChange(w).w.encrypted
         /\ Extends(w, GenerateChange(w).w)
<1> DEFINE fs == Bip44Entries(w, 1, 1, NextChildIdx(ChildNumbers(w.changeEntries)))
           r == [w EXCEPT !.changeEntries = Append(@, fs[1])]
<1>1. \/ GenerateChange(w).w = w
      \/ ~w.encrypted /\ fs # <<>> /\ GenerateChange(w).w = r
  BY DEF GenerateChange, Ok, Fails
<1>2. ASSUME fs # <<>>
      PROVE  /\ EntriesOK(Append(w.changeEntries, fs[1]))
             /\ Continues(w.changeEntries, Append(w.changeEntries, fs[1]))
  <2>1. EntriesOK(fs)
    BY Bip44EntriesOK
  <2> HIDE DEF fs
  <2>2. fs \in Seq(Image(fs)) /\ fs # <<>>
    BY <1>2, <2>1 DEF EntriesOK
  <2>3. 1 \in DOMAIN fs
    BY <2>2
  <2> QED
    BY <2>1, <2>3, AppendedEntry DEF EntriesOK, WalletOK
<1> HIDE DEF fs
<1>3. /\ DOMAIN r = DOMAIN w
      /\ r.type = w.type
      /\ r.encrypted = w.encrypted
      /\ r.entries = w.entries
      /\ r.changeEntries = Append(w.changeEntries, fs[1])
  BY DEF WalletOK, Fields
<1>4. fs # <<>> => WalletOK(r) /\ Extends(w, r)
  <2> HIDE DEF r
  <2> QED BY <1>2, <1>3, MoreEntriesOK, ContinuesItself DEF WalletOK, Extends
<1> QED
  BY <1>1, <1>3, <1>4, ExtendsItself

\* AddEntry of a collection.
LEMMA AddEntryOK ==
  ASSUME NEW w, WalletOK(w), NEW e, {"address", "secret"} \subseteq DOMAIN e
  PROVE  /\ WalletOK(AddEntry(w, e).w)
         /\ AddEntry(w, e).w = w \/ ~AddEntry(w, e).w.encrypted
         /\ Extends(w, AddEntry(w, e).w)
<1> DEFINE r == [w EXCEPT !.entries = Append(@, e)]
<1>1. \/ AddEntry(w, e).w = w
      \/ ~w.encrypted /\ AddEntry(w, e).w = r
  <2>1. \/ \E error : AddEntry(w, e) = Fails(error, w)
        \/ ~w.encrypted /\ AddEntry(w, e) = Ok(r)
    BY Zenon DEF AddEntry
  <2> QED
    BY <2>1 DEF Ok, Fails
<1>2. EntriesOK(Append(w.entries, e)) /\ Continues(w.entries, Append(w.entries, e))
  BY AppendedEntry DEF WalletOK
<1>3. /\ DOMAIN r = DOMAIN w
      /\ r.type = w.type
      /\ r.encrypted = w.encrypted
      /\ r.entries = Append(w.entries, e)
      /\ r.changeEntries = w.changeEntries
  BY DEF WalletOK, Fields
<1>4. WalletOK(r) /\ Extends(w, r)
  <2> HIDE DEF r
  <2> QED BY <1>2, <1>3, MoreEntriesOK, ContinuesItself DEF WalletOK, Extends
<1> QED
  BY <1>1, <1>3, <1>4, ExtendsItself

\* The empty string is the same in the file.
LEMMA JsonOfNull == Json(Null) = Null /\ JsonLastSeed(Null) = Null
BY WalletDataAssumption DEF Json, JsonLastSeed

\* What is written to the file is a wallet.
LEMMA ReadableOK ==
  ASSUME NEW w, WalletOK(w)
  PROVE  /\ WalletOK(Readable(w))
         /\ Readable(w).encrypted = w.encrypted
         /\ NoPlaintext(w) => NoPlaintext(Readable(w))
<1>1. /\ DOMAIN Readable(w) = DOMAIN w
      /\ Readable(w).type = w.type
      /\ Readable(w).encrypted = w.encrypted
      /\ Readable(w).seed = Json(w.seed)
      /\ Readable(w).lastSeed = JsonLastSeed(w.lastSeed)
      /\ Readable(w).seedPassphrase = Json(w.seedPassphrase)
      /\ Readable(w).entries = w.entries \o w.changeEntries
      /\ Readable(w).changeEntries = <<>>
  BY DEF Readable, AllEntries, WalletOK, Fields
<1>2. EntriesOK(w.entries) /\ EntriesOK(w.changeEntries)
  BY DEF WalletOK
<1>3. EntriesOK(w.entries \o w.changeEntries)
  BY <1>2, JoinedEntries
<1>4. WalletOK(Readable(w))
  BY <1>1, <1>3, EmptyEntries, MoreEntriesOK
<1>5. ASSUME NoPlaintext(w)
      PROVE  NoPlaintext(Readable(w))
  <2>1. /\ Readable(w).seed = Null
        /\ Readable(w).lastSeed = Null
        /\ Readable(w).seedPassphrase = Null
    BY <1>1, <1>5, JsonOfNull DEF NoPlaintext
  <2>2. \A e \in Image(w.entries) \cup Image(w.changeEntries) : e.secret = Null
    BY <1>5 DEF NoPlaintext, Image
  <2>3. \A n \in DOMAIN Readable(w).entries : Readable(w).entries[n].secret = Null
    BY <1>1, <1>2, <2>2, JoinedEntries
  <2>4. DOMAIN Readable(w).changeEntries = {}
    BY <1>1
  <2> QED
    BY <2>1, <2>3, <2>4 DEF NoPlaintext
<1> QED
  BY <1>1, <1>4, <1>5

\* What Load makes of the one list of the file is entries.
LEMMA SplitEntriesOK ==
  ASSUME NEW es, EntriesOK(es), NEW type, NEW s \in ExternalEntries(type, es) \cup ChangeEntries(type, es)
  PROVE  EntriesOK(s) /\ \A n \in DOMAIN s : s[n] \in Image(es)
<1>1. \/ s = es
      \/ s = <<>>
      \/ \E places \in SUBSET DOMAIN es : s \in Sortings(es, places)
  BY DEF ExternalEntries, ChangeEntries, OfChain
<1> QED
  BY <1>1, SortingsOK, EmptyEntries DEF Image

\* Loading brings no secret in that the file does not show.
LEMMA LoadedOK ==
  ASSUME NEW file, WalletOK(file), NEW w \in Loaded(file)
  PROVE  /\ WalletOK(w)
         /\ w.encrypted = file.encrypted
         /\ NoPlaintext(file) => NoPlaintext(w)
<1> DEFINE coin == ResolveCoinType(file.coin)
           es == DecodedEntries(coin, file.entries)
           base == [file EXCEPT !.coin = coin, !.node = FALSE]
<1>1. /\ EntriesOK(es)
      /\ DOMAIN es = DOMAIN file.entries
      /\ \A n \in DOMAIN es : es[n].secret = file.entries[n].secret
  BY DecodedEntriesOK DEF WalletOK
<1>2. w \in { WithEntries(base, s, t) :
               s \in ExternalEntries(file.type, es), t \in ChangeEntries(file.type, es) }
  BY DEF Loaded
<1> HIDE DEF coin, es
<1> HIDE DEF base
<1>3. PICK s \in ExternalEntries(file.type, es), t \in ChangeEntries(file.type, es) :
        w = WithEntries(base, s, t)
  BY <1>2
<1>4. EntriesOK(s) /\ \A n \in DOMAIN s : s[n] \in Image(es)
  BY <1>1, SplitEntriesOK
<1>5. EntriesOK(t) /\ \A n \in DOMAIN t : t[n] \in Image(es)
  BY <1>1, SplitEntriesOK
<1>6. /\ DOMAIN w = DOMAIN file
      /\ w.type = file.type
      /\ w.encrypted = file.encrypted
      /\ w.seed = file.seed
      /\ w.lastSeed = file.lastSeed
      /\ w.seedPassphrase = file.seedPassphrase
      /\ w.entries = s
      /\ w.changeEntries = t
  BY <1>3 DEF WithEntries, base, WalletOK, Fields
<1>7. WalletOK(w)
  BY <1>4, <1>5, <1>6, MoreEntriesOK
<1>8. ASSUME NoPlaintext(file)
      PROVE  NoPlaintext(w)
  <2>1. \A e \in Image(es) : e.secret = Null
    BY <1>1, <1>8 DEF NoPlaintext, Image
  <2> QED
    BY <1>4, <1>5, <1>6, <1>8, <2>1 DEF NoPlaintext
<1> QED
  BY <1>6, <1>7, <1>8

\* A new wallet is one, not yet encrypted.
LEMMA FreshWalletOK ==
  ASSUME NEW opts, OptionsError(opts) = "ok"
  PROVE  WalletOK(FreshWallet(opts)) /\ FreshWallet(opts).encrypted = FALSE
<1>1. opts.type \in WalletTypes
  BY DEF OptionsError
<1>2. /\ DOMAIN FreshWallet(opts) = Fields
      /\ FreshWallet(opts).type = opts.type
      /\ FreshWallet(opts).encrypted = FALSE
      /\ FreshWallet(opts).entries = <<>>
      /\ FreshWallet(opts).changeEntries = <<>>
  BY DEF FreshWallet, Fields
<1> QED
  BY <1>1, <1>2, EmptyEntries DEF WalletOK

\* A new wallet is open, or was locked on the way out of newWallet.
LEMMA NewWalletOK ==
  ASSUME NEW opts, opts.generateN \in Nat, NEW fails
  PROVE  Safe(NewWallet(opts, fails).w)
<1> DEFINE fresh == FreshWallet(opts)
           num == IF opts.generateN = 0 THEN 1 ELSE opts.generateN
           generated == IF opts.type = "collection" THEN Ok(fresh)
                        ELSE GenerateAddresses(fresh, num)
           ct == IF opts.cryptoType = Null THEN DefaultCryptoType ELSE opts.cryptoType
           locked == Lock(generated.w, opts.password, ct, fails)
<1>1. \/ NewWallet(opts, fails).w = Null
      \/ /\ OptionsError(opts) = "ok"
         /\ NewWallet(opts, fails).w \in {generated.w, locked.w}
  <2>1. \/ \E error : NewWallet(opts, fails) = Fails(error, Null)
        \/ /\ OptionsError(opts) = "ok"
           /\ NewWallet(opts, fails) = generated \/ NewWallet(opts, fails) = locked
    BY Zenon DEF NewWallet
  <2> HIDE DEF generated, locked
  <2> QED
    BY <2>1 DEF Fails
<1>2. ASSUME OptionsError(opts) = "ok"
      PROVE  Safe(generated.w) /\ Safe(locked.w)
  <2>1. WalletOK(fresh) /\ ~fresh.encrypted
    BY <1>2, FreshWalletOK
  <2>2. num \in Nat
    OBVIOUS
  <2> HIDE DEF fresh, num
  <2>3. WalletOK(generated.w) /\ ~generated.w.encrypted
    BY <2>1, <2>2, GenerateAddressesOK DEF Ok
  <2> HIDE DEF generated, ct
  <2>4. WalletOK(locked.w) /\ (locked.w = generated.w \/ NoPlaintext(locked.w))
    BY <2>3, LockOK
  <2> HIDE DEF locked
  <2> QED
    BY <2>3, <2>4 DEF Safe
<1> HIDE DEF generated, locked
<1> QED
  BY <1>1, <1>2 DEF Safe

-----------------------------------------------------------------------------
(***************************************************************************)
(* The invariant.  Sealed and TempErased alone are not inductive: erasing  *)
(* and copying keep them only for a value that is a wallet, and the copy a *)
(* callback works on is a wallet as long as the guard runs.                *)
(***************************************************************************)
SafeInv ==
  /\ Safe(wallet)
  /\ Safe(temp)
  /\ Safe(disk)
  /\ guard # "none" => WalletOK(temp)
  /\ TempErased

\* What an operation makes of a wallet that is safe.
SafeResult(w, r) == WalletOK(r.w) /\ (r.w = w \/ ~r.w.encrypted \/ NoPlaintext(r.w))

\* At first there is no wallet, no copy and no file.
LEMMA SafeInit == Init => SafeInv
BY DEF Init, SafeInv, Safe, TempErased

\* An operation with a safe result keeps the invariant.
LEMMA ReturnsSafe ==
  ASSUME SafeInv, Subject # Null, NEW r, Returns(r), SafeResult(Subject, r)
  PROVE  SafeInv'
<1>1. CASE r.err = "panic"
  <2>1. wallet' = Null /\ temp' = Null /\ guard' = "none" /\ disk' = disk
    BY <1>1 DEF Returns, Forget
  <2> QED
    BY <2>1 DEF SafeInv, Safe, TempErased, WalletOK, EntriesOK, NoPlaintext, Image
<1>2. CASE r.err # "panic" /\ guard = "none"
  <2>1. wallet' = r.w /\ temp' = temp /\ guard' = guard /\ disk' = disk
    BY <1>2 DEF Returns
  <2>2. Safe(wallet)'
    BY <1>2, <2>1 DEF SafeInv, Safe, SafeResult, Subject
  <2> QED
    BY <1>2, <2>1, <2>2 DEF SafeInv, Safe, TempErased
<1>3. CASE r.err # "panic" /\ guard # "none"
  <2>1. temp' = r.w /\ wallet' = wallet /\ guard' = guard /\ disk' = disk
    BY <1>3 DEF Returns
  <2>2. Safe(temp)'
    BY <1>3, <2>1 DEF SafeInv, Safe, SafeResult, Subject
  <2>3. WalletOK(temp)'
    BY <1>3, <2>1 DEF SafeResult
  <2> QED
    BY <1>3, <2>1, <2>2, <2>3 DEF SafeInv, Safe, TempErased
<1> QED
  BY <1>1, <1>2, <1>3

\* Erase ends every guard.
LEMMA GuardOverSafe ==
  ASSUME SafeInv, NEW last, WalletOK(last), GuardOver(last), Safe(wallet)'
  PROVE  SafeInv'
<1>1. guard' = "none" /\ temp' = Erase(last) /\ disk' = disk
  BY DEF GuardOver
<1>2. WalletOK(temp)' /\ NoPlaintext(temp)'
  BY <1>1, EraseOK
<1> QED
  BY <1>1, <1>2 DEF SafeInv, Safe, TempErased

\* What an operation is applied to is a wallet.
LEMMA SubjectOK ==
  ASSUME SafeInv, Subject # Null
  PROVE  WalletOK(Subject)
BY DEF SafeInv, Safe, Subject

\* One lemma per action: it keeps the invariant.
LEMMA GenerateSafe ==
  ASSUME SafeInv, NEW num \in Nums, Generate(num)
  PROVE  SafeInv'
<1>1. Subject # Null /\ Returns(GenerateAddresses(Subject, num))
  BY DEF Generate
<1>2. num \in Nat
  BY WalletAssumption
<1>3. SafeResult(Subject, GenerateAddresses(Subject, num))
  BY <1>1, <1>2, SubjectOK, GenerateAddressesOK DEF SafeResult
<1> QED
  BY <1>1, <1>3, ReturnsSafe

\* GenerateChangeEntry keeps the invariant.
LEMMA GenerateChangeEntrySafe ==
  ASSUME SafeInv, GenerateChangeEntry
  PROVE  SafeInv'
<1>1. Subject # Null /\ Returns(GenerateChange(Subject))
  BY DEF GenerateChangeEntry
<1>2. SafeResult(Subject, GenerateChange(Subject))
  BY <1>1, SubjectOK, GenerateChangeOK DEF SafeResult
<1> QED
  BY <1>1, <1>2, ReturnsSafe

\* AddEntry keeps the invariant.
LEMMA AddToCollectionSafe ==
  ASSUME SafeInv, NEW e \in NewEntries, AddToCollection(e)
  PROVE  SafeInv'
<1>1. Subject # Null /\ Returns(AddEntry(Subject, e))
  BY DEF AddToCollection
<1>2. {"address", "secret"} \subseteq DOMAIN e
  BY WalletAssumption
<1>3. SafeResult(Subject, AddEntry(Subject, e))
  BY <1>1, <1>2, SubjectOK, AddEntryOK DEF SafeResult
<1> QED
  BY <1>1, <1>3, ReturnsSafe

\* Lock keeps the invariant, whether it fails or not.
LEMMA LockWalletSafe ==
  ASSUME SafeInv, NEW p, NEW ct, NEW fails, LockWallet(p, ct, fails)
  PROVE  SafeInv'
<1>1. Subject # Null /\ Returns(Lock(Subject, p, ct, fails))
  BY DEF LockWallet
<1>2. SafeResult(Subject, Lock(Subject, p, ct, fails))
  BY <1>1, SubjectOK, LockOK DEF SafeResult
<1> QED
  BY <1>1, <1>2, ReturnsSafe

\* Unlock keeps the invariant.
LEMMA UnlockWalletSafe ==
  ASSUME SafeInv, NEW p, UnlockWallet(p)
  PROVE  SafeInv'
<1>1. Subject = wallet /\ Subject # Null /\ Returns(Unlock(Subject, p))
  BY DEF UnlockWallet, Subject
<1>2. SafeResult(Subject, Unlock(Subject, p))
  BY <1>1, SubjectOK, UnlockOK DEF SafeResult
<1> QED
  BY <1>1, <1>2, ReturnsSafe

\* NewWallet keeps the invariant.
LEMMA CreateSafe ==
  ASSUME SafeInv, NEW opts \in OptionSet, NEW fails, Create(opts, fails)
  PROVE  SafeInv'
<1>1. wallet' = NewWallet(opts, fails).w /\ temp' = temp /\ guard' = guard /\ disk' = disk
  BY DEF Create
<1>2. Safe(wallet)'
  BY <1>1, WalletAssumption, NewWalletOK
<1> QED
  BY <1>1, <1>2 DEF SafeInv, Safe, TempErased

\* Unlocking the copy for a guard keeps the invariant.
LEMMA GuardBeginSafe ==
  ASSUME SafeInv, NEW kind \in {"view", "update"}, NEW p, GuardBegin(kind, p)
  PROVE  SafeInv'
<1> DEFINE r == Unlock(wallet, p)
<1>1. guard = "none" /\ wallet # Null /\ wallet' = wallet /\ disk' = disk
  BY DEF GuardBegin
<1>2. WalletOK(wallet)
  BY <1>1 DEF SafeInv, Safe
<1>3. CASE r.err = "ok"
  <2>1. guard' = kind /\ temp' = r.w
    BY <1>3 DEF GuardBegin
  <2>2. WalletOK(r.w) /\ (r.w = wallet \/ r.w.encrypted = FALSE)
    BY <1>2, UnlockOK
  <2>3. Safe(temp)' /\ WalletOK(temp)'
    BY <1>1, <2>1, <2>2 DEF SafeInv, Safe
  <2>4. TempErased'
    BY <2>1 DEF TempErased
  <2> QED
    BY <1>1, <2>3, <2>4 DEF SafeInv, Safe
<1>4. CASE r.err # "ok"
  <2>1. guard' = guard /\ temp' = temp
    BY <1>4 DEF GuardBegin
  <2> QED
    BY <1>1, <2>1 DEF SafeInv, Safe, TempErased
<1> QED
  BY <1>3, <1>4

\* However a guard ends, the invariant is kept and the copy is erased.
LEMMA GuardEndSafe ==
  ASSUME SafeInv, NEW fails, CallbackFails \/ ViewEnds \/ UpdateEnds(fails)
  PROVE  SafeInv'
<1>1. WalletOK(temp)
  BY DEF CallbackFails, ViewEnds, UpdateEnds, SafeInv
<1>2. CASE CallbackFails \/ ViewEnds
  <2>1. GuardOver(temp) /\ wallet' = wallet
    BY <1>2 DEF CallbackFails, ViewEnds
  <2> QED
    BY <1>1, <2>1, GuardOverSafe DEF SafeInv, Safe
<1>3. CASE UpdateEnds(fails)
  <2> DEFINE r == Lock(temp, password, cryptoType, fails)
  <2>1. GuardOver(r.w) /\ wallet' \in {wallet, Erase(Copied(r.w))}
    BY <1>3 DEF UpdateEnds
  <2>2. WalletOK(r.w)
    BY <1>1, LockOK
  <2>3. WalletOK(Erase(Copied(r.w))) /\ NoPlaintext(Erase(Copied(r.w)))
    BY <2>2, CopiedOK, EraseOK
  <2>4. Safe(wallet)'
    BY <2>1, <2>3 DEF SafeInv, Safe
  <2> QED
    BY <2>1, <2>2, <2>4, GuardOverSafe
<1> QED
  BY <1>2, <1>3

\* Save keeps the invariant.
LEMMA SaveSafe ==
  ASSUME SafeInv, Save
  PROVE  SafeInv'
<1>1. CASE ReadablePanics(wallet)
  <2>1. wallet' = Null /\ temp' = Null /\ guard' = "none" /\ disk' = disk
    BY <1>1 DEF Save, Forget
  <2> QED
    BY <2>1 DEF SafeInv, Safe, TempErased
<1>2. CASE ~ReadablePanics(wallet)
  <2>1. /\ wallet # Null
        /\ disk' = Readable(wallet)
        /\ wallet' = wallet /\ temp' = temp /\ guard' = guard
    BY <1>2 DEF Save
  <2>2. Safe(disk)'
    BY <2>1, ReadableOK DEF SafeInv, Safe
  <2> QED
    BY <2>1, <2>2 DEF SafeInv, Safe, TempErased
<1> QED
  BY <1>1, <1>2

\* Load keeps the invariant.
LEMMA LoadSafe ==
  ASSUME SafeInv, Load
  PROVE  SafeInv'
<1>1. /\ disk # Null
      /\ wallet' = wallet \/ wallet' \in Loaded(disk)
      /\ temp' = temp /\ guard' = guard /\ disk' = disk
  BY DEF Load
<1>2. Safe(wallet)'
  BY <1>1, LoadedOK DEF SafeInv, Safe
<1> QED
  BY <1>1, <1>2 DEF SafeInv, Safe, TempErased

\* The end of the process keeps the invariant.
LEMMA ExitSafe ==
  ASSUME SafeInv, Exit
  PROVE  SafeInv'
<1>1. wallet' = Null /\ temp' = Null /\ guard' = "none" /\ disk' = disk
  BY DEF Exit, Forget
<1> QED
  BY <1>1 DEF SafeInv, Safe, TempErased, WalletOK, EntriesOK, NoPlaintext, Image

\* Every step keeps the invariant.
LEMMA SafeNext == SafeInv /\ [Next]_vars => SafeInv'
<1> SUFFICES ASSUME SafeInv, [Next]_vars
             PROVE  SafeInv'
  OBVIOUS
<1>1. CASE UNCHANGED vars
  <2>1. wallet' = wallet /\ temp' = temp /\ guard' = guard /\ disk' = disk
    BY <1>1 DEF vars
  <2> QED
    BY <2>1 DEF SafeInv, Safe, TempErased
<1>2. CASE \E opts \in OptionSet, fails \in BOOLEAN : Create(opts, fails)
  BY <1>2, CreateSafe
<1>3. CASE \E num \in Nums : Generate(num)
  BY <1>3, GenerateSafe
<1>4. CASE GenerateChangeEntry
  BY <1>4, GenerateChangeEntrySafe
<1>5. CASE \E e \in NewEntries : AddToCollection(e)
  BY <1>5, AddToCollectionSafe
<1>6. CASE \E p \in Passwords \cup {Null}, ct \in Cryptos, fails \in BOOLEAN :
             LockWallet(p, ct, fails)
  BY <1>6, LockWalletSafe
<1>7. CASE \E p \in Passwords \cup {Null} : UnlockWallet(p)
  BY <1>7, UnlockWalletSafe
<1>8. CASE \E kind \in {"view", "update"}, p \in Passwords \cup {Null} : GuardBegin(kind, p)
  BY <1>8, GuardBeginSafe
<1>9. CASE CallbackFails \/ ViewEnds \/ \E fails \in BOOLEAN : UpdateEnds(fails)
  BY <1>9, GuardEndSafe
<1>10. CASE Save
  BY <1>10, SaveSafe
<1>11. CASE Load
  BY <1>11, LoadSafe
<1>12. CASE Exit
  BY <1>12, ExitSafe
<1> QED
  BY <1>1, <1>2, <1>3, <1>4, <1>5, <1>6, <1>7, <1>8, <1>9, <1>10, <1>11, <1>12 DEF Next

\* The invariant holds in every reachable state.
LEMMA SafeAlways == Spec => []SafeInv
BY SafeInit, SafeNext, PTL DEF Spec

\* A wallet that says it is encrypted shows no secret, in memory and in the
\* file, whatever was done with it and wherever it failed: newWallet, Lock,
\* GuardUpdate, Load and Save (wallet.go:151, :335, :498, :565, :629).
THEOREM EncryptedIsSealed == Spec => []Sealed
<1>1. SafeInv => Sealed
  BY DEF SafeInv, Safe, Sealed
<1> QED
  BY SafeAlways, <1>1, PTL

\* However GuardUpdate and GuardView end, their temporary copy is erased
\* (wallet.go:391).
THEOREM GuardsErase == Spec => []TempErased
<1>1. SafeInv => TempErased
  BY DEF SafeInv
<1> QED
  BY SafeAlways, <1>1, PTL
=============================================================================
