-------------------------- MODULE WalletStepProofs ---------------------------
(***************************************************************************)
(* Proofs about the steps of Wallet: an operation that fails changes       *)
(* nothing, a wallet that stays encrypted keeps its password and its       *)
(* crypto type, and addresses stay, for all options, passwords, entries,   *)
(* crypto types and bounds.                                                *)
(***************************************************************************)
EXTENDS WalletProofs

\* The operation succeeded, panicked, or left its wallet as it was.
Keeps(r, w) == r.err \in {"ok", "panic"} \/ r.w = w

-----------------------------------------------------------------------------
\* The operations on a wallet.

\* Lock, failing, returns the wallet it was given.
LEMMA LockKeeps == ASSUME NEW w, NEW p, NEW ct, NEW fails PROVE Keeps(Lock(w, p, ct, fails), w)
BY DEF Lock, Ok, Fails, Keeps

\* So does Unlock.
LEMMA UnlockKeeps == ASSUME NEW w, NEW p PROVE Keeps(Unlock(w, p), w)
BY DEF Unlock, Ok, Fails, Keeps

\* So does AddEntry.
LEMMA AddEntryKeeps == ASSUME NEW w, NEW e PROVE Keeps(AddEntry(w, e), w)
BY DEF AddEntry, Ok, Fails, Keeps

\* So does GenerateChangeEntry.
LEMMA GenerateChangeKeeps == ASSUME NEW w PROVE Keeps(GenerateChange(w), w)
BY DEF GenerateChange, Ok, Fails, Keeps

\* So does GenerateAddresses, of each type of wallet.
LEMMA GenerateAddressesKeeps ==
  ASSUME NEW w, w.type \in WalletTypes, NEW num PROVE Keeps(GenerateAddresses(w, num), w)
<1>1. Keeps(GenerateDeterministic(w, num), w)
  BY DEF GenerateDeterministic, Ok, Fails, Keeps
<1>2. Keeps(GenerateBip44(w, num), w)
  BY DEF GenerateBip44, Ok, Fails, Keeps
<1>3. Keeps(GenerateXPub(w, num), w)
  BY DEF GenerateXPub, Ok, Fails, Keeps
<1>4. Keeps(Fails("notImplemented", w), w) /\ Keeps(Fails("walletEncrypted", w), w)
  BY DEF Fails, Keeps
<1> QED
  BY <1>1, <1>2, <1>3, <1>4 DEF GenerateAddresses, WalletTypes

\* NewWallet, failing, returns no wallet.
LEMMA NewWalletKeeps ==
  ASSUME NEW opts, NEW fails PROVE Keeps(NewWallet(opts, fails), Null)
BY DEF NewWallet, Ok, Fails, Keeps

-----------------------------------------------------------------------------
(***************************************************************************)
(* An operation that fails changes nothing.                                *)
(***************************************************************************)

\* What FailureChangesNothing says of a step.
StepKeeps ==
  err' \notin {"ok", "panic"} => UNCHANGED <<wallet, disk>> /\ (guard' = guard => UNCHANGED temp)

\* An operation that keeps what it was given when it fails satisfies the property.
LEMMA ReturnsKeeps ==
  ASSUME NEW r, Keeps(r, Subject), Returns(r)
  PROVE  StepKeeps
<1> SUFFICES ASSUME err' \notin {"ok", "panic"} PROVE UNCHANGED <<wallet, disk, temp>>
  BY DEF StepKeeps
<1>1. r.err # "panic" /\ r.w = Subject
  BY DEF Returns, Keeps
<1>2. disk' = disk
  BY <1>1 DEF Returns
<1>3. wallet' = wallet /\ temp' = temp
  BY <1>1 DEF Returns, Subject
<1> QED
  BY <1>2, <1>3

\* A guard that cannot unlock its copy has changed nothing.
LEMMA GuardBeginKeeps ==
  ASSUME NEW kind, NEW p, GuardBegin(kind, p)
  PROVE  StepKeeps
BY DEF GuardBegin, StepKeeps

\* A guard that ends on an error leaves the caller's wallet; its copy is gone.
LEMMA GuardEndKeeps ==
  ASSUME NEW fails, CallbackFails \/ ViewEnds \/ UpdateEnds(fails)
  PROVE  StepKeeps
<1>1. guard # "none" /\ guard' = "none" /\ disk' = disk
  BY DEF CallbackFails, ViewEnds, UpdateEnds, GuardOver
<1>2. err' # "ok" => wallet' = wallet
  BY DEF CallbackFails, ViewEnds, UpdateEnds
<1> QED
  BY <1>1, <1>2 DEF StepKeeps

\* Every step satisfies the property.
LEMMA NextKeeps == SafeInv /\ [Next]_vars => StepKeeps
<1> SUFFICES ASSUME SafeInv, [Next]_vars PROVE StepKeeps
  OBVIOUS
<1>1. CASE UNCHANGED vars
  BY <1>1 DEF vars, StepKeeps
<1>2. ASSUME NEW opts \in OptionSet, NEW fails \in BOOLEAN, Create(opts, fails) PROVE StepKeeps
  BY <1>2, NewWalletKeeps DEF Create, StepKeeps, Keeps
<1>3. ASSUME NEW num \in Nums, Generate(num) PROVE StepKeeps
  <2>1. Subject.type \in WalletTypes
    BY <1>3, SubjectOK DEF Generate, WalletOK
  <2> QED
    BY <1>3, <2>1, GenerateAddressesKeeps, ReturnsKeeps DEF Generate
<1>4. CASE GenerateChangeEntry
  BY <1>4, GenerateChangeKeeps, ReturnsKeeps DEF GenerateChangeEntry
<1>5. ASSUME NEW e \in NewEntries, AddToCollection(e) PROVE StepKeeps
  BY <1>5, AddEntryKeeps, ReturnsKeeps DEF AddToCollection
<1>6. ASSUME NEW p, NEW ct, NEW fails, LockWallet(p, ct, fails) PROVE StepKeeps
  BY <1>6, LockKeeps, ReturnsKeeps DEF LockWallet
<1>7. ASSUME NEW p, UnlockWallet(p) PROVE StepKeeps
  BY <1>7, UnlockKeeps, ReturnsKeeps DEF UnlockWallet, Subject
<1>8. CASE \E kind \in {"view", "update"}, p \in Passwords \cup {Null} : GuardBegin(kind, p)
  BY <1>8, GuardBeginKeeps
<1>9. CASE CallbackFails \/ ViewEnds \/ \E fails \in BOOLEAN : UpdateEnds(fails)
  BY <1>9, GuardEndKeeps
<1>10. CASE Save
  BY <1>10 DEF Save, StepKeeps
<1>11. CASE Load
  BY <1>11 DEF Load, StepKeeps
<1>12. CASE Exit
  BY <1>12 DEF Exit, StepKeeps
<1> QED
  BY <1>1, <1>2, <1>3, <1>4, <1>5, <1>6, <1>7, <1>8, <1>9, <1>10, <1>11, <1>12 DEF Next

\* An operation that returns an error has changed neither the caller's wallet, nor
\* the file, nor the copy a callback works on: newWallet, Lock, Unlock, GuardUpdate,
\* GenerateAddresses, AddEntry and Load (wallet.go:151, :335, :392, :498, :565).
THEOREM FailuresChangeNothing == Spec => FailureChangesNothing
<1>1. SafeInv /\ [Next]_vars =>
        [err' \notin {"ok", "panic"} =>
           /\ UNCHANGED <<wallet, disk>>
           /\ guard' = guard => UNCHANGED temp]_vars
  BY NextKeeps DEF StepKeeps
<1> QED
  BY <1>1, SafeAlways, PTL DEF Spec, FailureChangesNothing

-----------------------------------------------------------------------------
(***************************************************************************)
(* A wallet that stays encrypted keeps its password and its crypto type.   *)
(***************************************************************************)

\* The password a guard was called with opens the caller's wallet, which is as it
\* was, and the crypto type it noted is the wallet's.
GuardInv ==
  guard # "none" =>
    /\ wallet # Null
    /\ wallet.secrets.password = password
    /\ wallet.cryptoType = cryptoType

SameEncryption(w, v) == v.cryptoType = w.cryptoType /\ v.secrets.password = w.secrets.password

\* What an operation does to an encrypted wallet: nothing, or it opens it.
KeepsEncrypted(r, w) == w.encrypted => r.w = w \/ r.w.encrypted = FALSE

\* Lock refuses an encrypted wallet and leaves it alone.
LEMMA LockKeepsEncrypted ==
  ASSUME NEW w, NEW p, NEW ct, NEW fails PROVE KeepsEncrypted(Lock(w, p, ct, fails), w)
BY DEF Lock, Fails, KeepsEncrypted

\* So does AddEntry.
LEMMA AddEntryKeepsEncrypted == ASSUME NEW w, NEW e PROVE KeepsEncrypted(AddEntry(w, e), w)
BY DEF AddEntry, Fails, KeepsEncrypted

\* So does GenerateChangeEntry.
LEMMA GenerateChangeKeepsEncrypted == ASSUME NEW w PROVE KeepsEncrypted(GenerateChange(w), w)
BY DEF GenerateChange, Fails, KeepsEncrypted

\* So does GenerateAddresses.
LEMMA GenerateAddressesKeepsEncrypted ==
  ASSUME NEW w, NEW num PROVE KeepsEncrypted(GenerateAddresses(w, num), w)
BY DEF GenerateAddresses, Fails, KeepsEncrypted

\* Unlock opens an encrypted wallet or leaves it alone.
LEMMA UnlockKeepsEncrypted ==
  ASSUME NEW w, WalletOK(w), NEW p PROVE KeepsEncrypted(Unlock(w, p), w)
BY UnlockOK DEF KeepsEncrypted

\* A Lock that succeeds encrypts with the given password and crypto type.
LEMMA LockSeals ==
  ASSUME NEW w, WalletOK(w), NEW p, NEW ct, NEW fails, Lock(w, p, ct, fails).err = "ok"
  PROVE  LET v == Erase(Copied(Lock(w, p, ct, fails).w))
         IN  v.cryptoType = ct /\ v.secrets.password = p
<1> DEFINE sealed == Sealing(w, p, ct)
<1>1. Lock(w, p, ct, fails).w = Copied(Erase(sealed))
  BY DEF Lock, Ok, Fails
<1>2. DOMAIN sealed = Fields /\ sealed.cryptoType = ct /\ sealed.secrets.password = p
  BY DEF Sealing, WalletOK, Fields
<1>3. \A v : DOMAIN v = Fields =>
        /\ DOMAIN Erase(v) = Fields /\ Erase(v).cryptoType = v.cryptoType
        /\ Erase(v).secrets = v.secrets
  BY DEF Erase, Fields
<1>4. \A v : DOMAIN v = Fields =>
        /\ DOMAIN Copied(v) = Fields /\ Copied(v).cryptoType = v.cryptoType
        /\ Copied(v).secrets = v.secrets
  BY DEF Copied, Fields
<1> HIDE DEF sealed
<1> QED
  BY <1>1, <1>2, <1>3, <1>4

\* What EncryptionKept says of a step.
StepSameEncryption ==
  wallet # Null /\ wallet' # Null /\ wallet.encrypted /\ wallet'.encrypted =>
    WasLoaded \/ SameEncryption(wallet, wallet')

\* While a guard runs, operations are on its copy, not on the wallet.
LEMMA ReturnsSameEncryption ==
  ASSUME GuardInv, NEW r, KeepsEncrypted(r, Subject), Returns(r)
  PROVE  GuardInv' /\ StepSameEncryption
<1>1. CASE r.err = "panic"
  BY <1>1 DEF Returns, Forget, GuardInv, StepSameEncryption
<1>2. CASE r.err # "panic" /\ guard = "none"
  BY <1>2 DEF Returns, Subject, KeepsEncrypted, GuardInv, StepSameEncryption, SameEncryption
<1>3. CASE r.err # "panic" /\ guard # "none"
  BY <1>3 DEF Returns, GuardInv, StepSameEncryption, SameEncryption
<1> QED
  BY <1>1, <1>2, <1>3

\* A guard notes the password and the crypto type of the wallet.
LEMMA GuardBeginSameEncryption ==
  ASSUME NEW kind, NEW p, GuardBegin(kind, p)
  PROVE  GuardInv' /\ StepSameEncryption
<1>1. guard = "none" /\ wallet # Null /\ wallet' = wallet
  BY DEF GuardBegin
<1>2. CASE Unlock(wallet, p).err = "ok"
  <2>1. wallet.secrets.password = p
    BY <1>2 DEF Unlock, Ok, Fails
  <2>2. password' = p /\ cryptoType' = wallet.cryptoType
    BY <1>2 DEF GuardBegin
  <2> QED
    BY <1>1, <2>1, <2>2 DEF GuardInv, StepSameEncryption, SameEncryption
<1>3. CASE Unlock(wallet, p).err # "ok"
  <2>1. guard' = guard
    BY <1>3 DEF GuardBegin
  <2> QED
    BY <1>1, <2>1 DEF GuardInv, StepSameEncryption, SameEncryption
<1> QED
  BY <1>2, <1>3

\* A guard that ends has restored them.
LEMMA GuardEndSameEncryption ==
  ASSUME SafeInv, GuardInv, NEW fails, CallbackFails \/ ViewEnds \/ UpdateEnds(fails)
  PROVE  GuardInv' /\ StepSameEncryption
<1>1. GuardInv'
  BY DEF CallbackFails, ViewEnds, UpdateEnds, GuardOver, GuardInv
<1>2. CASE wallet' = wallet
  BY <1>1, <1>2 DEF StepSameEncryption, SameEncryption
<1>3. CASE wallet' # wallet
  <2> DEFINE r == Lock(temp, password, cryptoType, fails)
  <2>1. r.err = "ok" /\ wallet' = Erase(Copied(r.w)) /\ guard # "none"
    BY <1>3 DEF CallbackFails, ViewEnds, UpdateEnds
  <2>2. WalletOK(temp)
    BY <2>1 DEF SafeInv
  <2>3. wallet'.cryptoType = cryptoType /\ wallet'.secrets.password = password
    BY <2>1, <2>2, LockSeals
  <2> QED
    BY <1>1, <2>1, <2>3 DEF GuardInv, StepSameEncryption, SameEncryption
<1> QED
  BY <1>2, <1>3

\* Every step keeps what the guard noted true, and satisfies the property.
LEMMA NextSameEncryption ==
  ASSUME SafeInv, GuardInv, [Next]_vars
  PROVE  GuardInv' /\ StepSameEncryption
<1>1. CASE UNCHANGED vars
  BY <1>1 DEF vars, GuardInv, StepSameEncryption, SameEncryption
<1>2. CASE \E opts \in OptionSet, fails \in BOOLEAN : Create(opts, fails)
  BY <1>2 DEF Create, GuardInv, StepSameEncryption
<1>3. CASE \E num \in Nums : Generate(num)
  BY <1>3, GenerateAddressesKeepsEncrypted, ReturnsSameEncryption DEF Generate
<1>4. CASE GenerateChangeEntry
  BY <1>4, GenerateChangeKeepsEncrypted, ReturnsSameEncryption DEF GenerateChangeEntry
<1>5. CASE \E e \in NewEntries : AddToCollection(e)
  BY <1>5, AddEntryKeepsEncrypted, ReturnsSameEncryption DEF AddToCollection
<1>6. CASE \E p \in Passwords \cup {Null}, ct \in Cryptos, fails \in BOOLEAN :
             LockWallet(p, ct, fails)
  BY <1>6, LockKeepsEncrypted, ReturnsSameEncryption DEF LockWallet
<1>7. ASSUME NEW p, UnlockWallet(p) PROVE GuardInv' /\ StepSameEncryption
  <2>1. WalletOK(wallet) /\ Subject = wallet
    BY <1>7 DEF UnlockWallet, Subject, SafeInv, Safe
  <2> QED
    BY <1>7, <2>1, UnlockKeepsEncrypted, ReturnsSameEncryption DEF UnlockWallet
<1>8. CASE \E kind \in {"view", "update"}, p \in Passwords \cup {Null} : GuardBegin(kind, p)
  BY <1>8, GuardBeginSameEncryption
<1>9. CASE CallbackFails \/ ViewEnds \/ \E fails \in BOOLEAN : UpdateEnds(fails)
  BY <1>9, GuardEndSameEncryption
<1>10. CASE Save
  BY <1>10 DEF Save, Forget, GuardInv, StepSameEncryption, SameEncryption
<1>11. CASE Load
  BY <1>11 DEF Load, GuardInv, StepSameEncryption, SameEncryption, WasLoaded
<1>12. CASE Exit
  BY <1>12 DEF Exit, Forget, GuardInv, StepSameEncryption
<1> QED
  BY <1>1, <1>2, <1>3, <1>4, <1>5, <1>6, <1>7, <1>8, <1>9, <1>10, <1>11, <1>12 DEF Next

\* What the guard noted is true in every reachable state.
LEMMA GuardInvAlways == Spec => []GuardInv
<1>1. Init => GuardInv
  BY DEF Init, GuardInv
<1>2. SafeInv /\ GuardInv /\ [Next]_vars => GuardInv'
  BY NextSameEncryption
<1> QED
  BY <1>1, <1>2, SafeAlways, PTL DEF Spec

\* As long as a wallet stays encrypted its password and its crypto type stay what
\* they were, whatever a callback of GuardUpdate did to its copy: the second Lock
\* is under the password of the guard and the crypto type noted before Unlock
\* cleared it (wallet.go:507, :519).
THEOREM EncryptionIsKept == Spec => EncryptionKept
<1>1. SafeInv /\ GuardInv /\ [Next]_vars =>
        [wallet # Null /\ wallet' # Null /\ wallet.encrypted /\ wallet'.encrypted =>
           \/ WasLoaded
           \/ /\ wallet'.cryptoType = wallet.cryptoType
              /\ wallet'.secrets.password = wallet.secrets.password]_vars
  BY NextSameEncryption DEF StepSameEncryption, SameEncryption
<1> QED
  BY <1>1, SafeAlways, GuardInvAlways, PTL DEF Spec, EncryptionKept

-----------------------------------------------------------------------------
(***************************************************************************)
(* Addresses stay.                                                         *)
(***************************************************************************)

\* The copy a callback works on has the addresses of the caller's wallet, which
\* is what the wallet keeps when GuardUpdate puts the copy in its place.
CopyExtends == guard # "none" => wallet # Null /\ Extends(wallet, temp)

\* What AddressesKept says of a step.
StepExtends == wallet # Null /\ wallet' # Null => WasLoaded \/ Extends(wallet, wallet')

\* An operation that extends the copy keeps it an extension of the wallet.
LEMMA ReturnsExtends ==
  ASSUME SafeInv, CopyExtends, Subject # Null, NEW r, Returns(r),
         WalletOK(r.w), Extends(Subject, r.w)
  PROVE  CopyExtends' /\ StepExtends
<1>1. CASE r.err = "panic"
  BY <1>1 DEF Returns, Forget, CopyExtends, StepExtends
<1>2. CASE r.err # "panic" /\ guard = "none"
  BY <1>2 DEF Returns, Subject, CopyExtends, StepExtends
<1>3. CASE r.err # "panic" /\ guard # "none"
  <2>1. wallet' = wallet /\ temp' = r.w /\ Subject = temp
    BY <1>3 DEF Returns, Subject
  <2>2. wallet # Null /\ WalletOK(wallet) /\ WalletOK(temp) /\ Extends(wallet, temp)
    BY <1>3 DEF SafeInv, Safe, CopyExtends
  <2>3. Extends(wallet, r.w) /\ Extends(wallet, wallet)
    BY <2>1, <2>2, ExtendsOn, ExtendsItself
  <2> QED
    BY <2>1, <2>2, <2>3 DEF CopyExtends, StepExtends
<1> QED
  BY <1>1, <1>2, <1>3

\* What changes neither wallet nor copy keeps it, too.
LEMMA StaysExtends ==
  ASSUME SafeInv, CopyExtends, UNCHANGED wallet, guard' = "none" \/ UNCHANGED <<guard, temp>>
  PROVE  CopyExtends' /\ StepExtends
<1>1. wallet # Null => Extends(wallet, wallet)
  BY ExtendsItself DEF SafeInv, Safe
<1> QED
  BY <1>1 DEF CopyExtends, StepExtends

\* A guard's copy begins with the addresses of the wallet.
LEMMA GuardBeginExtends ==
  ASSUME SafeInv, CopyExtends, NEW kind, NEW p, GuardBegin(kind, p)
  PROVE  CopyExtends' /\ StepExtends
<1>1. CASE Unlock(wallet, p).err = "ok"
  <2>1. wallet # Null /\ wallet' = wallet /\ temp' = Unlock(wallet, p).w
    BY <1>1 DEF GuardBegin
  <2>2. WalletOK(wallet)
    BY <2>1 DEF SafeInv, Safe
  <2>3. Extends(wallet, Unlock(wallet, p).w) /\ Extends(wallet, wallet)
    BY <2>2, UnlockOK, ExtendsItself
  <2> QED
    BY <2>1, <2>3 DEF CopyExtends, StepExtends
<1>2. CASE Unlock(wallet, p).err # "ok"
  BY <1>2, StaysExtends DEF GuardBegin
<1> QED
  BY <1>1, <1>2

\* A guard that ends drops no address.
LEMMA GuardEndExtends ==
  ASSUME SafeInv, CopyExtends, NEW fails, CallbackFails \/ ViewEnds \/ UpdateEnds(fails)
  PROVE  CopyExtends' /\ StepExtends
<1>1. guard # "none" /\ guard' = "none"
  BY DEF CallbackFails, ViewEnds, UpdateEnds, GuardOver
<1>2. CASE wallet' = wallet
  BY <1>1, <1>2, StaysExtends
<1>3. CASE wallet' # wallet
  <2> DEFINE v == Lock(temp, password, cryptoType, fails).w
  <2>1. wallet' = Erase(Copied(v))
    BY <1>3 DEF CallbackFails, ViewEnds, UpdateEnds
  <2>2. wallet # Null /\ WalletOK(wallet) /\ WalletOK(temp) /\ Extends(wallet, temp)
    BY <1>1 DEF SafeInv, Safe, CopyExtends
  <2>3. WalletOK(v) /\ Extends(temp, v)
    BY <2>2, LockOK
  <2> HIDE DEF v
  <2>4. WalletOK(Copied(v)) /\ WalletOK(Erase(Copied(v)))
    BY <2>3, CopiedOK, EraseOK
  <2>5. Extends(v, Copied(v)) /\ Extends(Copied(v), Erase(Copied(v)))
    BY <2>3, <2>4, CopiedOK, EraseOK
  <2>6. Extends(wallet, v)
    BY <2>2, <2>3, ExtendsOn
  <2>7. Extends(wallet, Copied(v))
    BY <2>2, <2>3, <2>4, <2>5, <2>6, ExtendsOn
  <2>8. Extends(wallet, Erase(Copied(v)))
    BY <2>2, <2>4, <2>5, <2>7, ExtendsOn
  <2> QED
    BY <1>1, <2>1, <2>8 DEF CopyExtends, StepExtends
<1> QED
  BY <1>2, <1>3

\* Every step keeps the copy an extension, and satisfies the property.
LEMMA NextExtends ==
  ASSUME SafeInv, CopyExtends, [Next]_vars
  PROVE  CopyExtends' /\ StepExtends
<1>1. CASE UNCHANGED vars
  BY <1>1, StaysExtends DEF vars
<1>2. CASE \E opts \in OptionSet, fails \in BOOLEAN : Create(opts, fails)
  BY <1>2 DEF Create, CopyExtends, StepExtends
<1>3. ASSUME NEW num \in Nums, Generate(num) PROVE CopyExtends' /\ StepExtends
  <2>1. num \in Nat /\ Subject # Null /\ Returns(GenerateAddresses(Subject, num))
    BY <1>3, WalletAssumption DEF Generate
  <2> QED
    BY <2>1, SubjectOK, GenerateAddressesOK, ReturnsExtends
<1>4. CASE GenerateChangeEntry
  BY <1>4, SubjectOK, GenerateChangeOK, ReturnsExtends DEF GenerateChangeEntry
<1>5. ASSUME NEW e \in NewEntries, AddToCollection(e) PROVE CopyExtends' /\ StepExtends
  <2>1. {"address", "secret"} \subseteq DOMAIN e
    BY WalletAssumption
  <2> QED
    BY <1>5, <2>1, SubjectOK, AddEntryOK, ReturnsExtends DEF AddToCollection
<1>6. ASSUME NEW p, NEW ct, NEW fails, LockWallet(p, ct, fails) PROVE CopyExtends' /\ StepExtends
  BY <1>6, SubjectOK, LockOK, ReturnsExtends DEF LockWallet
<1>7. ASSUME NEW p, UnlockWallet(p) PROVE CopyExtends' /\ StepExtends
  <2>1. Subject = wallet /\ Subject # Null /\ Returns(Unlock(wallet, p))
    BY <1>7 DEF UnlockWallet, Subject
  <2> QED
    BY <2>1, SubjectOK, UnlockOK, ReturnsExtends
<1>8. CASE \E kind \in {"view", "update"}, p \in Passwords \cup {Null} : GuardBegin(kind, p)
  BY <1>8, GuardBeginExtends
<1>9. CASE CallbackFails \/ ViewEnds \/ \E fails \in BOOLEAN : UpdateEnds(fails)
  BY <1>9, GuardEndExtends
<1>10. CASE Save
  <2>1. CASE ReadablePanics(wallet)
    BY <1>10, <2>1 DEF Save, Forget, CopyExtends, StepExtends
  <2>2. CASE ~ReadablePanics(wallet)
    BY <1>10, <2>2, StaysExtends DEF Save
  <2> QED
    BY <2>1, <2>2
<1>11. CASE Load
  <2>1. CASE LoadError(disk) = "ok"
    BY <1>11, <2>1 DEF Load, CopyExtends, StepExtends, WasLoaded
  <2>2. CASE LoadError(disk) # "ok"
    BY <1>11, <2>2, StaysExtends DEF Load
  <2> QED
    BY <2>1, <2>2
<1>12. CASE Exit
  BY <1>12 DEF Exit, Forget, CopyExtends, StepExtends
<1> QED
  BY <1>1, <1>2, <1>3, <1>4, <1>5, <1>6, <1>7, <1>8, <1>9, <1>10, <1>11, <1>12 DEF Next

\* The copy extends the wallet in every reachable state.
LEMMA CopyExtendsAlways == Spec => []CopyExtends
<1>1. Init => CopyExtends
  BY DEF Init, CopyExtends
<1>2. SafeInv /\ CopyExtends /\ [Next]_vars => CopyExtends'
  BY NextExtends
<1> QED
  BY <1>1, <1>2, SafeAlways, PTL DEF Spec

\* One sequence of entries that continues another has its addresses as a prefix.
LEMMA ContinuesIsPrefix ==
  ASSUME NEW s, NEW t, EntriesOK(s), EntriesOK(t), Continues(s, t)
  PROVE  IsPrefixOf(AddressSeq(s), AddressSeq(t))
<1>1. /\ Len(s) \in Nat /\ DOMAIN s = 1 .. Len(s)
      /\ Len(t) \in Nat /\ DOMAIN t = 1 .. Len(t)
  BY EntriesDomain
<1>2. Len(AddressSeq(s)) = Len(s) /\ Len(AddressSeq(t)) = Len(t)
  BY <1>1 DEF AddressSeq
<1>3. Len(s) <= Len(t) /\ \A n \in DOMAIN s : n \in DOMAIN t /\ t[n].address = s[n].address
  BY <1>1 DEF Continues
<1>4. \A n \in DOMAIN AddressSeq(s) : AddressSeq(s)[n] = AddressSeq(t)[n]
  BY <1>3 DEF AddressSeq
<1> QED
  BY <1>2, <1>3, <1>4 DEF IsPrefixOf

\* Addresses go out of a wallet in memory only by loading an older file: not by
\* locking, by an update of which a callback did what it wanted, or by an error
\* (wallet.go:335, :392, :498).
THEOREM AddressesStay == Spec => AddressesKept
<1>1. ASSUME SafeInv, CopyExtends, [Next]_vars, wallet # Null, wallet' # Null, ~WasLoaded
      PROVE  /\ IsPrefixOf(AddressSeq(wallet.entries), AddressSeq(wallet'.entries))
             /\ IsPrefixOf(AddressSeq(wallet.changeEntries), AddressSeq(wallet'.changeEntries))
  <2>1. Extends(wallet, wallet')
    BY <1>1, NextExtends DEF StepExtends
  <2>2. WalletOK(wallet) /\ WalletOK(wallet')
    BY <1>1, SafeNext DEF SafeInv, Safe
  <2> QED
    BY <2>1, <2>2, ContinuesIsPrefix DEF Extends, WalletOK
<1>2. SafeInv /\ CopyExtends /\ [Next]_vars =>
        [wallet # Null /\ wallet' # Null =>
           \/ WasLoaded
           \/ /\ IsPrefixOf(AddressSeq(wallet.entries), AddressSeq(wallet'.entries))
              /\ IsPrefixOf(AddressSeq(wallet.changeEntries), AddressSeq(wallet'.changeEntries))]_vars
  BY <1>1
<1> QED
  BY <1>2, SafeAlways, CopyExtendsAlways, PTL DEF Spec, AddressesKept
=============================================================================
