-------------------------- MODULE GenerateEntries ---------------------------
(***************************************************************************)
(* generateEntries of the bip44 wallet (bip44_wallet.go:175) and of the    *)
(* xpub wallet (xpub_wallet.go:142), with the operations that call it:     *)
(* GenerateAddresses, PeekChangeEntry, GenerateChangeEntry, Fingerprint.   *)
(* The loop over child numbers is one step per iteration, its locals are   *)
(* variables.  An entry is represented by its child number.                *)
(*                                                                         *)
(* Public says which of the two wallets it is: the xpub wallet derives     *)
(* from a public key, has one chain, and gets no key from a hardened index.*)
(***************************************************************************)
EXTENDS ChildChain, FiniteSets

CONSTANTS
  Public,   \* TRUE: XPubWallet, FALSE: Bip44Wallet
  MaxNum    \* bound: the largest number of addresses one call asks for

ASSUME WalletKindAssumption == Public \in BOOLEAN /\ MaxNum \in Nat

ExternalChain == 0   \* bip44.ExternalChainIndex
ChangeChain   == 1   \* bip44.ChangeChainIndex
Chains == IF Public THEN {ExternalChain} ELSE {ExternalChain, ChangeChain}

Calls == {"GenerateAddresses", "PeekChangeEntry", "GenerateChangeEntry", "Fingerprint"}

\* What a call returned; Running while it has not returned.
Running == "running"
Errors == {"wallet encrypted", "num too large", "chain node failed", "childIdx overflow",
           "child failed", "no more change addresses"}
Results == {"ok", "panic", Running} \cup Errors

VARIABLES
  impossible,     \* per chain, the children that fail with ImpossibleChildError (fixed by the seed)
  unaddable,      \* per chain, the children of a public key whose sum with it is no key
  brokenChain,    \* chains with no usable node: impossible itself, or at depth 0xFF
  encrypted,      \* Meta.IsEncrypted()
  entries,        \* per chain, the child numbers of the wallet's entries
  call,           \* the operation being executed or executed last
  result,         \* what it returned
  changeIdx,      \* generateEntries: the chain,
  num,            \*   how many children are tried after the cap,
  i, j,           \*   the iterations done and the next child number,
  addressIndices  \*   the child numbers that had a key

seedVars == <<impossible, unaddable, brokenChain>>
loopVars == <<changeIdx, num, i, j, addressIndices>>
vars == <<impossible, unaddable, brokenChain, encrypted, entries, call, result,
          changeIdx, num, i, j, addressIndices>>

TypeOK ==
  /\ impossible \in [Chains -> SUBSET Uint32]
  /\ unaddable \in [Chains -> SUBSET Uint32]
  /\ brokenChain \in SUBSET Chains
  /\ encrypted \in BOOLEAN
  /\ entries \in [Chains -> Seq(Uint32)]
  /\ call \in Calls
  /\ result \in Results
  /\ changeIdx \in Chains
  /\ num \in Uint32
  /\ i \in Uint32
  /\ j \in Uint32
  /\ addressIndices \in Seq(Uint32)

Init ==
  /\ impossible \in [Chains -> SUBSET Uint32]
  /\ unaddable \in [Chains -> IF Public THEN SUBSET Uint32 ELSE {{}}]
  /\ brokenChain \in SUBSET Chains
  /\ encrypted = FALSE
  /\ entries = [c \in Chains |-> <<>>]
  /\ call = "GenerateAddresses"
  /\ result = "ok"
  /\ changeIdx = ExternalChain
  /\ num = 0
  /\ i = 0
  /\ j = 0
  /\ addressIndices = <<>>

-----------------------------------------------------------------------------
\* A call returns an error before or inside the loop: nothing was appended.
\* Fingerprint turns every error into a panic.
Fail(e) ==
  /\ result' = IF call' = "Fingerprint" THEN "panic" ELSE e
  /\ UNCHANGED <<seedVars, encrypted, entries>>

\* The part of generateEntries before the loop.  A capped count of 0 returns no
\* entries and no error, which is the loop with nothing to do.
Begin(op, chain, n, first) ==
  /\ result \notin {Running, "panic"}
  /\ call' = op
  /\ IF encrypted
     THEN Fail("wallet encrypted") /\ UNCHANGED loopVars
     ELSE IF n > MaxUint32
     THEN Fail("num too large") /\ UNCHANGED loopVars
     ELSE IF CapNum(n, first) # 0 /\ ~Public /\ chain \in brokenChain
     THEN Fail("chain node failed") /\ UNCHANGED loopVars
     ELSE /\ result' = Running
          /\ changeIdx' = chain
          /\ num' = CapNum(n, first)
          /\ i' = 0
          /\ j' = first
          /\ addressIndices' = <<>>
          /\ UNCHANGED <<seedVars, encrypted, entries>>

GenerateAddresses ==
  \E n \in 0 .. MaxNum :
    Begin("GenerateAddresses", ExternalChain, n, NextChildIdx(entries[ExternalChain]))

PeekChangeEntry ==
  /\ ChangeChain \in Chains
  /\ Begin("PeekChangeEntry", ChangeChain, 1, NextChildIdx(entries[ChangeChain]))

GenerateChangeEntry ==
  /\ ChangeChain \in Chains
  /\ Begin("GenerateChangeEntry", ChangeChain, 1, NextChildIdx(entries[ChangeChain]))

\* The fingerprint of a wallet with entries, or of an encrypted one, derives nothing.
Fingerprint ==
  /\ entries[ExternalChain] = <<>>
  /\ ~encrypted
  /\ Begin("Fingerprint", ExternalChain, 1, 0)

-----------------------------------------------------------------------------
DeriveHardenedToo(chain, k) ==
  IF chain \in brokenChain THEN "failed"
  ELSE IF k \in impossible[chain] THEN "impossible"
  ELSE IF k \in unaddable[chain] THEN "failed"
  ELSE "key"

\* How the derivation of child k of the chain comes out.  That the child's point
\* cannot be added to the public key (addPublicKeys) is no ImpossibleChildError.
Derive(chain, k) ==
  IF chain \in brokenChain \/ (Public /\ k >= FirstHardenedChild) THEN "failed"
  ELSE IF k \in impossible[chain] THEN "impossible"
  ELSE IF k \in unaddable[chain] THEN "failed"
  ELSE "key"

InLoop == result = Running /\ i < num

Advance ==
  /\ InLoop
  /\ WrapAdd(j, 1) >= j
  /\ j' = WrapAdd(j, 1)
  /\ UNCHANGED <<seedVars, encrypted, entries, call, changeIdx, num>>

DeriveKeyIndexBeforeIncrement ==
  /\ Advance
  /\ Derive(changeIdx, j) = "key"
  /\ i' = i + 1
  /\ addressIndices' = Append(addressIndices, j - 1)
  /\ UNCHANGED result

DeriveKey ==
  /\ Advance
  /\ Derive(changeIdx, j) = "key"
  /\ i' = i + 1
  /\ addressIndices' = Append(addressIndices, j' - 1)
  /\ UNCHANGED result

SkipImpossibleBeforeIncrement ==
  /\ InLoop
  /\ WrapAdd(j, 1) >= j
  /\ Derive(changeIdx, j) = "impossible"
  /\ UNCHANGED vars

SkipImpossibleKeepsIndex ==
  /\ Advance
  /\ Derive(changeIdx, j) = "impossible"
  /\ i' = i + 1
  /\ addressIndices' = Append(addressIndices, j' - 1)
  /\ UNCHANGED result

\* "skipping any children that are invalid"
SkipImpossible ==
  /\ Advance
  /\ Derive(changeIdx, j) = "impossible"
  /\ i' = i + 1
  /\ UNCHANGED <<result, addressIndices>>

\* mathutil.AddUint32 reports a sum that wrapped; the code looks at that before
\* it looks at the error of the derivation.
DeriveFailed ==
  /\ InLoop
  /\ UNCHANGED <<call, loopVars>>
  /\ IF WrapAdd(j, 1) < j
     THEN Fail("childIdx overflow")
     ELSE Derive(changeIdx, j) = "failed" /\ Fail("child failed")

-----------------------------------------------------------------------------
\* The loop is over: what each caller does with the new entries.
Returning == result = Running /\ i >= num

Stays == UNCHANGED <<seedVars, encrypted, call, loopVars>>

ReturnGenerateAddresses ==
  /\ Returning
  /\ call = "GenerateAddresses"
  /\ entries' = [entries EXCEPT ![ExternalChain] = @ \o addressIndices]
  /\ result' = "ok"
  /\ Stays

ReturnPeekChangeEntry ==
  /\ Returning
  /\ call = "PeekChangeEntry"
  /\ result' = IF addressIndices = <<>> THEN "no more change addresses" ELSE "ok"
  /\ UNCHANGED entries
  /\ Stays

ReturnGenerateChangeEntry ==
  /\ Returning
  /\ call = "GenerateChangeEntry"
  /\ IF addressIndices = <<>>
     THEN result' = "no more change addresses" /\ UNCHANGED entries
     ELSE /\ result' = "ok"
          /\ entries' = [entries EXCEPT ![ChangeChain] = Append(@, addressIndices[1])]
  /\ Stays

\* entries[0] is out of range when the only child tried was impossible.
ReturnFingerprint ==
  /\ Returning
  /\ call = "Fingerprint"
  /\ result' = IF addressIndices = <<>> THEN "panic" ELSE "ok"
  /\ UNCHANGED entries
  /\ Stays

\* Lock and GuardUpdate turn encryption on, Unlock hands out a decrypted copy.
SwitchEncryption ==
  /\ result \notin {Running, "panic"}
  /\ encrypted' = ~encrypted
  /\ UNCHANGED <<seedVars, entries, call, result, loopVars>>

-----------------------------------------------------------------------------
Iterate == DeriveKey \/ SkipImpossible \/ DeriveFailed

Return ==
  \/ ReturnGenerateAddresses
  \/ ReturnPeekChangeEntry
  \/ ReturnGenerateChangeEntry
  \/ ReturnFingerprint

Next ==
  \/ GenerateAddresses
  \/ PeekChangeEntry
  \/ GenerateChangeEntry
  \/ Fingerprint
  \/ Iterate
  \/ Return
  \/ SwitchEncryption

\* A call that was made runs on to its return: the loop waits for nothing.
Fairness == WF_vars(Iterate) /\ WF_vars(Return)

Spec == Init /\ [][Next]_vars
FairSpec == Spec /\ Fairness

-----------------------------------------------------------------------------
(***************************************************************************)
(* Properties                                                              *)
(***************************************************************************)

\* No child number is used twice and the wallet keeps its entries in order,
\* which is what nextChildIdx relies on when it looks at the last entry only
\* (bip44_wallet.go:165).
ChainsAscend == \A c \in Chains : Ascending(entries[c])

\* A chain has no holes: below the next child number every child has an entry
\* unless it is impossible.  A hole would be an address that a restored wallet
\* derives and this one never shows.
NoHoles ==
  \A c \in Chains : \A k \in 0 .. NextChildIdx(entries[c]) - 1 :
    k \in Numbers(entries[c]) \cup impossible[c]

\* The cap is enough: the sum of mathutil.AddUint32 never wraps, so the branch
\* "childIdx can't be incremented any further" (bip44_wallet.go:227,
\* xpub_wallet.go:169) is never taken and no entry gets the largest uint32,
\* after which nextChildIdx would start again at 0.
NeverOverflows ==
  /\ result # "childIdx overflow"
  /\ \A c \in Chains : MaxUint32 \notin Numbers(entries[c])

\* Every call returns: neither the skipping of impossible children nor the cap
\* can keep the loop going.
CallsReturn == (result = Running) ~> (result # Running)

\* The loop implements the promise of AddressChain.
Promise == INSTANCE AddressChain WITH used <- [c \in Chains |-> Numbers(entries[c])]
ImplementsAddressChain == Promise!Spec

\* "no more change addresses" (bip44_wallet.go:288, :301) means what it says or
\* that the next child is impossible: PeekChangeEntry and GenerateChangeEntry try
\* one child only, and the same one on the next call.  It never comes of a chain
\* whose next child has a key.
NoMoreExplained ==
  result = "no more change addresses" =>
    LET next == NextChildIdx(entries[ChangeChain]) IN
    next = MaxUint32 \/ next \in impossible[ChangeChain]
=============================================================================
