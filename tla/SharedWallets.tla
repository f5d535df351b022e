---------------------------- MODULE SharedWallets -----------------------------
(***************************************************************************)
(* Several Wallet values in one process and the memory behind them         *)
(* (pkg/wallet): a wallet is a struct with a Meta, which is a map, and     *)
(* with entries, which are a slice of an array.  Clone and CopyFrom        *)
(* allocate both anew; CopyFromRef, which GuardUpdate ends with, copies    *)
(* the references, and a callback may have kept the wallet it was given.   *)
(*                                                                         *)
(* Wallet.tla has what an operation does to the value of a wallet.  This   *)
(* module has where it writes, and so which other wallets see it.  Guards  *)
(* nest: a callback may call any operation, on its copy and on the others. *)
(* The setters of the Wallet interface, which write to the Meta whoever    *)
(* shares it, are left out: SetLabel and SetTimestamp have nothing to do   *)
(* with secrets or entries, and only Lock and Unlock call the others.      *)
(***************************************************************************)
EXTENDS FiniteSetsExt, SequencesExt

CONSTANTS
  Names,       \* the variables of the caller and its callbacks that hold wallets
  Addresses,   \* addresses of entries
  MaxDepth     \* bound: guards within guards

Wlt == "wlt"    \* the variable of Lock
Nil == <<"nil", 0>>   \* the array of an empty slice that was never appended to

ASSUME SharedWalletsAssumption ==
  /\ Wlt \notin Names
  /\ IsFiniteSet(Addresses)
  /\ MaxDepth \in Nat

VARIABLES
  heap,    \* obj: the wallets by name; metas and arrays: the memory behind them
  guards   \* the guards whose callbacks are running, the innermost last

vars == <<heap, guards>>

\* f with the value v at x.
Put(f, x, v) == [y \in DOMAIN f \cup {x} |-> IF y = x THEN v ELSE f[y]]

EmptySlot == [address |-> "none", secret |-> FALSE]

\* sealed is the ciphertext in the secrets field: which secrets are in it.
NothingSealed == [seed |-> FALSE, keys |-> {}]

Init ==
  /\ \E name \in Names : heap =
       [obj    |-> [w \in {name} |-> [meta |-> <<name, 1>>, array |-> Nil, len |-> 0]],
        metas  |-> [m \in {<<name, 1>>} |->
                      [locked |-> FALSE, seed |-> TRUE, sealed |-> NothingSealed]],
        arrays |-> [a \in {Nil} |-> <<>>]]
  /\ guards = <<>>

-----------------------------------------------------------------------------
\* The heap hp, read.

Live == DOMAIN heap.obj
MetaOf(hp, w) == hp.metas[hp.obj[w].meta]
EntriesOf(hp, w) == SubSeq(hp.arrays[hp.obj[w].array], 1, hp.obj[w].len)
AddressSeq(hp, w) == [n \in DOMAIN EntriesOf(hp, w) |-> EntriesOf(hp, w)[n].address]
AddressesOf(hp, w) == ToSet(AddressSeq(hp, w))

\* Memory for w that no other wallet refers to, named after w.
Fresh(w, used) == <<w, Min({ n \in 1 .. Cardinality(used) + 1 : <<w, n>> \notin used })>>
FreshMeta(hp, w) == Fresh(w, { hp.obj[v].meta : v \in DOMAIN hp.obj \ {w} })
FreshArray(hp, w) == Fresh(w, { hp.obj[v].array : v \in DOMAIN hp.obj \ {w} })

\* The array an append or a clone allocates: es and, if the runtime chose to, a
\* spare slot.  Bound: no slot beyond the number of addresses.
Allocated(es, spare) ==
  IF spare /\ Len(es) < Cardinality(Addresses) THEN Append(es, EmptySlot) ELSE es

-----------------------------------------------------------------------------
(***************************************************************************)
(* The methods of a wallet, from heap to heap.                             *)
(***************************************************************************)

CloneSharesEntries(hp, src, dst, spare) ==
  [obj    |-> Put(hp.obj, dst, [hp.obj[src] EXCEPT !.meta = FreshMeta(hp, dst)]),
   metas  |-> Put(hp.metas, FreshMeta(hp, dst), MetaOf(hp, src)),
   arrays |-> hp.arrays]

\* dst = src.Clone() and dst.CopyFrom(src)
Clone(hp, src, dst, spare) ==
  LET len == hp.obj[src].len
      array == IF len = 0 THEN Nil ELSE FreshArray(hp, dst)
      slots == IF len = 0 THEN <<>> ELSE Allocated(EntriesOf(hp, src), spare)
  IN [obj    |-> Put(hp.obj, dst, [meta |-> FreshMeta(hp, dst), array |-> array, len |-> len]),
      metas  |-> Put(hp.metas, FreshMeta(hp, dst), MetaOf(hp, src)),
      arrays |-> Put(hp.arrays, array, slots)]

\* dst.CopyFromRef(src): "*w = *src"
CopyFromRef(hp, dst, src) == [hp EXCEPT !.obj[dst] = hp.obj[src]]

Cleared(slot) == [slot EXCEPT !.secret = FALSE]

Erase(hp, w) ==
  LET o == hp.obj[w] IN
  [hp EXCEPT !.metas[o.meta].seed = FALSE,
             !.arrays[o.array] =
                [n \in DOMAIN @ |-> IF n <= o.len THEN Cleared(@[n]) ELSE @[n]]]

\* The entries whose secret keys are there to be packed.
KeysOf(es) == { es[n].address : n \in { k \in DOMAIN es : es[k].secret } }

\* PackSecrets, Encrypt and SetEncrypted
Seal(hp, w) ==
  LET packed == [seed |-> MetaOf(hp, w).seed, keys |-> KeysOf(EntriesOf(hp, w))] IN
  [hp EXCEPT !.metas[hp.obj[w].meta] = [@ EXCEPT !.locked = TRUE, !.sealed = packed]]

Unpacked(slot, keys) == [slot EXCEPT !.secret = slot.address \in keys]

\* Decrypt, UnpackSecrets and SetDecrypted
Unseal(hp, w) ==
  LET o == hp.obj[w]
      sealed == MetaOf(hp, w).sealed
  IN [hp EXCEPT !.metas[o.meta] =
                   [@ EXCEPT !.locked = FALSE, !.seed = sealed.seed, !.sealed = NothingSealed],
                !.arrays[o.array] =
                   [n \in DOMAIN @ |-> IF n <= o.len THEN Unpacked(@[n], sealed.keys) ELSE @[n]]]

\* append(w.Entries, e): in place while there is room
Append1(hp, w, e, spare) ==
  LET o == hp.obj[w]
      new == FreshArray(hp, w)
  IN IF o.len < Len(hp.arrays[o.array])
     THEN [hp EXCEPT !.arrays[o.array][o.len + 1] = e, !.obj[w].len = @ + 1]
     ELSE [hp EXCEPT !.arrays = Put(@, new, Allocated(Append(EntriesOf(hp, w), e), spare)),
                     !.obj[w] = [meta |-> o.meta, array |-> new, len |-> o.len + 1]]

LockErasesFirst(hp, w, spare) ==
  LET packed == Seal(Erase(Clone(hp, w, Wlt, spare), Wlt), Wlt)
  IN Erase(Clone(Erase(packed, w), Wlt, w, spare), Wlt)

\* Lock seals a clone, erases clone and wallet, copies the clone to the wallet and,
\* on its way out, erases the clone again.
Lock(hp, w, spare) ==
  LET packed == Erase(Seal(Clone(hp, w, Wlt, spare), Wlt), Wlt)
  IN Erase(Clone(Erase(packed, w), Wlt, w, spare), Wlt)

UnlockOfReference(hp, w, to, spare) ==
  Unseal([hp EXCEPT !.obj = Put(@, to, hp.obj[w])], to)

Unlock(hp, w, to, spare) == Unseal(Clone(hp, w, to, spare), to)

\* What no variable leads to any more is collected.
Collected(hp, names) ==
  LET obj == Restrict(hp.obj, names) IN
  [obj    |-> obj,
   metas  |-> Restrict(hp.metas, { obj[w].meta : w \in names }),
   arrays |-> Restrict(hp.arrays, { obj[w].array : w \in names } \cup {Nil})]

-----------------------------------------------------------------------------
(***************************************************************************)
(* The operations of the caller and of the callbacks.                      *)
(***************************************************************************)

Locked(w) == MetaOf(heap, w).locked

\* The wallets a running guard will use again.
Held == UNION { {guards[n].of, guards[n].copy} : n \in DOMAIN guards }

\* AddEntry, GenerateAddresses and GenerateChangeEntry append to an open wallet.
AddEntry(w, a, spare) ==
  /\ ~Locked(w)
  /\ a \notin AddressesOf(heap, w)
  /\ heap' = Collected(Append1(heap, w, [address |-> a, secret |-> TRUE], spare), Live)
  /\ UNCHANGED guards

CloneWallet(w, to, spare) ==
  /\ to \notin Live
  /\ heap' = Clone(heap, w, to, spare)
  /\ UNCHANGED guards

\* A Lock that fails has only made, and erased, its clone.
LockWallet(w, spare) ==
  /\ ~Locked(w)
  /\ heap' = Collected(Lock(heap, w, spare), Live)
  /\ UNCHANGED guards

UnlockWallet(w, to, spare) ==
  /\ Locked(w)
  /\ to \notin Live
  /\ heap' = Unlock(heap, w, to, spare)
  /\ UNCHANGED guards

DiscardHeld(w) ==
  /\ Cardinality(Live) > 1
  /\ heap' = Collected(Erase(heap, w), Live \ {w})
  /\ UNCHANGED guards

\* The caller has done with a wallet, erases it as Unlock asks, and forgets it.
Discard(w) ==
  /\ Cardinality(Live) > 1
  /\ w \notin Held
  /\ heap' = Collected(Erase(heap, w), Live \ {w})
  /\ UNCHANGED guards

GuardBegin(kind, w, to, spare) ==
  /\ Locked(w)
  /\ to \notin Live
  /\ Len(guards) < MaxDepth
  /\ heap' = Unlock(heap, w, to, spare)
  /\ guards' = Append(guards, [kind |-> kind, of |-> w, copy |-> to,
                               seen |-> AddressSeq(heap, w)])

GuardAlwaysPutsBack ==
  /\ guards # <<>>
  /\ LET top == Last(guards)
         locked == Lock(heap, top.copy, FALSE)
     IN heap' = Collected(CopyFromRef(locked, top.of, top.copy), Live \ {top.copy})
  /\ guards' = Front(guards)

\* The guard ends without touching its wallet: a GuardView, a callback that
\* failed, or a Lock that did.  The copy is erased: a callback may have locked it
\* and kept it, but one that is open is then an empty wallet nobody goes on with.
GuardEnds ==
  /\ guards # <<>>
  /\ LET copy == Last(guards).copy
         kept == IF Locked(copy) THEN Live ELSE Live \ {copy}
     IN heap' = Collected(Erase(heap, copy), kept)
  /\ guards' = Front(guards)

\* GuardUpdate locks the copy, makes its wallet refer to what the copy refers to,
\* erases the one and, on its way out, the other.  The callback may have kept it.
UpdateEnds(spare) ==
  /\ guards # <<>>
  /\ Last(guards).kind = "update"
  /\ LET top == Last(guards)
         locked == Lock(heap, top.copy, spare)
         updated == Erase(CopyFromRef(locked, top.of, top.copy), top.of)
     IN /\ ~Locked(top.copy)
        /\ heap' = Collected(Erase(updated, top.copy), Live)
  /\ guards' = Front(guards)

Next ==
  \/ \E w \in Live, spare \in BOOLEAN :
       \/ \E a \in Addresses : AddEntry(w, a, spare)
       \/ LockWallet(w, spare)
       \/ \E to \in Names :
            \/ CloneWallet(w, to, spare)
            \/ UnlockWallet(w, to, spare)
            \/ \E kind \in {"view", "update"} : GuardBegin(kind, w, to, spare)
  \/ \E w \in Live : Discard(w)
  \/ GuardEnds
  \/ \E spare \in BOOLEAN : UpdateEnds(spare)

Spec == Init /\ [][Next]_vars

-----------------------------------------------------------------------------
(***************************************************************************)
(* Properties                                                              *)
(***************************************************************************)

TypeOK ==
  /\ Live \subseteq Names
  /\ \A w \in Live :
       /\ DOMAIN heap.obj[w] = {"meta", "array", "len"}
       /\ heap.obj[w].meta \in DOMAIN heap.metas
       /\ heap.obj[w].array \in DOMAIN heap.arrays
       /\ heap.obj[w].len \in 0 .. Len(heap.arrays[heap.obj[w].array])
  /\ \A n \in DOMAIN guards :
       /\ DOMAIN guards[n] = {"kind", "of", "copy", "seen"}
       /\ guards[n].kind \in {"view", "update"}
       /\ {guards[n].of, guards[n].copy} \subseteq Live
       /\ guards[n].seen \in Seq(Addresses)

Share(w, v) ==
  \/ heap.obj[w].meta = heap.obj[v].meta
  \/ heap.obj[w].array = heap.obj[v].array /\ heap.obj[w].array # Nil

\* Wallets that share memory are locked and hold no secret, so that no secret of
\* one is in reach of the other and nobody appends to an array they share.  It is
\* what makes the CopyFromRef of GuardUpdate (wallet.go:523) safe.
SharedIsLocked ==
  \A w, v \in Live : w # v /\ Share(w, v) =>
    /\ Locked(w) /\ Locked(v)
    /\ ~MetaOf(heap, w).seed
    /\ \A n \in 1 .. heap.obj[w].len : ~EntriesOf(heap, w)[n].secret

\* Whatever another wallet was put through, every wallet has all its secrets: in
\* the clear while it is open, in its ciphertext when it is locked.
NothingLost ==
  \A w \in Live :
    IF Locked(w)
    THEN MetaOf(heap, w).sealed = [seed |-> TRUE, keys |-> AddressesOf(heap, w)]
    ELSE /\ MetaOf(heap, w).seed
         /\ \A n \in 1 .. heap.obj[w].len : EntriesOf(heap, w)[n].secret

Value(w) == [meta |-> MetaOf(heap, w), entries |-> EntriesOf(heap, w)]

Changed == { w \in Live \cap Live' : Value(w)' # Value(w) }

\* An operation changes the wallet it is called on and no other, GuardUpdate its
\* wallet and its copy: nothing that happens to a copy a callback kept reaches the
\* wallet through the memory they share, nor the other way round, and a clone, an
\* unlocked copy or a discarded wallet leaves all others as they are.  (A setter on
\* a Meta map that two copies share would show in both; there are none here.)
OneAtATime ==
  [][IF Live' # Live THEN Changed = {}
     ELSE IF guards' = guards THEN Cardinality(Changed) <= 1
     ELSE Changed \subseteq {Last(guards).of, Last(guards).copy}]_vars

\* Entries leave a wallet only as GuardUpdate puts in place a copy that is older
\* than they are: its callback updated the same wallet through a guard of its own,
\* and that update is overwritten.
OldCopiesOnly ==
  [][\A w \in Live \cap Live' :
       ~IsPrefix(AddressSeq(heap, w), AddressSeq(heap, w)') =>
         /\ guards' # guards
         /\ Last(guards).kind = "update"
         /\ w = Last(guards).of
         /\ Last(guards).seen # AddressSeq(heap, w)]_vars
=============================================================================
