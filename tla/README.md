# Verification of multicoin-wallet

This directory models `Senyoret1/multicoin-wallet` in TLA+, its wallet and the
process that serves it, checks the models with TLC and proves what matters most with
TLAPS. Paths are relative to
the repository; `vendor/...` abbreviates
`vendor/github.com/SkycoinProject/skycoin/src/...`.

1. [The system](#1-the-system)
2. [The modules](#2-the-modules)
3. [The runs](#3-the-runs)
4. [The proofs](#4-the-proofs)
5. [Findings](#5-findings)
6. [What is not modelled](#6-what-is-not-modelled)
7. [Plan](#7-plan)

To repeat everything: `tlc -config X.cfg M` for each run of `PROJECT.json`, and
`tlapm` on `OrderLemmas`, `GenerateEntriesProofs`, `WalletProofs`,
`WalletStepProofs`, `WalletRecoveryProofs`, `SharedWalletsProofs`, `WalletFileProofs`
and `MultiCoinProofs`.

## 1. The system

The repository is a fork of Skycoin's wallet on its way to several coins. Its own
logic is `pkg/wallet`, which is complete, and the process that is to serve it,
`pkg/multicoin` and `pkg/api`, whose handlers are stubs. At this commit the program
does not build (`multicoin.go:97` calls `api.NewGateway()` without its argument,
`http.go:116` calls a method `Gateway` does not have, `vendor/.../util/apputil` is
missing, and `RegisterFlags` is never called); the process is modelled as it is
written, with any configuration the package accepts.

| component | state | operations | correct when |
|---|---|---|---|
| address generation of bip44 and xpub wallets (`bip44_wallet.go`, `xpub_wallet.go`) | per chain the entries with their child numbers; the locals of `generateEntries` | `GenerateAddresses`, `PeekChangeEntry`, `GenerateChangeEntry`, `Fingerprint` | no child number is used twice, none is left out unless it is impossible, the arithmetic of uint32 never wraps, every call returns |
| wallet values (`wallet.go`, `meta.go`, `entry.go`, `secrets.go`, `readable.go`, the four `*_wallet.go`) | Meta (type, coin, seed, passphrase, encrypted, crypto type, secrets, ...) and entries | `newWallet`, `Lock`, `Unlock`, `Erase`, `PackSecrets`/`UnpackSecrets`, `AddEntry`, `Clone`/`CopyFrom`/`CopyFromRef`, `ToReadable`/`ToWallet`, `validate` | secrets survive locking and the file, and an error changes nothing |
| life of a wallet (`wallet.go`) | the caller's wallet, the temporary copy of a guard, the file | `NewWallet`, `Lock`, `Unlock`, `GuardUpdate`, `GuardView`, `Save`, `Load` | an encrypted wallet shows no secret, a guard leaves none behind, nothing is ever lost |
| wallet file (`wallet.Save`, `wallet.Load`, `vendor/.../util/file/file.go`) | the wallet file and its tmp files | `SaveJSON`/`SaveBinary`, `LoadJSON` | what `Save` acknowledged is on the disk whatever happens later, `Load` never returns anything older |
| memory of several wallets (`Clone`, `CopyFrom`, `CopyFromRef` of the four types, `Lock`, `Unlock`, the guards) | which wallets share a Meta map or an array of entries | the same, with callbacks that keep their copy and guards in guards | what is done to one wallet shows in no other |
| api server (`pkg/api/http.go`) | the listener, the channel `done`, connections | `Create`, `Serve`, `Shutdown` | `Shutdown` waits for `Serve`, in whichever order they are called |
| process (`cmd/multicoin`, `pkg/multicoin`) | the `quit` channel, `errC`, a WaitGroup, the log file, the profile | `ParseConfig`, `Run`, its goroutines | `Run` returns after a signal or a failure, and only after `Serve` has; the exit status tells which |
| coin manager and coins (`pkg/coin`), address generator (`cmd/address_gen`) | a map filled once; none | stubs; print keys | - |
| cryptography (`vendor/.../cipher`) | none | key derivation, hashes, encryption | free terms; the errors of deriving a child are in the models |

How they interact: a caller holds a `Wallet` (an interface over a pointer) and calls
the package functions. `GuardUpdate` and `GuardView` unlock a clone, run the caller's
callback on it, and erase the clone by a `defer`; `GuardUpdate` locks the clone again
with the password and the crypto type it noted before, and copies it over the
caller's wallet. `Save` turns the wallet into its readable form and hands it to
`file.SaveJSON`; `Load` reads it back and converts it by wallet type. There are no
goroutines and no locks in `pkg/wallet`. What is hard there is not interleaving but
order: a callback that may do anything, errors and exits between any two steps,
fields that must stay consistent through four ways of copying a wallet, and the
edges of the child numbers. The process is the concurrent part: `Run` starts a
goroutine that serves and one that waits for an interrupt, selects on `quit` and
`errC`, then closes the server's listener, waits for `done`, which `Serve` closes on
its way out, and for the WaitGroup.

The `hazards` in `PROJECT.json` list each such place by its line with the properties
that cover it. In short:

- *Child numbers.* `nextChildIdx` looks at the last entry only and trusts everybody
  else to keep the chain sorted; the cap, the increment and the overflow check must
  agree at the end of the range; impossible children (probability 2^-128) take a
  path no test takes, and the two wallets treat the other errors of a child differently.
- *Locking.* `Lock` and `GuardUpdate` have several places to fail after they have
  begun; a callback may lock the copy itself, under another password; the crypto type
  is read before `Unlock` clears it; `validate` looks for the seeds of an encrypted
  wallet but not for its passphrase and its keys.
- *Copies.* `lastSeed`, the parsed xpub and the split into two chains are
  reconstructed differently by `Clone`, `CopyFrom` and `ToWallet`. After
  `CopyFromRef` a wallet shares its memory with a copy a callback may have kept, and
  `append` may leave room behind the entries that two wallets would fill differently.
- *Counts.* The uint64 of `GenerateAddresses` becomes an int.
- *The file.* A write first truncates, calls fail, the process ends, a caller saves
  again.
- *The process.* A signal and an error at the same `select`; a `Shutdown` that comes
  before `Serve` has begun or after it has failed; the error that `Serve` returns
  because its listener was closed, for which nobody waits any more; returns that pass
  by the line that closes the log file.

## 2. The modules

| module | models | proofs |
|---|---|---|
| `ChildChain` | the arithmetic of child numbers: `nextChildIdx`, the cap, `mathutil.AddUint32` | - |
| `AddressChain` | abstract: what a hierarchical wallet promises about its addresses | - |
| `GenerateEntries` | `generateEntries` of both wallets, one action per outcome of an iteration, with its callers; implements `AddressChain` | `GenerateEntriesProofs` |
| `WalletData` | a wallet as a value and every operation on it as an operator | - |
| `Wallet` | the life of one wallet: caller's wallet, guard copy and file | `WalletProofs`, `WalletStepProofs`, `WalletRecoveryProofs` |
| `MCWallet` | the options, passwords and entries of the instances for TLC | - |
| `WalletFile` | `SaveBinary` step by step, failures, exits, `Load` | `WalletFileProofs` |
| `SharedWallets` | several wallets and the memory behind them, guards in guards | `SharedWalletsProofs` |
| `MCSharedWallets` | its symmetry | - |
| `OrderLemmas` | nothing: facts about numbers and finite sets for the proofs | itself |
| `Service` | abstract: what the process promises to whoever started it | - |
| `ApiServer` | the steps of `Create`, `Serve`, `Shutdown` and the connections | - |
| `MultiCoin` | `main`, `Run` and its goroutines over `ApiServer`; implements `Service` | `MultiCoinProofs` |

`Wallet` EXTENDS `WalletData`, which EXTENDS `ChildChain`; `GenerateEntries` EXTENDS
`ChildChain` and instantiates `AddressChain`. `Wallet` does the loop of
`generateEntries` in one step (`NewChildren`) and the write of the file in one step
(`Save`): `GenerateEntries` and `WalletFile` have the steps. `SharedWallets` has the
same operations as `Wallet`, reduced to what they read and write where. `MultiCoin`
EXTENDS `ApiServer` and instantiates `Service`.

**`GenerateEntries`.** `entries[c]` are the child numbers of the entries of chain `c`
(`ExternalEntries` and `ChangeEntries`; an xpub wallet has one chain). `i`, `j`,
`num` and `addressIndices` are the variables of the loop. `Begin` is everything
before it (encrypted, num too large, the cap, the chain node); `DeriveKey`,
`SkipImpossible` and `DeriveFailed` are the three ways through the loop body, with
the check of `AddUint32` before the error of the derivation as in the code; the four
`Return...` actions are what each caller does with the result, including the panic of
`Fingerprint` on `entries[0]`. Which children are impossible, and which chain nodes
cannot be derived, is chosen in `Init`: it is fixed by the seed. So are the children of
an xpub that are `unaddable`: `addPublicKeys` fails for them with an error that is not
`ImpossibleChild`, so it ends the call instead of skipping the child.

**`WalletData`.** A wallet is a record of the Meta fields the code branches on. Keys
are free terms: `Key(root, chain, index)`. An address is a coin and a key. A
ciphertext is the record of its plaintext, password and crypto type; decryption
succeeds exactly with those. Every operation returns `[err, w]`, where `w` is the
wallet it leaves behind, so that "an error changes nothing" can be stated and broken.
`Json` is what `encoding/json` does to a string: bytes that are not UTF-8 come back
as something else. `Sortings` are the arrangements `sort.Slice`, which is not
stable, may produce. `node` says whether the pointer to the parsed xpub is set: all
copies set it, `ToWallet` does not. `AsInt` is the conversion of a count to int, with
`MaxInt` for the largest one; `ReadablePanics` are the panics of `NewReadableEntry`.
What cannot be derived is a constant here: `ImpossibleChildren`, `BrokenChains` (the
coin number is too large, a node on the path is impossible, the depth is 0xFF) and
`UnaddableChildren` of an xpub; `ChainError` and `PublicChildFails` are the errors that
come of them.

**`Wallet`.** `Returns(r)` applies an operation to the caller's wallet or, while a
guard's callback runs, to the temporary copy; so a callback can do every operation of
the interface, in any order, and then succeed or fail. A guard is `GuardBegin`, what
the callback does, and one of `CallbackFails`, `ViewEnds`, `UpdateEnds`, all of which
erase the copy. `encryptFails` and `Cryptos` (known and unknown crypto types) make
`Lock` fail wherever the code lets it. A panic, like `Exit`, loses everything but the
file. `born` remembers the options of creation; the properties compare with it.

**`WalletFile`.** What may be saved is a version, a number that grows whenever the
wallet changes; the name of a tmp file is a hash of the data, so there is one tmp
file per version. `SaveBinary`, `FillTmp`, `OpenTarget`, `FillTarget` and `RemoveTmp`
are its system calls (a write is the truncating open and the filling). Each may fail
and return the error to the caller, and `Crash` may come between any two.

**`SharedWallets`.** `heap.obj` are the wallet structs by the name of the variable
that holds them; each refers to a Meta in `heap.metas` and to an array in
`heap.arrays`, of which its `len` first slots are its entries. `Clone` allocates both
anew, `CopyFromRef` copies the two references, `Append1` writes behind the entries if
the array has room and allocates if not; whether an allocation leaves room is the
runtime's choice (`spare`). `Lock` is what the code does: seal a clone, erase clone
and wallet, copy the clone over the wallet and erase the clone by the `defer`.
`guards` is the stack of guards whose callbacks run; a callback may do every
operation on every wallet, its own copy, a clone it keeps, or the wallet the guard was
called with. What no wallet refers to is collected. A guard that does not put its
copy back erases it, but cannot take it from a callback that kept it: a copy the
callback has locked lives on like any other wallet. Secrets are reduced to whether
they are there.

**`MultiCoin`.** `main` is the next statement of `main` and `Run`, from the
`flag.Parse` that may end it with status 2 (`ParseFlags`) on, `goroutine` that of
the goroutine of `Serve`; `quit`, `errC`, `wg`, `done` are the channels and the
WaitGroup, `logFile` and `profiling` what `Run` has to give back. One action is one
statement that can block, fail or be seen by somebody else. The goroutine of `Serve`
is `BeginServe`, `AcceptOnClosed` or `AcceptBreaks`, `EndServe` (the deferred close of
`done`), `SendError` and `Finish` (the deferred `wg.Done`). The environment sends the
interrupt, breaks the accept loop, connects, and lets handlers return or not; a
handler is waited for by nobody. After `exited` nothing runs. `broken` remembers that
something failed by itself; `Service` compares the exit status with it.

A few definitions have a twin with a telling name defined just before them, such as
`EraseKeepsPassphrase` before `Erase` or `NextChildIdxOfLast` before `NextChildIdx`.
A twin is the same definition with a plausible bug (a dropped guard, a missing reset,
an off-by-one). No specification uses it; `PROJECT.json` pairs it with the property
that TLC finds violated when it takes its neighbour's place, which shows that the
property has teeth.

## 3. The runs

Deadlock is checked except in the runs of `GenerateEntries`, where `Fingerprint` may
panic and the process, and with it the behaviour, ends. In `MultiCoin` the ended
process stutters (`Exited`), so that a deadlock is one of a process that has not
ended.

| run | what it checks | bounds |
|---|---|---|
| `GenerateBip44` | `TypeOK`, `ChainsAscend`, `NoHoles`, `NeverOverflows`, `NoMoreExplained`, `CallsReturn`, `ImplementsAddressChain` | uint32 is 0..3, calls for up to 4 children, *every* set of impossible children of both chains and of broken chain nodes |
| `GenerateXPub` | `NoHoles`, `ImplementsAddressChain` for a public chain | uint32 is 0..5, hardened from 3 on, calls for up to 6, *every* set of impossible and of unaddable children |
| `Wallet` | `TypeOK`, `Sealed`, `TempErased`, `Recoverable`, `RoundTrip`, `NoPanic`, `FailureChangesNothing`, `AddressesKept`, `EncryptionKept` | a wallet of each type: deterministic (open, or created encrypted, of Ethereum), bip44 with passphrase, two more whose change chain or both chains cannot be derived, xpub, one at depth 0xFF and one with an unaddable child 2, collection of Skycoin keys given entries with the right, the wrong and no secret; two passwords, known and unknown crypto types; uint32 is 0..4, hardened from 3 on, child 1 impossible; the largest int is 3, calls for 0, 1, 2 and 5; at most 2 entries of a deterministic wallet or a collection |
| `WalletFile` | `TypeOK`, `NotLost`, `TmpFilesExplained`, `LoadedNotOlder` | 3 versions, every call may fail, no repetition of a failed Save on a torn file |
| `SharedWallets` | `TypeOK`, `SharedIsLocked`, `NothingLost`, `OneAtATime`, `OldCopiesOnly` | 3 wallets, 2 addresses, guards two deep; the wallets are symmetric |
| `MultiCoin` | `TypeOK`, `RunWaits`, `FilesClosed`, `ImplementsService`, `Terminates` | every configuration, at most 2 connections |

Six runs expect a violation; they are the [findings](#5-findings) on
`XPubGenerates`, `AnyCoinAdded`, `SaveWorks`, `SpellingIndifferent`,
`UnlockGivesTheSeed` and, in `WalletFileRetried`, `NotLost`.

**What they show.**

- `ChainsAscend`: no child number is used twice. `NoHoles`: below the next child
  number every child that has a key has an entry, so a wallet restored from its seed
  finds the same addresses. `NeverOverflows`: the code's overflow branch is dead and
  the largest uint32 is never used, after which `nextChildIdx` would start at 0.
  `CallsReturn`: every call ends. `ImplementsAddressChain`: a successful call
  extends one chain by consecutive numbers minus the impossible ones; a failing one
  does nothing. `NoMoreExplained`: a change address is refused only at the end of the
  chain or at an impossible child. (At an impossible one it is refused on every later
  call too, since `PeekChangeEntry` and `GenerateChangeEntry` try one child only and
  the next call tries the same; the message says "no more change addresses" all the
  same. And an xpub wallet is capped at `math.MaxUint32`, not where its children end:
  a call that goes beyond `FirstHardenedChild` fails and gives none of the addresses
  that are left, which is a call that does nothing.)
- `Sealed`: a wallet that says it is encrypted shows no seed, passphrase or key, in
  memory, in a guard's copy and in the file. `TempErased`: however a guard ends, its
  copy holds no secret.
- `Recoverable`: whatever was locked, unlocked, generated under a guard, failed,
  saved and loaded, the wallet in memory and the one in the file open with their
  password, and then have the seed, the passphrase, the xpub, the `lastSeed` and, for
  every entry, the key and the address that follow from what the wallet was created
  with. `RoundTrip`: saving now and loading would give this very wallet back,
  whichever way the sort goes; only the parsed xpub is missing. `TypeOK` says besides
  that a call returns one of `Results`, among which are none of the errors by which
  `Unlock`, `Validate` and `ToWallet` report a wallet that contradicts itself: no
  reachable wallet does.
- `FailureChangesNothing`, `AddressesKept`, `EncryptionKept`: an operation that
  returns an error changed nothing; addresses disappear only by loading an older
  file; a wallet that stays encrypted keeps its password and crypto type, even if a
  callback locks its copy under another password.
- `NotLost`: from the time `Save` returned nil there is always a complete copy of
  those or newer data. `LoadedNotOlder`: a loaded wallet is never older than an
  acknowledged one. `TmpFilesExplained`: only a Save that failed or was cut off
  leaves a tmp file.
- `SharedIsLocked`: wallets that share memory are locked and hold no secret, so
  nobody can append to what they share and neither shows the other's secrets; this is
  what makes the `CopyFromRef` of `GuardUpdate` safe. `NothingLost`: whatever is done
  to other wallets, each has all its secrets, in the clear or in its ciphertext; the
  deferred `Erase` of a copy that shares the wallet's memory costs nothing.
  `OneAtATime`: an operation changes the wallet it is called on and no other,
  `GuardUpdate` its wallet and its copy. `OldCopiesOnly`: entries leave a wallet only
  when `GuardUpdate` puts a copy in place that is older than they are. That happens:
  if a callback updates the same wallet through a guard of its own, the outer guard
  overwrites that update. No comment promises otherwise; callers should know.
- `RunWaits`: `Run` says goodbye only when the goroutine of `Serve` has finished,
  `done` is closed and the listener with it. The comment of `Shutdown` says "This can
  only be called after Serve or ServeHTTPS has been called"; `Run` may call it before
  its goroutine has got there, and the run shows that nothing comes of it: `Serve`
  then finds the listener closed and returns. `FilesClosed`: the log file is closed
  and the profile stopped whatever ends `Run`, with one exception, an error in
  starting the profile, which leaves the log file open. `ImplementsService`: the
  process exits with 0 only after an interrupt or for help, with 1 only after
  something failed, and with 2 only before it has served anything (flags that do not
  parse, a panic for want of a data directory); the error that `Serve` returns because
  `Run` closed the listener stays in `errC` and is not taken for a failure. `Terminates`: after an interrupt or
  a failure the process exits, without waiting for any handler.

**Why the bounds are enough.** The loop's behaviour depends on how `first`, `num` and
the end of the range lie to each other and on the pattern of impossible children;
with four (six) numbers all of these relations and all patterns occur, calls beyond
the end included, and the theorems of section 4 drop the bound. A wallet never
compares itself with another one, so one seed, one passphrase and one xpub suffice;
two passwords are needed for the wrong one and for a callback with its own; two
entries are needed for one to be overwritten, reordered or lost while the other is
kept. Child 1 is impossible, so that chains with a gap, the change chain among them,
are locked, saved and sorted; a largest int of 3 makes 5 a count that is negative
as an int. In `WalletFile` three versions give an older, a current and a newer one;
its theorems hold for every number. `SharedWallets` needs three wallets for a pair
that shares memory and a third that is to be left alone, or for a wallet and the
copies of two guards; two addresses for an append behind an entry others share; a
depth of two for a guard in a callback. In `MultiCoin` only the connections are
bounded, and no property depends on their number; its safety theorems hold for every
bound.

**Fairness.** `CallsReturn` needs weak fairness of the loop iteration and of the
return: sequential code that waits for nothing, which runs on as long as the process
does. Nothing is assumed about callers; no call need ever be made. `Terminates` needs
weak fairness of `Main` and of `Serving`, that is, that the scheduler lets `Run` and
the goroutine of `Serve` take a step they can take; the step of `Serving` that finds
the listener closed is net/http returning from an `Accept` on a closed socket. Nothing
is assumed of signals, clients, handlers or failures.

## 4. The proofs

All proofs are for every value of the constants that meets the modules' assumptions:
any range of uint32, any sets of options, passwords, entries, crypto types, versions.

**`GenerateEntriesProofs`**: `TypeCorrect`, `ChainsStayAscending`,
`ChainsHaveNoHoles`, `ChildIdxNeverOverflows`, `ChangeRefusedForAReason`,
`GenerateEntriesImplementsAddressChain`.
The invariant `IInv` adds to the properties what the loop has achieved so far:
`addressIndices` is ascending, lies between the first child of the call and `j`, and
holds exactly the possible children there; `j` is the first child plus `i`; and first
child plus `num` does not exceed `MaxUint32`. Without it neither `ChainsAscend` nor
`NoHoles` survives the step that appends the result. The refinement maps `used[c]` to
the numbers of `entries[c]`; the loop's steps stutter, the appending return is
`Extend` with the capped count. The key lemma is that one after the last number of
an ascending chain is the first free number above all of them, which justifies
`nextChildIdx`. For `NoMoreExplained` the invariant also says what `num` is while a
call for a change entry runs (`ChangeCallOK`): a loop that ran `num` times and found
nothing had `num = 0`, at the end of the chain, or met one impossible child.

**`WalletProofs`**: `EncryptedIsSealed` (`Spec => []Sealed`) and `GuardsErase`
(`Spec => []TempErased`). `Sealed` alone is not inductive: erasing, copying and
packing keep it only for values that are wallets, and a callback must leave a wallet
behind for the guard to erase. `SafeInv` therefore says of the caller's wallet, of the
copy and of the file that they are none or a wallet (`WalletOK`: all fields, sequences
of entries that each have a secret), and that the copy is a wallet as long as a guard
runs. One lemma per operation says that its result is a wallet, either the one it was
given, or open, or without secrets (`SafeResult`), and that it has the addresses of
the one it was given (`Extends`); `ReturnsSafe` lifts that to the state, one lemma per
action does the rest.

**`WalletStepProofs`**: the action properties `FailuresChangeNothing`
(`FailureChangesNothing`), `EncryptionIsKept` (`EncryptionKept`) and `AddressesStay`
(`AddressesKept`), from `SafeInv` and what each needs besides. A failing operation
returns the wallet it was given (`Keeps`). For the encryption the invariant is
`GuardInv`: the password and the crypto type a guard noted are those of the caller's
wallet, which no step changes while the guard runs, so the second `Lock` restores
them. For the addresses it is `CopyExtends`: the copy a callback works on has the
addresses of the caller's wallet, so putting it in place drops none.

**`WalletFileProofs`**: `FileTypeCorrect`, `SavedDataNotLost` (`NotLost`, assuming
`~RetriesFailed`), `LoadNeverGoesBack`, `OnlyFailuresLeaveTmpFiles`. The invariant
`FileInv` ties the place in `SaveBinary` to the files (`PlacesOK`: from `tmpWritten`
on the tmp file is complete; from `fillTarget` on the target is torn or new), says
that versions only go forward (`Forward`) and that a torn wallet file is backed by a
complete tmp file of a version at least as new (`Backed`). The assumption is needed:
without it the run `WalletFileRetried` loses the data.

**`MultiCoinProofs`**: `MultiCoinTypeCorrect`, `RunAlwaysWaits`, `FilesAreClosed`,
`ExitStatusIsTrue` (`Spec => ImplementsService`). The invariant ties the two
processes together: which places of `Run` the states of the goroutine, of `Serve`, of
the listener and of the WaitGroup go with, that `done` is closed exactly when `Serve`
has returned, that an error in `errC` or in `Run`'s hands before the listener is
closed means that something broke, and which files are open at each place. `RunWaits`
alone is not inductive: the wait for the WaitGroup ends because its counter is that of
the one goroutine. The refinement maps `help` to the flag and `requested` to `quit`;
it needs that an exit with 0 comes of an interrupt and one with 1 of a failure, which
is the part on `errC`.

**`WalletRecoveryProofs`**: `NothingIsEverLost` (`Spec => []Recoverable`),
`SavingRoundTrips` (`[]RoundTrip`), `NothingPanics` (`[]NoPanic`),
`WalletTypeCorrect` (`[]TypeOK`). All four assume `Ordinary`: seeds and passphrases
are texts that JSON can carry, and a collection holds Skycoin's keys, without child
numbers and chains. Without it they are false, as the runs `SeedNotUtf8`,
`CollectionOfBitcoin` and `CollectionOfHDEntry` show, each for the hypothesis it
breaks; so the theorems say that nothing else breaks them. (The fourth hypothesis is
about the model: the value that stands for "absent" is not taken for a record.)
`NoPanic` leaves out xpub wallets because of `XPubLoaded`, and `Fingerprint` and
`PeekChangeEntry` are not among the calls of `Wallet`: the panic of `Fingerprint` on
`entries[0]` is in `GenerateEntries`.

None of the four is inductive. What a wallet opens to depends on what its ciphertext
holds, and what `Load` makes of a file on where the entries stood before. The
invariant `RecoveryInv`, which TLC checked before it was proved, says of the caller's
wallet, of a guard's copy and of a wallet the file was written from that they are
`Good`:

- `Content`: type, coin, bip44 coin and xpub are those of the creation, and each entry
  is that of its public key, which is the key of its place in the key tree;
- `Open`, and then it shows seed, passphrase, the state of the hash chain and every
  secret key, or `Locked`, and then it shows none of them and its ciphertext has them
  (`DataIs`);
- `Split`: the external entries are on chain 0, the change entries on chain 1, both in
  ascending order of their child numbers.

The file is the readable form of a good wallet, one of those `Load` may make of it
(`Saved`). That `Load` gives that wallet back, and no other, is the part the code
leaves to `sort.Slice`: child numbers within a chain are distinct and the chain stood
in the file in their order, so whatever arrangement the sort picks takes its places in
ascending order, and an ascending arrangement of an interval counts through it
(`AscendingCounts`): each entry stays where it stood. That
appending keeps the order rests, as in `GenerateEntriesProofs`, on `nextChildIdx` and
the cap: the first child of a call is above all there are, and the largest uint32 is
never used, so that 1 + the last never wraps. `Lock` is shown to make a `Locked` wallet
of an `Open` one and `Unlock` the reverse, for each type of wallet; every operation is
shown to have an `Outcome`, an error or a good wallet, and `ReturnsRecovers` lifts that
to the state.

**`SharedWalletsProofs`**: `TypeCorrect`, `SharingIsSafe` (`SharedIsLocked`),
`NothingIsLost` (`NothingLost`), `OneWalletAtATime` (`[][OneAtATime]_vars`),
`OnlyOldCopiesDropEntries` (`[][OldCopiesOnly]_vars`), for any number of wallets and
addresses and any depth of guards; the only assumptions are those of the module. What
has to be known of a heap is that it is `Sound`: every wallet is `Complete`, that is,
it has all its secrets in the clear, or all of them sealed and none in the clear; and
two wallets that refer to the same memory are the same struct and locked. Neither half
is inductive alone. An operation that needs an open wallet then works on memory of its
own (`OpenIsAlone`), and the lemmas on `Erase`, `Seal`, `Unseal`, `Append1` and `Clone`
reduce each to a write of one wallet's own memory (`WrittenOK`). The two places where
the code writes to memory that may be shared are harmless for the same reason: the
deferred `Erase` of `Lock` and of `GuardUpdate` comes when the wallet is locked, and
erases what is erased already. For `OldCopiesOnly` the invariant `GuardsInv` says that
the copy of each running guard begins with the addresses the guard saw of its wallet,
also when the wallet of one is the copy of another. That memory allocated anew is
nobody else's (`FreshIsUnused`) is proved of the way `Fresh` picks it, by counting.

**`OrderLemmas`**: a set of natural numbers has a least element (`LeastNatural`), which
follows from the library's theorem that the strict subset relation is well-founded on
finite sets; from it a greatest element of a bounded set, an ascending arrangement of
every bounded set of numbers (`AscendingExists`), so that `InOrder` chooses one, and
that the only ascending arrangement of an interval counts through it
(`AscendingCounts`). A minimal counterexample takes the place of the induction the
provers cannot do.

**Only model-checked.** `CallsReturn` and `Terminates` (liveness under fairness) are
out of the prover's reach. Every invariant and action property of the passing runs is
also a theorem, and so are both refinements. The runs that expect a violation are
counterexamples and have nothing to prove; the hypotheses above exclude what they
show.

## 5. Findings

Places where the code does something else than it, or its comments, say. Each is a
run that TLC ends with a counterexample.

| run | what happens |
|---|---|
| `WalletFileRetried` | `SaveBinary` truncates `<file>.tmp.<hash>` before writing it. If an earlier attempt failed while it wrote the wallet file, that tmp file is the only complete copy; if the repeated attempt fails or the process ends there, no copy is left. "In this way, the wallet data would not be lost" (`file.go:156`). |
| `XPubLoaded` | `ReadableXPubWallet.ToWallet` does not parse the xpub; generating with a loaded wallet dereferences nil. A `Clone` in between hides it. |
| `CollectionOfBitcoin` | `CollectionWallet.AddEntry` compares Skycoin addresses whatever the coin; the second entry of another coin panics. |
| `CollectionOfHDEntry` | `AddEntry` takes any entry that verifies, also one with a child number, such as a bip44 wallet has; `ToReadable` then panics on it, so the collection can never be saved. |
| `CoinSpelling` | `newWallet` chooses the bip44 coin before it normalizes the spelling: coin `"btc"` gives Bitcoin addresses on Skycoin's path, `"ethereum"` those of Ethereum. |
| `SeedNotUtf8` | secrets go through JSON strings; a deterministic wallet's seed that is not UTF-8 comes back changed from `Lock` and `Unlock`. |

The runs that pass are set up outside these cases (UTF-8 seeds, coins in full, collections
of Skycoin keys without child numbers; xpub wallets are not held to `NoPanic`), and
say so in their bounds; the theorems of `WalletRecoveryProofs` exclude the same cases
by their hypotheses.

## 6. What is not modelled

- *`removeBackupFiles`* is not exported and has no caller: no behaviour of the
  program includes it.
- *Handlers, routes, the coin manager and the coins* are stubs without state.
  `address_gen` is a straight line from flags to printed keys.
- *`CatchDebug`* prints a stack trace on SIGUSR1 and changes nothing.
- *The setters* of label, timestamp, version and file name: `SharedWallets` leaves
  them out. After `GuardUpdate` a kept copy and the wallet share the Meta map, so
  `SetLabel` on one shows in the other until either is locked or unlocked again; no
  property is about labels.
- *Data no property tells apart*: file name, label, timestamp, version, notes,
  temporary flag; the spelling of errors; the JSON of the file beyond strings.
- *Power loss*: `Crash` ends the process; finished system calls survive. The code
  does not call fsync, so nothing could be promised beyond that.
- *An open copy a callback keeps* beyond a guard that does not put it back:
  `SharedWallets` drops it. The guard has erased it, so it is a wallet that calls itself
  open and has no secrets; nothing the properties say of wallets is meant for it, and
  until then it shared no memory with any other (`SharedIsLocked`).
- *`-h`*, which is no flag of this program: `flag.Parse` prints the usage and exits
  with 2 when built with the Go of `.travis.yml`, 1.13, as in `ParseFlags`, and with 0
  from Go 1.15 on, as for `help` in `ParseConfig`.
- *Cryptography*: free terms. Equal inputs give equal outputs, different inputs
  different ones, and decryption needs the password; the strength of it is not a
  question for this model.
- *The error of parsing the xpub again in a copy* (a panic in `Clone`): the string
  was parsed when the wallet was created, and nothing changes it.
- *`reset`* of a deterministic wallet has no caller in this repository.
- *Goroutines that share a wallet, processes that share a file*: the code has no lock
  for either and starts neither.

## 7. Plan

In this order; what is done is marked.

1. [done] `GenerateEntries` over `AddressChain`: checked and proved.
2. [done] `WalletData`, `Wallet`: checked and proved.
3. [done] `WalletFile`: checked and proved.
4. [done] `Service`, `ApiServer`, `MultiCoin`: `Run`, `Serve` and `Shutdown` as
   separate processes; checked, safety and refinement proved.
5. [done] `SharedWallets`: the memory of Meta maps and entries; checked and proved.
6. [done] The width of int in the deterministic wallet, the panics of `ToReadable`.
7. That `Wallet`'s one-step generation and its one-step `Save` are what
   `GenerateEntries` and `WalletFile` do in many: refinements to state and to prove.
8. An abstract wallet (its creation, its addresses, open or locked, and what is in the
   file) that `Wallet` implements, with `Recoverable` as its refinement mapping.
9. Handlers and coins, once they are more than stubs: their access to wallets from
   several goroutines is where a lock will be missed.
