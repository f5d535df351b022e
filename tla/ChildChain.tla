----------------------------- MODULE ChildChain -----------------------------
(***************************************************************************)
(* The arithmetic of BIP32 child numbers shared by the bip44 and the xpub  *)
(* wallet (pkg/wallet/bip44_wallet.go, pkg/wallet/xpub_wallet.go): where a *)
(* chain of addresses goes on and how far one call may take it.  Child     *)
(* numbers are uint32, so every sum is taken modulo MaxUint32 + 1.         *)
(***************************************************************************)
EXTENDS Integers, Sequences

CONSTANTS
  MaxUint32,           \* math.MaxUint32, made small for model checking
  FirstHardenedChild   \* bip32.FirstHardenedChild: no public derivation from here on

ASSUME ChildNumberAssumption ==
  /\ MaxUint32 \in Nat \ {0}
  /\ FirstHardenedChild \in 1 .. MaxUint32

Uint32 == 0 .. MaxUint32

\* The sum of two uint32 as the hardware computes it.
WrapAdd(a, b) == (a + b) % (MaxUint32 + 1)

NextChildIdxOfLast(chain) == IF chain = <<>> THEN 0 ELSE chain[Len(chain)]

NextChildIdxSkipsOne(chain) ==
  IF chain = <<>> THEN 0 ELSE WrapAdd(chain[Len(chain)], 2)

\* nextChildIdx: one after the last child number.  It looks at nothing but the
\* last entry: "this assumes that entries are sorted by child number ascending".
NextChildIdx(chain) ==
  IF chain = <<>> THEN 0 ELSE WrapAdd(chain[Len(chain)], 1)

CapNumOffByOne(num, first) ==
  IF MaxUint32 - first < num THEN (MaxUint32 - first) + 1 ELSE num

CapNumOneShort(num, first) ==
  IF MaxUint32 - first <= num THEN (MaxUint32 - first) - 1 ELSE num

\* "Cap `num` in case it would exceed the maximum child index number."
CapNum(num, first) ==
  IF MaxUint32 - first < num THEN MaxUint32 - first ELSE num

\* A chain in the order the wallet keeps it, which is also what makes its child
\* numbers distinct.
Ascending(chain) ==
  \A m, n \in DOMAIN chain : m < n => chain[m] < chain[n]

Numbers(chain) == { chain[n] : n \in DOMAIN chain }
=============================================================================
