----------------------- MODULE GenerateEntriesProofs ------------------------
(***************************************************************************)
(* Proofs about GenerateEntries for every width of the child numbers, both *)
(* wallet types and every set of impossible children.                      *)
(***************************************************************************)
EXTENDS GenerateEntries, TLAPS

-----------------------------------------------------------------------------
(***************************************************************************)
(* Lemmas about the arithmetic and about ascending sequences.              *)
(***************************************************************************)

\* A sum that fits in a uint32 is not changed by the wrap.
LEMMA WrapAddFits ==
  ASSUME NEW a \in Nat, NEW b \in Nat, a + b <= MaxUint32
  PROVE  WrapAdd(a, b) = a + b
BY ChildNumberAssumption, Z3 DEF WrapAdd

\* The cap leaves room for the count up to the largest uint32.
LEMMA CapNumFits ==
  ASSUME NEW n \in Nat, NEW first \in Uint32
  PROVE  /\ CapNum(n, first) \in Nat
         /\ first + CapNum(n, first) <= MaxUint32
         /\ CapNum(n, first) <= n
BY ChildNumberAssumption DEF CapNum, Uint32

\* Child numbers are natural numbers.
LEMMA Uint32InNat == Uint32 \subseteq Nat
BY ChildNumberAssumption DEF Uint32

\* Appending a larger number keeps a sequence ascending.
LEMMA AscendingAppend ==
  ASSUME NEW s \in Seq(Uint32), NEW x \in Uint32, Ascending(s),
         \A n \in DOMAIN s : s[n] < x
  PROVE  /\ Append(s, x) \in Seq(Uint32)
         /\ Ascending(Append(s, x))
         /\ Numbers(Append(s, x)) = Numbers(s) \cup {x}
<1> DEFINE t == Append(s, x)
<1>1. /\ t \in Seq(Uint32)
      /\ Len(t) = Len(s) + 1
      /\ \A n \in 1 .. Len(s) : t[n] = s[n]
      /\ t[Len(s) + 1] = x
  OBVIOUS
<1>2. DOMAIN s = 1 .. Len(s) /\ DOMAIN t = 1 .. Len(s) + 1 /\ Len(s) \in Nat
  BY <1>1
<1>3. \A m \in DOMAIN s : s[m] \in Uint32
  OBVIOUS
<1>4. Ascending(t)
  BY <1>1, <1>2, <1>3 DEF Ascending, Uint32
<1>5. Numbers(t) = Numbers(s) \cup {x}
  BY <1>1, <1>2 DEF Numbers
<1> QED BY <1>1, <1>4, <1>5

\* So does appending an ascending sequence of larger numbers.
LEMMA AscendingConcat ==
  ASSUME NEW s \in Seq(Uint32), NEW t \in Seq(Uint32), Ascending(s), Ascending(t),
         \A m \in DOMAIN s, n \in DOMAIN t : s[m] < t[n]
  PROVE  /\ s \o t \in Seq(Uint32)
         /\ Ascending(s \o t)
         /\ Numbers(s \o t) = Numbers(s) \cup Numbers(t)
<1> DEFINE u == s \o t
<1>1. /\ u \in Seq(Uint32)
      /\ Len(u) = Len(s) + Len(t)
      /\ \A n \in 1 .. Len(s) : u[n] = s[n]
      /\ \A n \in 1 .. Len(t) : u[Len(s) + n] = t[n]
  OBVIOUS
<1>2. /\ DOMAIN s = 1 .. Len(s) /\ DOMAIN t = 1 .. Len(t)
      /\ DOMAIN u = 1 .. Len(s) + Len(t)
      /\ Len(s) \in Nat /\ Len(t) \in Nat
  BY <1>1
<1>3. \A n \in DOMAIN u : n \in DOMAIN s \/ (n - Len(s) \in DOMAIN t /\ u[n] = t[n - Len(s)])
  <2>1. SUFFICES ASSUME NEW n \in DOMAIN u, n \notin DOMAIN s
                 PROVE  n - Len(s) \in DOMAIN t /\ u[n] = t[n - Len(s)]
    OBVIOUS
  <2>2. n - Len(s) \in 1 .. Len(t) /\ Len(s) + (n - Len(s)) = n
    BY <1>2, <2>1
  <2> QED BY <1>1, <1>2, <2>2
<1>4. Ascending(u)
  <2>1. SUFFICES ASSUME NEW m \in DOMAIN u, NEW n \in DOMAIN u, m < n
                 PROVE  u[m] < u[n]
    BY DEF Ascending
  <2>2. CASE n \in DOMAIN s
    BY <1>1, <1>2, <2>1, <2>2 DEF Ascending
  <2>3. CASE m \in DOMAIN s /\ n \notin DOMAIN s
    BY <1>1, <1>2, <1>3, <2>1, <2>3
  <2>4. CASE m \notin DOMAIN s /\ n \notin DOMAIN s
    BY <1>2, <1>3, <2>1, <2>4 DEF Ascending
  <2>5. n \notin DOMAIN s \/ m \in DOMAIN s
    BY <1>2, <2>1
  <2> QED BY <2>2, <2>3, <2>4, <2>5
<1>5. Numbers(u) = Numbers(s) \cup Numbers(t)
  <2>1. \A n \in DOMAIN s : n \in DOMAIN u /\ u[n] = s[n]
    BY <1>1, <1>2
  <2>2. \A n \in DOMAIN t : Len(s) + n \in DOMAIN u /\ u[Len(s) + n] = t[n]
    BY <1>1, <1>2
  <2>3. Numbers(s) \cup Numbers(t) \subseteq Numbers(u)
    BY <2>1, <2>2 DEF Numbers
  <2>4. \A n \in DOMAIN u : u[n] \in Numbers(s) \cup Numbers(t)
    BY <1>3, <2>1 DEF Numbers
  <2>5. Numbers(u) \subseteq Numbers(s) \cup Numbers(t)
    BY <2>4 DEF Numbers
  <2> QED BY <2>3, <2>5
<1> QED BY <1>1, <1>4, <1>5

\* Where an ascending chain below the largest uint32 goes on: right after its
\* largest number, without a wrap.
LEMMA NextChildIdxAbove ==
  ASSUME NEW s \in Seq(Uint32), Ascending(s),
         \A n \in DOMAIN s : s[n] < MaxUint32
  PROVE  /\ NextChildIdx(s) \in Uint32
         /\ \A n \in DOMAIN s : s[n] < NextChildIdx(s)
         /\ NextChildIdx(s) # 0 => NextChildIdx(s) - 1 \in Numbers(s)
         /\ s = <<>> => NextChildIdx(s) = 0
<1>1. CASE s = <<>>
  BY <1>1, ChildNumberAssumption DEF NextChildIdx, Uint32
<1>2. CASE s # <<>>
  <2> DEFINE last == s[Len(s)]
  <2>1. Len(s) \in DOMAIN s /\ DOMAIN s = 1 .. Len(s) /\ Len(s) \in Nat
    BY <1>2
  <2>2. last \in Nat /\ last < MaxUint32
    <3>1. last \in Uint32 BY <2>1
    <3> QED BY <2>1, <3>1, ChildNumberAssumption DEF Uint32
  <2>3. NextChildIdx(s) = last + 1
    BY <1>2, <2>2, WrapAddFits, ChildNumberAssumption DEF NextChildIdx
  <2>4. \A n \in DOMAIN s : s[n] <= last /\ s[n] \in Nat
    <3>1. TAKE n \in DOMAIN s
    <3>2. s[n] \in Uint32 OBVIOUS
    <3>3. n = Len(s) \/ n < Len(s) BY <2>1
    <3> QED BY <2>1, <2>2, <3>2, <3>3, ChildNumberAssumption DEF Ascending, Uint32
  <2>5. last \in Numbers(s)
    BY <2>1 DEF Numbers
  <2> QED BY <1>2, <2>2, <2>3, <2>4, <2>5, ChildNumberAssumption DEF Uint32
<1> QED BY <1>1, <1>2

\* No holes below a given next child number.
Filled(s, imp) ==
  \A k \in 0 .. NextChildIdx(s) - 1 : k \in Numbers(s) \cup imp

\* A sequence that can stand for a chain of the wallet.
GoodChain(s, imp) ==
  /\ s \in Seq(Uint32)
  /\ Ascending(s)
  /\ \A n \in DOMAIN s : s[n] < MaxUint32
  /\ Filled(s, imp)

\* Extending a chain by the possible children of the next consecutive numbers.
LEMMA ChainExtended ==
  ASSUME NEW imp, NEW s, GoodChain(s, imp),
         NEW t \in Seq(Uint32), Ascending(t),
         NEW next \in Uint32, NextChildIdx(s) <= next,
         Numbers(t) = (NextChildIdx(s) .. next - 1) \ imp
  PROVE  /\ GoodChain(s \o t, imp)
         /\ Numbers(s \o t) = Numbers(s) \cup ((NextChildIdx(s) .. next - 1) \ imp)
<1> DEFINE first == NextChildIdx(s)
           u == s \o t
<1>1. /\ s \in Seq(Uint32) /\ Ascending(s)
      /\ \A n \in DOMAIN s : s[n] < MaxUint32
      /\ \A k \in 0 .. first - 1 : k \in Numbers(s) \cup imp
  BY DEF GoodChain, Filled
<1>2. /\ first \in Uint32
      /\ \A n \in DOMAIN s : s[n] < first
  BY <1>1, NextChildIdxAbove
<1>3. \A n \in DOMAIN t : t[n] \in Numbers(t)
  BY DEF Numbers
<1>4. \A n \in DOMAIN t : t[n] \in first .. next - 1
  BY <1>3
<1>5. \A m \in DOMAIN s, n \in DOMAIN t : s[m] < t[n]
  <2> TAKE m \in DOMAIN s, n \in DOMAIN t
  <2>1. s[m] \in Uint32 /\ s[m] < first
    BY <1>1, <1>2
  <2>2. t[n] \in first .. next - 1
    BY <1>4
  <2> QED BY <1>2, <2>1, <2>2, ChildNumberAssumption DEF Uint32
<1>6. /\ u \in Seq(Uint32)
      /\ Ascending(u)
      /\ Numbers(u) = Numbers(s) \cup Numbers(t)
  BY <1>1, <1>5, AscendingConcat
<1>7. \A x \in Numbers(u) : x < next
  <2>1. \A x \in Numbers(s) : x \in Uint32 /\ x < first
    BY <1>1, <1>2 DEF Numbers
  <2>2. \A x \in Numbers(t) : x \in first .. next - 1
    OBVIOUS
  <2> QED BY <1>2, <1>6, <2>1, <2>2, ChildNumberAssumption DEF Uint32
<1>8. \A n \in DOMAIN u : u[n] \in Numbers(u) /\ u[n] \in Uint32
  BY <1>6 DEF Numbers
<1>9. \A n \in DOMAIN u : u[n] < MaxUint32
  BY <1>7, <1>8, ChildNumberAssumption DEF Uint32
<1>10. /\ NextChildIdx(u) \in Uint32
       /\ NextChildIdx(u) # 0 => NextChildIdx(u) - 1 \in Numbers(u)
  BY <1>6, <1>9, NextChildIdxAbove
<1>11. NextChildIdx(u) <= next
  BY <1>7, <1>10, ChildNumberAssumption DEF Uint32
<1>12. \A k \in 0 .. NextChildIdx(u) - 1 : k \in Numbers(u) \cup imp
  <2> TAKE k \in 0 .. NextChildIdx(u) - 1
  <2>1. k \in 0 .. first - 1 \/ k \in first .. next - 1
    BY <1>2, <1>10, <1>11, ChildNumberAssumption DEF Uint32
  <2> QED BY <1>1, <1>6, <2>1
<1> QED BY <1>6, <1>9, <1>12 DEF GoodChain, Filled

-----------------------------------------------------------------------------
(***************************************************************************)
(* The inductive invariant: the chains are good, and while a call runs its *)
(* locals describe exactly the numbers it has tried so far.                *)
(***************************************************************************)
ChainsOK == \A c \in Chains : GoodChain(entries[c], impossible[c])

LoopOK ==
  result = Running =>
    /\ i <= num
    /\ i <= j
    /\ j - i = NextChildIdx(entries[changeIdx])
    /\ j + (num - i) <= MaxUint32
    /\ Ascending(addressIndices)
    /\ Numbers(addressIndices) = ((j - i) .. (j - 1)) \ impossible[changeIdx]
    /\ Public /\ i > 0 => j <= FirstHardenedChild
    /\ call = "GenerateAddresses" => changeIdx = ExternalChain
    /\ call = "GenerateChangeEntry" => changeIdx = ChangeChain /\ num <= 1

IInv == TypeOK /\ ChainsOK /\ LoopOK /\ result # "childIdx overflow"

\* A new wallet has empty chains.
LEMMA InitIInv == Init => IInv
<1> SUFFICES ASSUME Init PROVE IInv
  OBVIOUS
<1>1. ExternalChain \in Chains /\ 0 \in Uint32
  BY ChildNumberAssumption DEF Chains, Uint32
<1>2. TypeOK
  <2>1. <<>> \in Seq(Uint32)
    OBVIOUS
  <2>2. entries \in [Chains -> Seq(Uint32)]
    BY <2>1 DEF Init
  <2>3. addressIndices \in Seq(Uint32)
    BY <2>1 DEF Init
  <2>4. call \in Calls /\ result \in Results /\ encrypted \in BOOLEAN
    BY DEF Init, Calls, Results
  <2> QED BY <1>1, <2>2, <2>3, <2>4 DEF Init, TypeOK
<1>3. ASSUME NEW c \in Chains PROVE GoodChain(entries[c], impossible[c])
  <2>1. entries[c] = <<>>
    BY DEF Init
  <2>2. <<>> \in Seq(Uint32) /\ DOMAIN <<>> = {}
    OBVIOUS
  <2>3. NextChildIdx(<<>>) = 0 /\ 0 .. 0 - 1 = {}
    BY DEF NextChildIdx
  <2> QED BY <2>1, <2>2, <2>3 DEF GoodChain, Filled, Ascending
<1> QED BY <1>2, <1>3 DEF Init, IInv, ChainsOK, LoopOK, Running

\* Starting a call.
LEMMA BeginIInv ==
  ASSUME IInv, NEW op \in Calls, NEW chain \in Chains, NEW n \in Nat,
         NEW first, first = NextChildIdx(entries[chain]),
         op = "GenerateAddresses" => chain = ExternalChain,
         op = "GenerateChangeEntry" => chain = ChangeChain /\ n <= 1,
         Begin(op, chain, n, first)
  PROVE  IInv'
<1>1. TypeOK /\ ChainsOK /\ LoopOK
  BY DEF IInv
<1>2. /\ first \in Uint32
      /\ CapNum(n, first) \in Nat
      /\ first + CapNum(n, first) <= MaxUint32
      /\ CapNum(n, first) <= n
  <2>1. GoodChain(entries[chain], impossible[chain])
    BY <1>1 DEF ChainsOK
  <2>2. first \in Uint32
    BY <2>1, NextChildIdxAbove DEF GoodChain
  <2> QED BY <2>2, CapNumFits
<1>3. UNCHANGED <<impossible, unaddable, brokenChain, encrypted, entries>>
  BY DEF Begin, Fail, seedVars
<1>4. ChainsOK'
  BY <1>1, <1>3 DEF ChainsOK, GoodChain, Filled
<1>5. CASE result' = Running
  <2>1. /\ call' = op /\ changeIdx' = chain /\ num' = CapNum(n, first)
        /\ i' = 0 /\ j' = first /\ addressIndices' = <<>>
    BY <1>5 DEF Begin, Fail, Running
  <2>2. TypeOK'
    BY <1>1, <1>2, <1>3, <1>5, <2>1, ChildNumberAssumption DEF TypeOK, Uint32, Results
  <2>3. Ascending(<<>>) /\ Numbers(<<>>) = {}
    BY DEF Ascending, Numbers
  <2>4. (first .. first - 1) = {}
    BY <1>2, ChildNumberAssumption DEF Uint32
  <2>5. LoopOK'
    BY <1>2, <1>3, <2>1, <2>3, <2>4, ChildNumberAssumption DEF LoopOK, Uint32
  <2> QED BY <1>4, <1>5, <2>2, <2>5 DEF IInv, Running
<1>6. CASE result' # Running
  <2>1. /\ call' = op /\ UNCHANGED loopVars
        /\ result' \in {"panic", "wallet encrypted", "num too large", "chain node failed"}
    BY <1>6 DEF Begin, Fail
  <2>2. TypeOK'
    BY <1>1, <1>3, <2>1 DEF TypeOK, Results, Errors, loopVars
  <2> QED BY <1>4, <1>6, <2>1, <2>2 DEF IInv, LoopOK
<1> QED BY <1>5, <1>6

\* One iteration of the loop.
LEMMA IterateIInv == ASSUME IInv, Iterate PROVE IInv'
<1>1. TypeOK /\ ChainsOK /\ LoopOK
  BY DEF IInv
<1>2. result = Running /\ i < num
  BY DEF Iterate, Advance, DeriveKey, SkipImpossible, DeriveFailed, InLoop
<1>3. /\ i \in Nat /\ j \in Nat /\ num \in Nat
      /\ j < MaxUint32
      /\ WrapAdd(j, 1) = j + 1
  <2>1. i \in Nat /\ j \in Nat /\ num \in Nat
    BY <1>1, ChildNumberAssumption DEF TypeOK, Uint32
  <2>2. j + (num - i) <= MaxUint32
    BY <1>1, <1>2 DEF LoopOK
  <2>3. j + 1 <= MaxUint32
    BY <1>2, <2>1, <2>2, ChildNumberAssumption
  <2> QED BY <2>1, <2>3, WrapAddFits, ChildNumberAssumption
<1>4. CASE DeriveFailed
  <2>1. /\ UNCHANGED <<call, loopVars, impossible, unaddable, brokenChain, encrypted, entries>>
        /\ result' \in {"panic", "child failed"}
    <3>1. /\ UNCHANGED <<call, loopVars>>
          /\ Fail("child failed")
      <4>1. ~(WrapAdd(j, 1) < j)
        BY <1>3
      <4> QED BY <1>4, <4>1, Zenon DEF DeriveFailed
    <3> QED BY <3>1 DEF Fail, seedVars
  <2>2. TypeOK' /\ ChainsOK'
    BY <1>1, <2>1 DEF TypeOK, ChainsOK, GoodChain, Filled, Results, Errors, loopVars
  <2> QED BY <2>1, <2>2 DEF IInv, LoopOK, Running
<1>5. CASE DeriveKey \/ SkipImpossible
  <2>1. /\ UNCHANGED <<call, impossible, unaddable, brokenChain, encrypted, entries, changeIdx,
                       num, result>>
        /\ j' = j + 1 /\ i' = i + 1
    BY <1>3, <1>5 DEF DeriveKey, SkipImpossible, Advance, seedVars
  <2>2. i' \in Uint32 /\ j' \in Uint32
    BY <1>1, <1>2, <1>3, <2>1, ChildNumberAssumption DEF TypeOK, Uint32
  <2>3. ChainsOK'
    BY <1>1, <2>1 DEF ChainsOK, GoodChain, Filled
  <2> DEFINE first == NextChildIdx(entries[changeIdx])
  <2>4. /\ j - i = first /\ first \in Uint32 /\ i <= j
        /\ Ascending(addressIndices)
        /\ addressIndices \in Seq(Uint32)
        /\ Numbers(addressIndices) = (first .. j - 1) \ impossible[changeIdx]
    <3>1. changeIdx \in Chains BY <1>1 DEF TypeOK
    <3>2. first \in Uint32
      BY <1>1, <3>1, NextChildIdxAbove DEF ChainsOK, GoodChain
    <3> QED BY <1>1, <1>2, <3>2 DEF LoopOK, TypeOK
  <2>5. (first .. j) = (first .. j - 1) \cup {j} /\ j \notin (first .. j - 1)
    BY <1>3, <2>4, ChildNumberAssumption DEF Uint32
  <2>6. /\ addressIndices' \in Seq(Uint32)
        /\ Ascending(addressIndices')
        /\ Numbers(addressIndices') = (first .. j) \ impossible[changeIdx]
    <3>1. CASE DeriveKey
      <4>1. addressIndices' = Append(addressIndices, j) /\ j \notin impossible[changeIdx]
        BY <1>3, <2>1, <3>1 DEF DeriveKey, Derive
      <4>2. \A n \in DOMAIN addressIndices : addressIndices[n] < j
        <5>1. \A x \in Numbers(addressIndices) : x < j
          BY <1>3, <2>4, ChildNumberAssumption DEF Uint32
        <5> QED BY <5>1 DEF Numbers
      <4>3. j \in Uint32
        BY <1>1 DEF TypeOK
      <4>4. /\ Append(addressIndices, j) \in Seq(Uint32)
            /\ Ascending(Append(addressIndices, j))
            /\ Numbers(Append(addressIndices, j)) = Numbers(addressIndices) \cup {j}
        BY <2>4, <4>2, <4>3, AscendingAppend
      <4> QED BY <2>4, <2>5, <4>1, <4>4
    <3>2. CASE SkipImpossible
      <4>1. addressIndices' = addressIndices /\ j \in impossible[changeIdx]
        BY <3>2 DEF SkipImpossible, Derive
      <4> QED BY <2>4, <2>5, <4>1
    <3> QED BY <1>5, <3>1, <3>2
  <2>7. Public => j' <= FirstHardenedChild
    BY <1>3, <1>5, <2>1, ChildNumberAssumption DEF DeriveKey, SkipImpossible, Derive
  <2>8. TypeOK'
    BY <1>1, <2>1, <2>2, <2>6 DEF TypeOK
  <2>9. LoopOK'
    <3>1. /\ i' <= num' /\ i' <= j' /\ j' - i' = first /\ j' - 1 = j
          /\ j' + (num' - i') <= MaxUint32
      <4>1. /\ i \in Nat /\ j \in Nat /\ num \in Nat /\ MaxUint32 \in Nat
            /\ i < num /\ i <= j
            /\ j + (num - i) <= MaxUint32
        BY <1>1, <1>2, <1>3, <2>4, ChildNumberAssumption DEF LoopOK
      <4>2. i' = i + 1 /\ j' = j + 1 /\ num' = num /\ j - i = first
        BY <2>1, <2>4
      <4> HIDE DEF first
      <4> QED BY <4>1, <4>2
    <3> QED BY <1>1, <1>2, <2>1, <2>6, <2>7, <3>1 DEF LoopOK
  <2> QED BY <1>2, <2>1, <2>3, <2>8, <2>9 DEF IInv, Running
<1> QED BY <1>4, <1>5 DEF Iterate

\* What the loop found when it ends is the next part of the chain.
LEMMA LoopResult ==
  ASSUME IInv, Returning
  PROVE  LET s == entries[changeIdx] IN
         /\ changeIdx \in Chains
         /\ NextChildIdx(s) + num = j
         /\ GoodChain(s \o addressIndices, impossible[changeIdx])
         /\ Numbers(s \o addressIndices)
              = Numbers(s) \cup ((NextChildIdx(s) .. j - 1) \ impossible[changeIdx])
         /\ Public /\ num > 0 => j <= FirstHardenedChild
<1> DEFINE s == entries[changeIdx]
<1>1. /\ changeIdx \in Chains
      /\ GoodChain(s, impossible[changeIdx])
      /\ addressIndices \in Seq(Uint32)
      /\ i \in Nat /\ j \in Uint32 /\ j \in Nat /\ num \in Nat
  <2>1. TypeOK /\ ChainsOK BY DEF IInv
  <2>2. changeIdx \in Chains /\ addressIndices \in Seq(Uint32)
    BY <2>1 DEF TypeOK
  <2>3. i \in Uint32 /\ j \in Uint32 /\ num \in Uint32
    BY <2>1 DEF TypeOK
  <2> QED BY <2>1, <2>2, <2>3, Uint32InNat DEF ChainsOK
<1>2. /\ i = num
      /\ i <= j
      /\ j - i = NextChildIdx(s)
      /\ Ascending(addressIndices)
      /\ Numbers(addressIndices) = ((j - i) .. (j - 1)) \ impossible[changeIdx]
      /\ Public /\ i > 0 => j <= FirstHardenedChild
  <2>1. result = Running /\ i >= num BY DEF Returning
  <2>2. LoopOK BY DEF IInv
  <2> QED BY <1>1, <2>1, <2>2 DEF LoopOK
<1>3. NextChildIdx(s) <= j /\ NextChildIdx(s) + num = j
  BY <1>1, <1>2
<1>4. /\ GoodChain(s \o addressIndices, impossible[changeIdx])
      /\ Numbers(s \o addressIndices)
           = Numbers(s) \cup ((NextChildIdx(s) .. j - 1) \ impossible[changeIdx])
  BY <1>1, <1>2, <1>3, ChainExtended
<1> QED BY <1>1, <1>2, <1>3, <1>4

\* A change entry is the single number the loop found.
LEMMA ChangeEntryResult ==
  ASSUME IInv, Returning, call = "GenerateChangeEntry", addressIndices # <<>>
  PROVE  num = 1 /\ Append(entries[ChangeChain], addressIndices[1])
                      = entries[ChangeChain] \o addressIndices
<1>1. /\ i \in Nat /\ j \in Nat /\ num \in Nat
      /\ addressIndices \in Seq(Uint32)
      /\ changeIdx = ChangeChain /\ num <= 1 /\ i = num /\ i <= j
      /\ Ascending(addressIndices)
      /\ Numbers(addressIndices) = ((j - i) .. (j - 1)) \ impossible[changeIdx]
  <2>1. TypeOK /\ LoopOK /\ result = Running /\ i >= num
    BY DEF IInv, Returning
  <2>2. i \in Nat /\ j \in Nat /\ num \in Nat /\ addressIndices \in Seq(Uint32)
    BY <2>1, Uint32InNat DEF TypeOK
  <2> QED BY <2>1, <2>2 DEF LoopOK
<1>2. DOMAIN addressIndices = 1 .. Len(addressIndices) /\ Len(addressIndices) \in Nat \ {0}
  BY <1>1
<1>3. addressIndices[1] \in Numbers(addressIndices)
  BY <1>2 DEF Numbers
<1>4. num = 1
  <2>1. num = 0 => (j - i) .. (j - 1) = {}
    BY <1>1
  <2> QED BY <1>1, <1>3, <2>1
<1>5. \A n \in DOMAIN addressIndices : addressIndices[n] = j - 1
  <2>1. (j - i) .. (j - 1) = {j - 1}
    BY <1>1, <1>4
  <2> QED BY <1>1, <2>1 DEF Numbers
<1>6. Len(addressIndices) = 1
  <2>1. SUFFICES ASSUME Len(addressIndices) > 1 PROVE FALSE
    BY <1>2
  <2>2. 1 \in DOMAIN addressIndices /\ 2 \in DOMAIN addressIndices
    BY <1>2, <2>1
  <2>3. addressIndices[1] < addressIndices[2]
    BY <1>1, <2>2 DEF Ascending
  <2> QED BY <1>1, <1>5, <2>2, <2>3
<1>7. addressIndices = <<addressIndices[1]>>
  BY <1>1, <1>6
<1>8. entries[ChangeChain] \in Seq(Uint32)
  BY <1>1 DEF IInv, TypeOK
<1>9. addressIndices[1] \in Uint32
  BY <1>1, <1>2
<1>10. Append(entries[ChangeChain], addressIndices[1])
         = entries[ChangeChain] \o <<addressIndices[1]>>
  BY <1>8, <1>9
<1> QED BY <1>4, <1>7, <1>10

\* Handing the entries to the caller.
LEMMA ReturnIInv == ASSUME IInv, Return PROVE IInv'
<1>1. TypeOK /\ ChainsOK /\ LoopOK /\ Returning
  BY DEF IInv, Return, ReturnGenerateAddresses, ReturnPeekChangeEntry,
         ReturnGenerateChangeEntry, ReturnFingerprint
<1>2. /\ UNCHANGED <<impossible, unaddable, brokenChain, encrypted, call, changeIdx, num, i, j,
                   addressIndices>>
      /\ result' \in {"ok", "panic", "no more change addresses"}
  BY DEF Return, ReturnGenerateAddresses, ReturnPeekChangeEntry, ReturnGenerateChangeEntry,
         ReturnFingerprint, Stays, seedVars, loopVars
<1>3. changeIdx \in Chains /\ GoodChain(entries[changeIdx] \o addressIndices, impossible[changeIdx])
  BY <1>1, LoopResult
<1>4. /\ entries' \in [Chains -> Seq(Uint32)]
      /\ \A c \in Chains : GoodChain(entries'[c], impossible[c])
  <2>1. CASE UNCHANGED entries
    BY <1>1, <2>1 DEF TypeOK, ChainsOK
  <2>2. CASE entries' = [entries EXCEPT ![changeIdx] = @ \o addressIndices]
    <3>1. entries[changeIdx] \o addressIndices \in Seq(Uint32)
      BY <1>3 DEF GoodChain
    <3> QED BY <1>1, <1>3, <2>2, <3>1 DEF TypeOK, ChainsOK
  <2>3. CASE ReturnGenerateAddresses
    <3>1. changeIdx = ExternalChain
      BY <1>1, <2>3 DEF ReturnGenerateAddresses, LoopOK, Returning
    <3> QED BY <2>2, <2>3, <3>1 DEF ReturnGenerateAddresses
  <2>4. CASE ReturnGenerateChangeEntry /\ addressIndices # <<>>
    <3>1. changeIdx = ChangeChain
      BY <1>1, <2>4 DEF ReturnGenerateChangeEntry, LoopOK, Returning
    <3>2. Append(entries[ChangeChain], addressIndices[1])
            = entries[ChangeChain] \o addressIndices
      BY <1>1, <2>4, ChangeEntryResult DEF ReturnGenerateChangeEntry
    <3>3. entries' = [entries EXCEPT ![changeIdx] = @ \o addressIndices]
      BY <2>4, <3>1, <3>2 DEF ReturnGenerateChangeEntry
    <3> QED BY <2>2, <3>3
  <2> QED BY <2>1, <2>3, <2>4 DEF Return, ReturnPeekChangeEntry, ReturnGenerateChangeEntry,
                                  ReturnFingerprint
<1>5. TypeOK'
  BY <1>1, <1>2, <1>4 DEF TypeOK, Results, Errors
<1>6. ChainsOK'
  BY <1>2, <1>4 DEF ChainsOK
<1> QED BY <1>2, <1>5, <1>6 DEF IInv, LoopOK, Running

\* Every step keeps the invariant.
LEMMA NextIInv == IInv /\ [Next]_vars => IInv'
<1> SUFFICES ASSUME IInv, [Next]_vars PROVE IInv'
  OBVIOUS
<1>1. CASE GenerateAddresses
  <2>1. PICK n \in 0 .. MaxNum :
          Begin("GenerateAddresses", ExternalChain, n, NextChildIdx(entries[ExternalChain]))
    BY <1>1 DEF GenerateAddresses
  <2>2. n \in Nat /\ ExternalChain \in Chains
    BY WalletKindAssumption DEF Chains
  <2> QED BY <2>1, <2>2, BeginIInv DEF Calls
<1>2. CASE PeekChangeEntry
  BY <1>2, BeginIInv DEF PeekChangeEntry, Calls
<1>3. CASE GenerateChangeEntry
  BY <1>3, BeginIInv DEF GenerateChangeEntry, Calls
<1>4. CASE Fingerprint
  <2>1. ExternalChain \in Chains /\ NextChildIdx(entries[ExternalChain]) = 0
    BY <1>4 DEF Fingerprint, Chains, NextChildIdx
  <2> QED BY <1>4, <2>1, BeginIInv DEF Fingerprint, Calls
<1>5. CASE Iterate
  BY <1>5, IterateIInv
<1>6. CASE Return
  BY <1>6, ReturnIInv
<1>7. CASE SwitchEncryption
  BY <1>7 DEF SwitchEncryption, IInv, TypeOK, ChainsOK, LoopOK, GoodChain, Filled, seedVars,
              loopVars
<1>8. CASE UNCHANGED vars
  BY <1>8 DEF vars, IInv, TypeOK, ChainsOK, LoopOK, GoodChain, Filled
<1> QED BY <1>1, <1>2, <1>3, <1>4, <1>5, <1>6, <1>7, <1>8 DEF Next

\* IInv is an invariant of the specification.
LEMMA SpecIInv == Spec => []IInv
BY InitIInv, NextIInv, PTL DEF Spec

-----------------------------------------------------------------------------
(***************************************************************************)
(* The theorems.                                                           *)
(***************************************************************************)

\* The variables keep their types whatever the width of the child numbers.
THEOREM TypeCorrect == Spec => []TypeOK
<1>1. IInv => TypeOK
  BY DEF IInv
<1> QED BY <1>1, SpecIInv, PTL

\* No child number is ever used twice, and nextChildIdx may look at the last
\* entry alone.
THEOREM ChainsStayAscending == Spec => []ChainsAscend
<1>1. IInv => ChainsAscend
  BY DEF IInv, ChainsOK, GoodChain, ChainsAscend
<1> QED BY <1>1, SpecIInv, PTL

\* Below the next child number only impossible children have no entry.
THEOREM ChainsHaveNoHoles == Spec => []NoHoles
<1>1. IInv => NoHoles
  BY DEF IInv, ChainsOK, GoodChain, Filled, NoHoles
<1> QED BY <1>1, SpecIInv, PTL

\* The overflow branch of the loop is dead and the largest uint32 is never a
\* child number: the cap on num is exactly tight enough.
THEOREM ChildIdxNeverOverflows == Spec => []NeverOverflows
<1>1. IInv => NeverOverflows
  <2> SUFFICES ASSUME IInv, NEW c \in Chains, MaxUint32 \in Numbers(entries[c]) PROVE FALSE
    BY DEF NeverOverflows, IInv
  <2>1. PICK n \in DOMAIN entries[c] : entries[c][n] = MaxUint32
    BY DEF Numbers
  <2>2. entries[c][n] < MaxUint32
    BY DEF IInv, ChainsOK, GoodChain
  <2> QED BY <2>1, <2>2, ChildNumberAssumption
<1> QED BY <1>1, SpecIInv, PTL

-----------------------------------------------------------------------------
(***************************************************************************)
(* The loop implements AddressChain: the numbers of each chain move as the *)
(* abstract chain does, and only when a call returns its entries.          *)
(***************************************************************************)

\* The abstract and the concrete notion of where a chain goes on agree.
LEMMA FirstFreeIsNextChildIdx ==
  ASSUME NEW s, NEW imp, GoodChain(s, imp)
  PROVE  Promise!FirstFree(Numbers(s)) = NextChildIdx(s)
<1> DEFINE S == Numbers(s)
           Free(n) == (\A k \in S : k < n) /\ (n = 0 \/ n - 1 \in S)
<1>1. s \in Seq(Uint32) /\ Ascending(s) /\ \A n \in DOMAIN s : s[n] < MaxUint32
  BY DEF GoodChain
<1>2. NextChildIdx(s) \in Uint32 /\ Free(NextChildIdx(s))
  BY <1>1, NextChildIdxAbove DEF Numbers
<1>3. S \subseteq Nat
  <2>1. \A n \in DOMAIN s : s[n] \in Uint32
    BY <1>1
  <2> QED BY <2>1, Uint32InNat DEF Numbers
<1>4. ASSUME NEW m \in Uint32, NEW n \in Uint32, Free(m), Free(n) PROVE m = n
  <2>1. m \in Nat /\ n \in Nat
    BY Uint32InNat
  <2>2. m = 0 \/ m - 1 < n
    BY <1>4
  <2>3. n = 0 \/ n - 1 < m
    BY <1>4
  <2>4. m = 0 => S = {} \/ n # 0
    BY <1>3, <1>4
  <2> QED BY <1>3, <1>4, <2>1, <2>2, <2>3
<1>5. Promise!FirstFree(S) = CHOOSE n \in Uint32 : Free(n)
  BY DEF Promise!FirstFree, Uint32
<1> QED BY <1>2, <1>4, <1>5

\* Appending what the loop found is an extension of the abstract chain, or
\* changes nothing when the loop had nothing to do.
LEMMA AppendImplements ==
  ASSUME IInv, Returning, UNCHANGED impossible,
         entries' = [entries EXCEPT ![changeIdx] = @ \o addressIndices]
  PROVE  [Promise!Next]_(Promise!vars)
<1> DEFINE s     == entries[changeIdx]
           first == NextChildIdx(s)
           abs   == [c \in Chains |-> Numbers(entries[c])]
           new   == (first .. j - 1) \ impossible[changeIdx]
<1>1. /\ changeIdx \in Chains
      /\ first + num = j
      /\ Numbers(s \o addressIndices) = Numbers(s) \cup new
      /\ Public /\ num > 0 => j <= FirstHardenedChild
  BY LoopResult
<1>2. /\ entries \in [Chains -> Seq(Uint32)]
      /\ num \in Nat /\ num <= MaxUint32 /\ j \in Nat /\ j <= MaxUint32
      /\ GoodChain(s, impossible[changeIdx])
  <2>1. TypeOK /\ ChainsOK
    BY DEF IInv
  <2>2. num \in Uint32 /\ j \in Uint32 /\ entries \in [Chains -> Seq(Uint32)]
    BY <2>1 DEF TypeOK
  <2>3. num \in Nat /\ num <= MaxUint32 /\ j \in Nat /\ j <= MaxUint32
    BY <2>2, ChildNumberAssumption DEF Uint32
  <2> QED BY <1>1, <2>1, <2>2, <2>3 DEF ChainsOK
<1>3. first \in Nat
  BY <1>2, NextChildIdxAbove, Uint32InNat DEF GoodChain
<1>4. abs' = [abs EXCEPT ![changeIdx] = @ \cup new]
  <2>1. \A c \in Chains : entries'[c] = IF c = changeIdx THEN s \o addressIndices ELSE entries[c]
    BY <1>1, <1>2
  <2>2. \A c \in Chains : Numbers(entries'[c])
          = IF c = changeIdx THEN Numbers(s) \cup new ELSE Numbers(entries[c])
    <3> TAKE c \in Chains
    <3> HIDE DEF new, s
    <3>1. CASE c = changeIdx
      BY <1>1, <2>1, <3>1
    <3>2. CASE c # changeIdx
      BY <2>1, <3>2
    <3> QED BY <3>1, <3>2
  <2>3. abs' = [c \in Chains |-> Numbers(entries'[c])]
    OBVIOUS
  <2>4. abs[changeIdx] = Numbers(s)
    BY <1>1
  <2> HIDE DEF new, s
  <2> QED BY <1>1, <2>2, <2>3, <2>4
<1>5. CASE num = 0
  <2>1. new = {}
    BY <1>1, <1>2, <1>3, <1>5
  <2>2. abs' = abs
    BY <1>1, <1>4, <2>1
  <2> QED BY <2>2 DEF Promise!vars
<1>6. CASE num # 0
  <2>1. Promise!FirstFree(abs[changeIdx]) = first
    <3>1. abs[changeIdx] = Numbers(s)
      BY <1>1
    <3>2. Promise!FirstFree(Numbers(s)) = first
      BY <1>2, FirstFreeIsNextChildIdx
    <3> QED BY <3>1, <3>2
  <2>2. first + num <= Promise!Limit /\ first + num - 1 = j - 1
    <3>1. j <= Promise!Limit
      <4>1. CASE Public
        BY <1>1, <1>2, <1>6, <4>1 DEF Promise!Limit
      <4>2. CASE ~Public
        BY <1>2, <4>2 DEF Promise!Limit
      <4> QED BY <4>1, <4>2
    <3>2. first + num - 1 = j - 1
      <4> HIDE DEF first
      <4>1. first + num = j /\ first \in Nat /\ num \in Nat /\ j \in Nat
        BY <1>1, <1>2, <1>3
      <4> QED BY <4>1
    <3>3. first + num <= Promise!Limit
      BY <1>1, <3>1, Zenon
    <3> QED BY <3>2, <3>3
  <2>3. Promise!Extend(changeIdx, num)
    BY <1>4, <2>1, <2>2 DEF Promise!Extend
  <2>4. num \in 1 .. MaxUint32
    BY <1>2, <1>6, ChildNumberAssumption
  <2> QED BY <1>1, <2>3, <2>4 DEF Promise!Next
<1> QED BY <1>5, <1>6

\* Whatever the loop, the callers and the seed do, a chain only grows by the
\* possible ones of the next consecutive child numbers, all or nothing per call.
THEOREM GenerateEntriesImplementsAddressChain == Spec => ImplementsAddressChain
<1>1. Init => Promise!Init
  <2> SUFFICES ASSUME Init PROVE Promise!Init
    OBVIOUS
  <2>1. \A c \in Chains : Numbers(entries[c]) = {}
    BY DEF Init, Numbers
  <2> QED BY <2>1 DEF Init, Promise!Init, Uint32
<1>2. IInv /\ [Next]_vars => [Promise!Next]_(Promise!vars)
  <2> SUFFICES ASSUME IInv, [Next]_vars PROVE [Promise!Next]_(Promise!vars)
    OBVIOUS
  <2>1. CASE UNCHANGED <<impossible, entries>>
    BY <2>1 DEF Promise!vars
  <2>2. CASE ReturnGenerateAddresses
    <3>1. changeIdx = ExternalChain
      BY <2>2 DEF ReturnGenerateAddresses, IInv, LoopOK, Returning
    <3> QED BY <2>2, <3>1, AppendImplements DEF ReturnGenerateAddresses, Stays, seedVars
  <2>3. CASE ReturnGenerateChangeEntry
    <3>1. changeIdx = ChangeChain
      BY <2>3 DEF ReturnGenerateChangeEntry, IInv, LoopOK, Returning
    <3>2. CASE addressIndices = <<>>
      BY <2>1, <2>3, <3>2 DEF ReturnGenerateChangeEntry, Stays, seedVars
    <3>3. CASE addressIndices # <<>>
      BY <2>3, <3>1, <3>3, ChangeEntryResult, AppendImplements
         DEF ReturnGenerateChangeEntry, Stays, seedVars
    <3> QED BY <3>2, <3>3
  <2>4. Next => \/ UNCHANGED <<impossible, entries>>
                \/ ReturnGenerateAddresses \/ ReturnGenerateChangeEntry
    BY DEF Next, GenerateAddresses, PeekChangeEntry, GenerateChangeEntry, Fingerprint, Begin,
           Fail, Iterate, DeriveKey, SkipImpossible, DeriveFailed, Advance, Return,
           ReturnPeekChangeEntry, ReturnFingerprint, Stays, SwitchEncryption, seedVars
  <2> QED BY <2>1, <2>2, <2>3, <2>4 DEF vars
<1> QED BY <1>1, <1>2, SpecIInv, PTL DEF Spec, Promise!Spec, ImplementsAddressChain

-----------------------------------------------------------------------------
(***************************************************************************)
(* What "no more change addresses" means.                                  *)
(***************************************************************************)

\* While a call for a change entry runs, it tries one child, or none at the end.
ChangeCallOK ==
  result = Running /\ call \in {"PeekChangeEntry", "GenerateChangeEntry"} =>
    changeIdx = ChangeChain /\ num = CapNum(1, NextChildIdx(entries[ChangeChain]))

NoMoreInv == ChangeCallOK /\ NoMoreExplained

\* A loop that found nothing had no child to try or an impossible one.
LEMMA NothingFound ==
  ASSUME IInv, ChangeCallOK, Returning, addressIndices = <<>>,
         call \in {"PeekChangeEntry", "GenerateChangeEntry"}
  PROVE  LET next == NextChildIdx(entries[ChangeChain]) IN
         next = MaxUint32 \/ next \in impossible[ChangeChain]
<1> DEFINE next == NextChildIdx(entries[ChangeChain])
<1>1. changeIdx = ChangeChain /\ num = CapNum(1, next)
  BY DEF ChangeCallOK, Returning
<1>2. /\ i \in Nat /\ j \in Nat /\ num \in Nat
      /\ i = num /\ i <= j /\ j - i = next
      /\ Numbers(addressIndices) = ((j - i) .. (j - 1)) \ impossible[changeIdx]
  <2>1. TypeOK /\ LoopOK /\ result = Running /\ i >= num
    BY DEF IInv, Returning
  <2>2. i \in Nat /\ j \in Nat /\ num \in Nat
    BY <2>1, Uint32InNat DEF TypeOK
  <2> QED BY <1>1, <2>1, <2>2 DEF LoopOK
<1>3. Numbers(addressIndices) = {}
  BY DEF Numbers
<1>4. next \in Uint32 /\ MaxUint32 \in Nat
  <2>1. changeIdx \in Chains /\ GoodChain(entries[changeIdx], impossible[changeIdx])
    BY DEF IInv, TypeOK, ChainsOK
  <2> QED BY <1>1, <2>1, NextChildIdxAbove, ChildNumberAssumption DEF GoodChain
<1> HIDE DEF next
<1>5. next = MaxUint32 \/ num = 1
  BY <1>1, <1>4 DEF CapNum, Uint32
<1>6. CASE num = 1
  <2>1. next \in (j - i) .. (j - 1)
    BY <1>2, <1>4, <1>6
  <2> QED BY <1>1, <1>2, <1>3, <2>1 DEF next
<1> QED BY <1>5, <1>6 DEF next

LEMMA NextNoMoreInv == IInv /\ NoMoreInv /\ [Next]_vars => NoMoreInv'
<1> SUFFICES ASSUME IInv, NoMoreInv, [Next]_vars PROVE NoMoreInv'
  OBVIOUS
<1>1. CASE GenerateAddresses \/ Fingerprint
  <2>1. call' \in {"GenerateAddresses", "Fingerprint"}
    BY <1>1 DEF GenerateAddresses, Fingerprint, Begin
  <2>2. result' # "no more change addresses"
    BY <1>1 DEF GenerateAddresses, Fingerprint, Begin, Fail, Running
  <2> QED BY <2>1, <2>2 DEF NoMoreInv, ChangeCallOK, NoMoreExplained
<1>2. CASE PeekChangeEntry \/ GenerateChangeEntry
  <2>1. result' # "no more change addresses"
    BY <1>2 DEF PeekChangeEntry, GenerateChangeEntry, Begin, Fail, Running
  <2>2. result' = Running =>
          /\ changeIdx' = ChangeChain
          /\ num' = CapNum(1, NextChildIdx(entries[ChangeChain]))
          /\ entries' = entries
    BY <1>2 DEF PeekChangeEntry, GenerateChangeEntry, Begin, Fail, Running
  <2> QED BY <2>1, <2>2 DEF NoMoreInv, ChangeCallOK, NoMoreExplained
<1>3. CASE DeriveKey \/ SkipImpossible \/ SwitchEncryption \/ UNCHANGED vars
  <2>1. UNCHANGED <<impossible, entries, call, result, changeIdx, num>>
    BY <1>3 DEF DeriveKey, SkipImpossible, Advance, SwitchEncryption, seedVars, loopVars, vars
  <2> QED BY <2>1 DEF NoMoreInv, ChangeCallOK, NoMoreExplained
<1>4. CASE DeriveFailed
  <2>1. result' \in {"childIdx overflow", "child failed", "panic"}
    BY <1>4 DEF DeriveFailed, Fail
  <2> QED BY <2>1 DEF NoMoreInv, ChangeCallOK, NoMoreExplained, Running
<1>5. CASE Return
  <2>1. result' # Running
    BY <1>5 DEF Return, ReturnGenerateAddresses, ReturnPeekChangeEntry,
                ReturnGenerateChangeEntry, ReturnFingerprint, Running
  <2>2. ASSUME result' = "no more change addresses"
        PROVE  /\ call \in {"PeekChangeEntry", "GenerateChangeEntry"}
               /\ Returning /\ addressIndices = <<>>
               /\ UNCHANGED <<impossible, entries>>
    BY <1>5, <2>2 DEF Return, ReturnGenerateAddresses, ReturnPeekChangeEntry,
                      ReturnGenerateChangeEntry, ReturnFingerprint, Stays, seedVars
  <2> QED BY <2>1, <2>2, NothingFound DEF NoMoreInv, ChangeCallOK, NoMoreExplained
<1> QED BY <1>1, <1>2, <1>3, <1>4, <1>5 DEF Next, Iterate

\* A change entry is refused at the end of the chain or at an impossible child
\* only (bip44_wallet.go:288, :301), for every range of child numbers and every
\* seed, and whatever the calls before.
THEOREM ChangeRefusedForAReason == Spec => []NoMoreExplained
<1>1. Init => NoMoreInv
  BY DEF Init, NoMoreInv, ChangeCallOK, NoMoreExplained, Running
<1> QED BY <1>1, SpecIInv, NextNoMoreInv, PTL DEF Spec, NoMoreInv
=============================================================================
