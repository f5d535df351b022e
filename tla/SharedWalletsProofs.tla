------------------------ MODULE SharedWalletsProofs -------------------------
(***************************************************************************)
(* Proofs about SharedWallets.                                             *)
(***************************************************************************)
EXTENDS SharedWallets, SequenceTheorems, OrderLemmas

Slots == [address : Addresses \cup {EmptySlot.address}, secret : BOOLEAN]
Metas == [locked : BOOLEAN, seed : BOOLEAN, sealed : [seed : BOOLEAN, keys : SUBSET Addresses]]
Entries == [address : Addresses, secret : BOOLEAN]

\* A heap: every wallet refers to a Meta and to an array, and its entries are the
\* first slots of the array.
IsHeap(hp) ==
  /\ hp = [obj |-> hp.obj, metas |-> hp.metas, arrays |-> hp.arrays]
  /\ IsFiniteSet(DOMAIN hp.obj)
  /\ hp.obj \in [DOMAIN hp.obj ->
                   [meta : DOMAIN hp.metas, array : DOMAIN hp.arrays, len : Nat]]
  /\ hp.metas \in [DOMAIN hp.metas -> Metas]
  /\ hp.arrays \in [DOMAIN hp.arrays -> Seq(Slots)]
  /\ \A w \in DOMAIN hp.obj :
       /\ hp.obj[w].len <= Len(hp.arrays[hp.obj[w].array])
       /\ \A n \in 1 .. hp.obj[w].len : hp.arrays[hp.obj[w].array][n] \in Entries
  /\ Nil \in DOMAIN hp.arrays
  /\ hp.arrays[Nil] = <<>>

\* No other wallet refers to the memory of w.
Alone(hp, w) ==
  \A v \in DOMAIN hp.obj \ {w} :
    /\ hp.obj[v].meta # hp.obj[w].meta
    /\ hp.obj[v].array = hp.obj[w].array => hp.obj[w].array = Nil

\* In hq w is what it was in hp.
Untouched(hp, hq, w) ==
  /\ hq.obj[w] = hp.obj[w]
  /\ MetaOf(hq, w) = MetaOf(hp, w)
  /\ EntriesOf(hq, w) = EntriesOf(hp, w)

\* From hp to hq nothing has changed but for w.
ChangesOnly(hp, hq, w) ==
  /\ DOMAIN hq.obj = DOMAIN hp.obj \cup {w}
  /\ \A v \in DOMAIN hp.obj \ {w} : Untouched(hp, hq, v)

-----------------------------------------------------------------------------
\* A function is in a set of functions when its values are in the range.
LEMMA FunctionTo ==
  ASSUME NEW D, NEW S, NEW f, f = [n \in D |-> f[n]], \A n \in D : f[n] \in S
  PROVE  f \in [D -> S]
OBVIOUS

\* A function from 1 .. n is a sequence.
LEMMA FunctionIsSeq ==
  ASSUME NEW S, NEW n \in Nat, NEW f \in [1 .. n -> S]
  PROVE  f \in Seq(S) /\ Len(f) = n /\ DOMAIN f = 1 .. n
OBVIOUS

\* A slice is the function of its indices.
LEMMA FirstSlots ==
  ASSUME NEW S, NEW s \in Seq(S), NEW len \in 0 .. Len(s)
  PROVE  SubSeq(s, 1, len) = [n \in 1 .. len |-> s[n]]
OBVIOUS

\* The entries of a wallet are entries, one for each index up to its length.
LEMMA EntriesAre ==
  ASSUME NEW hp, IsHeap(hp), NEW w \in DOMAIN hp.obj
  PROVE  /\ EntriesOf(hp, w) = [n \in 1 .. hp.obj[w].len |-> hp.arrays[hp.obj[w].array][n]]
         /\ EntriesOf(hp, w) \in Seq(Entries)
         /\ Len(EntriesOf(hp, w)) = hp.obj[w].len
         /\ DOMAIN EntriesOf(hp, w) = 1 .. hp.obj[w].len
         /\ AddressSeq(hp, w) \in Seq(Addresses)
<1> DEFINE s == hp.arrays[hp.obj[w].array]  len == hp.obj[w].len
<1>1. s \in Seq(Slots) /\ len \in Nat /\ len <= Len(s)
  BY DEF IsHeap
<1>2. SubSeq(s, 1, len) = [n \in 1 .. len |-> s[n]]
  BY <1>1, FirstSlots
<1>3. \A n \in 1 .. len : s[n] \in Entries
  BY DEF IsHeap
<1>4. \A n \in 1 .. len : s[n].address \in Addresses
  BY <1>3 DEF Entries
<1>5. EntriesOf(hp, w) = [n \in 1 .. len |-> s[n]]
  BY <1>2 DEF EntriesOf
<1>6. /\ EntriesOf(hp, w) \in Seq(Entries)
      /\ Len(EntriesOf(hp, w)) = len
      /\ DOMAIN EntriesOf(hp, w) = 1 .. len
  BY <1>1, <1>3, <1>5, FunctionIsSeq, EntriesOf(hp, w) \in [1 .. len -> Entries]
<1>7. AddressSeq(hp, w) \in [1 .. len -> Addresses]
  BY <1>4, <1>5 DEF AddressSeq
<1>8. AddressSeq(hp, w) \in Seq(Addresses)
  BY <1>1, <1>7, FunctionIsSeq
<1>. QED BY <1>5, <1>6, <1>8

\* A wallet's references lead somewhere.
LEMMA MetaIs ==
  ASSUME NEW hp, IsHeap(hp), NEW w \in DOMAIN hp.obj
  PROVE  /\ MetaOf(hp, w) \in Metas
         /\ hp.obj[w].meta \in DOMAIN hp.metas
         /\ hp.obj[w].array \in DOMAIN hp.arrays
         /\ hp.obj[w] \in [meta : DOMAIN hp.metas, array : DOMAIN hp.arrays, len : Nat]
BY DEF IsHeap, MetaOf

\* Fresh memory is nobody else's: of one name more than are in use, one is free.
LEMMA FreshIsUnused ==
  ASSUME NEW w, NEW used, IsFiniteSet(used)
  PROVE  Fresh(w, used) \notin used /\ Fresh(w, used) # Nil
<1> DEFINE max == Cardinality(used) + 1
           free == { n \in 1 .. max : <<w, n>> \notin used }
<1>1. max \in Nat /\ max > Cardinality(used)
  BY FS_CardinalityType
<1>2. free # {}
  <2> SUFFICES ASSUME free = {} PROVE FALSE
    OBVIOUS
  <2> DEFINE I == 1 .. max
             f == [n \in I |-> <<w, n>>]
  <2>1. f \in [I -> used]
    OBVIOUS
  <2>2. IsFiniteSet(I) /\ Cardinality(used) < Cardinality(I)
    BY <1>1, FS_Interval
  <2>3. \E x, y \in I : x # y /\ f[x] = f[y]
    <3>. HIDE DEF f, I
    <3>. QED BY <2>1, <2>2, FS_PigeonHole
  <2>. QED BY <2>3
<1>3. Min(free) \in free
  <2>1. free \in SUBSET Nat
    BY <1>1
  <2>2. \E m \in free : \A n \in free : m <= n
    <3>. HIDE DEF free
    <3>. QED BY <1>2, <2>1, LeastNatural
  <2>. HIDE DEF free
  <2>. QED BY <2>2 DEF Min
<1>4. Fresh(w, used) = <<w, Min(free)>> /\ Min(free) # 0
  BY <1>1, <1>3 DEF Fresh
<1>. QED BY <1>3, <1>4 DEF Nil

-----------------------------------------------------------------------------
(***************************************************************************)
(* Every method of a wallet writes the wallet, one Meta and one array.     *)
(***************************************************************************)

\* hp with the wallet o in w, the Meta m and the array s where it refers to.
Written(hp, w, o, m, s) ==
  [obj    |-> Put(hp.obj, w, o),
   metas  |-> Put(hp.metas, o.meta, m),
   arrays |-> Put(hp.arrays, o.array, s)]

\* What may be written: memory no other wallet refers to.
MayWrite(hp, w, o, m, s) ==
  /\ o = [meta |-> o.meta, array |-> o.array, len |-> o.len]
  /\ o.len \in 0 .. Len(s)
  /\ m \in Metas
  /\ s \in Seq(Slots)
  /\ \A n \in 1 .. o.len : s[n] \in Entries
  /\ o.array = Nil => s = <<>>
  /\ \A v \in DOMAIN hp.obj \ {w} :
       /\ hp.obj[v].meta # o.meta
       /\ hp.obj[v].array = o.array => o.array = Nil

\* The memory of w is its own, and holds this.
Holds(hp, w, m, es) ==
  /\ w \in DOMAIN hp.obj
  /\ Alone(hp, w)
  /\ MetaOf(hp, w) = m
  /\ EntriesOf(hp, w) = es

\* Such a write leaves a heap, in which only w has changed and is alone.
LEMMA WrittenOK ==
  ASSUME NEW hp, IsHeap(hp), NEW w, NEW o, NEW m, NEW s, MayWrite(hp, w, o, m, s),
         NEW hq, hq = Written(hp, w, o, m, s)
  PROVE  /\ IsHeap(hq)
         /\ ChangesOnly(hp, hq, w)
         /\ Holds(hq, w, m, SubSeq(s, 1, o.len))
<1> USE DEF MayWrite
<1>1. /\ DOMAIN hq.obj = DOMAIN hp.obj \cup {w}
      /\ DOMAIN hq.metas = DOMAIN hp.metas \cup {o.meta}
      /\ DOMAIN hq.arrays = DOMAIN hp.arrays \cup {o.array}
      /\ hq.obj[w] = o /\ hq.metas[o.meta] = m /\ hq.arrays[o.array] = s
      /\ \A v \in DOMAIN hp.obj \ {w} : hq.obj[v] = hp.obj[v]
      /\ \A k \in DOMAIN hp.metas \ {o.meta} : hq.metas[k] = hp.metas[k]
      /\ \A k \in DOMAIN hp.arrays \ {o.array} : hq.arrays[k] = hp.arrays[k]
  BY DEF Written, Put
<1>2. \A v \in DOMAIN hp.obj \ {w} :
        /\ hq.metas[hp.obj[v].meta] = hp.metas[hp.obj[v].meta]
        /\ hq.arrays[hp.obj[v].array] = hp.arrays[hp.obj[v].array]
  <2> SUFFICES ASSUME NEW v \in DOMAIN hp.obj \ {w}
               PROVE  /\ hq.metas[hp.obj[v].meta] = hp.metas[hp.obj[v].meta]
                      /\ hq.arrays[hp.obj[v].array] = hp.arrays[hp.obj[v].array]
    OBVIOUS
  <2>1. hp.obj[v].meta \in DOMAIN hp.metas /\ hp.obj[v].array \in DOMAIN hp.arrays
    BY MetaIs
  <2>2. hp.arrays[Nil] = <<>>
    BY DEF IsHeap
  <2>. QED BY <1>1, <2>1, <2>2 DEF MayWrite
<1>3. IsHeap(hq)
  <2>1. hq = [obj |-> hq.obj, metas |-> hq.metas, arrays |-> hq.arrays]
    BY DEF Written
  <2>2. IsFiniteSet(DOMAIN hq.obj)
    <3>1. IsFiniteSet(DOMAIN hp.obj)
      BY DEF IsHeap
    <3>2. DOMAIN hq.obj = DOMAIN hp.obj \cup {w}
      BY <1>1
    <3>. QED BY <3>1, <3>2, FS_AddElement
  <2>3. hq.obj \in [DOMAIN hq.obj -> [meta : DOMAIN hq.metas, array : DOMAIN hq.arrays, len : Nat]]
    <3>1. hq.obj = [v \in DOMAIN hq.obj |-> hq.obj[v]]
      BY DEF Written, Put
    <3>2. hq.obj[w] \in [meta : DOMAIN hq.metas, array : DOMAIN hq.arrays, len : Nat]
      BY <1>1 DEF MayWrite
    <3>3. ASSUME NEW v \in DOMAIN hp.obj \ {w}
          PROVE  hq.obj[v] \in [meta : DOMAIN hq.metas, array : DOMAIN hq.arrays, len : Nat]
      <4>1. hp.obj[v] \in [meta : DOMAIN hp.metas, array : DOMAIN hp.arrays, len : Nat]
        BY MetaIs
      <4>2. hq.obj[v] = hp.obj[v] /\ DOMAIN hp.metas \subseteq DOMAIN hq.metas
                                /\ DOMAIN hp.arrays \subseteq DOMAIN hq.arrays
        BY <1>1
      <4>. QED BY <4>1, <4>2
    <3>4. ASSUME NEW v \in DOMAIN hq.obj
          PROVE  hq.obj[v] \in [meta : DOMAIN hq.metas, array : DOMAIN hq.arrays, len : Nat]
      <4>1. v = w \/ v \in DOMAIN hp.obj \ {w}
        BY <1>1
      <4>. QED BY <3>2, <3>3, <4>1
    <3>. QED BY <3>1, <3>4, FunctionTo
  <2>4. hq.metas \in [DOMAIN hq.metas -> Metas]
    BY <1>1 DEF Written, Put, MayWrite, IsHeap
  <2>5. hq.arrays \in [DOMAIN hq.arrays -> Seq(Slots)]
    BY <1>1 DEF Written, Put, MayWrite, IsHeap
  <2>6. ASSUME NEW v \in DOMAIN hq.obj
        PROVE  /\ hq.obj[v].len <= Len(hq.arrays[hq.obj[v].array])
               /\ \A n \in 1 .. hq.obj[v].len : hq.arrays[hq.obj[v].array][n] \in Entries
    <3>1. CASE v = w
      BY <1>1, <3>1 DEF MayWrite
    <3>2. CASE v # w
      BY <1>1, <1>2, <3>2 DEF IsHeap
    <3>. QED BY <3>1, <3>2
  <2>7. Nil \in DOMAIN hq.arrays /\ hq.arrays[Nil] = <<>>
    BY <1>1 DEF MayWrite, IsHeap
  <2>. QED BY <2>1, <2>2, <2>3, <2>4, <2>5, <2>6, <2>7 DEF IsHeap
<1>4. ChangesOnly(hp, hq, w)
  <2>1. ASSUME NEW v \in DOMAIN hp.obj \ {w} PROVE Untouched(hp, hq, v)
    <3>1. hq.obj[v] = hp.obj[v]
      BY <1>1
    <3>. QED BY <1>2, <3>1 DEF Untouched, MetaOf, EntriesOf
  <2>2. DOMAIN hq.obj = DOMAIN hp.obj \cup {w}
    BY <1>1
  <2>. QED BY <2>1, <2>2 DEF ChangesOnly
<1>5. Alone(hq, w)
  BY <1>1 DEF Alone, MayWrite
<1>. QED BY <1>1, <1>3, <1>4, <1>5 DEF Holds, MetaOf, EntriesOf


\* An allocated array begins with what was to go into it.
LEMMA AllocatedOK ==
  ASSUME NEW es \in Seq(Entries), NEW spare \in BOOLEAN
  PROVE  /\ Allocated(es, spare) \in Seq(Slots)
         /\ Len(es) <= Len(Allocated(es, spare))
         /\ \A n \in 1 .. Len(es) : Allocated(es, spare)[n] = es[n]
<1>1. es \in Seq(Slots) /\ EmptySlot \in Slots
  <2>1. Entries \subseteq Slots
    BY DEF Entries, Slots
  <2>. QED BY <2>1, SeqMonotonic DEF EmptySlot, Slots
<1>. QED BY <1>1 DEF Allocated

\* A finite set has a finite image.
LEMMA ImageIsFinite ==
  ASSUME NEW S, IsFiniteSet(S), NEW f
  PROVE  IsFiniteSet({ f[x] : x \in S })
<1> DEFINE T == { f[x] : x \in S }
           g == [x \in S |-> f[x]]
<1>1. g \in Surjection(S, T)
  BY DEF Surjection
<1>. HIDE DEF T, g
<1>2. IsFiniteSet(T)
  BY <1>1, FS_Surjection
<1>. QED BY <1>2 DEF T

\* A clone has memory of its own and holds what its source holds.
LEMMA CloneOK ==
  ASSUME NEW hp, IsHeap(hp), NEW src \in DOMAIN hp.obj, NEW dst, dst # src,
         NEW spare \in BOOLEAN, NEW hq, hq = Clone(hp, src, dst, spare)
  PROVE  /\ IsHeap(hq)
         /\ ChangesOnly(hp, hq, dst)
         /\ Holds(hq, dst, MetaOf(hp, src), EntriesOf(hp, src))
<1> DEFINE len == hp.obj[src].len
           es == EntriesOf(hp, src)
           array == IF len = 0 THEN Nil ELSE FreshArray(hp, dst)
           slots == IF len = 0 THEN <<>> ELSE Allocated(es, spare)
           o == [meta |-> FreshMeta(hp, dst), array |-> array, len |-> len]
<1>1. hq = Written(hp, dst, o, MetaOf(hp, src), slots)
  BY DEF Clone, Written
<1>2. es \in Seq(Entries) /\ Len(es) = len /\ len \in Nat
  BY EntriesAre
<1>3. slots \in Seq(Slots) /\ len <= Len(slots) /\ \A n \in 1 .. len : slots[n] = es[n]
  BY <1>2, AllocatedOK
<1>4. MayWrite(hp, dst, o, MetaOf(hp, src), slots)
  <2> DEFINE others == DOMAIN hp.obj \ {dst}
  <2>1. IsFiniteSet(others)
    BY FS_RemoveElement DEF IsHeap
  <2>2. IsFiniteSet({ hp.obj[v].meta : v \in others }) /\ IsFiniteSet({ hp.obj[v].array : v \in others })
    <3> DEFINE meta == [v \in others |-> hp.obj[v].meta]
               arrays == [v \in others |-> hp.obj[v].array]
    <3>1. IsFiniteSet({ meta[v] : v \in others }) /\ IsFiniteSet({ arrays[v] : v \in others })
      <4>. HIDE DEF meta, arrays, others
      <4>. QED BY <2>1, ImageIsFinite
    <3>. QED BY <3>1
  <2>3. \A v \in others : hp.obj[v].meta # FreshMeta(hp, dst)
    BY <2>2, FreshIsUnused DEF FreshMeta
  <2>4. FreshArray(hp, dst) # Nil /\ \A v \in others : hp.obj[v].array # FreshArray(hp, dst)
    BY <2>2, FreshIsUnused DEF FreshArray
  <2>5. MetaOf(hp, src) \in Metas
    BY MetaIs
  <2>6. \A n \in 1 .. len : slots[n] \in Entries
    BY <1>2, <1>3
  <2>7. /\ o = [meta |-> o.meta, array |-> o.array, len |-> o.len]
        /\ o.len = len /\ o.meta = FreshMeta(hp, dst) /\ o.array = array
    OBVIOUS
  <2>8. o.array = Nil => slots = <<>>
    BY <2>4, <2>7
  <2>9. \A v \in others : hp.obj[v].array = o.array => o.array = Nil
    BY <2>4, <2>7
  <2>. HIDE DEF o, slots, len, array
  <2>. QED BY <1>2, <1>3, <2>3, <2>5, <2>6, <2>7, <2>8, <2>9 DEF MayWrite
<1>5. SubSeq(slots, 1, len) = es
  <2>1. SubSeq(slots, 1, len) = [n \in 1 .. len |-> slots[n]]
    BY <1>2, <1>3, FirstSlots
  <2>. QED BY <1>2, <1>3, <2>1
<1>6. o.len = len
  OBVIOUS
<1>. HIDE DEF o, slots, len
<1>. QED BY <1>1, <1>4, <1>5, <1>6, WrittenOK

\* A wallet with memory of its own may write it.
LEMMA AloneMayWrite ==
  ASSUME NEW hp, IsHeap(hp), NEW w \in DOMAIN hp.obj, Alone(hp, w), NEW m \in Metas,
         NEW s \in Seq(Slots), Len(s) = Len(hp.arrays[hp.obj[w].array]),
         \A n \in 1 .. hp.obj[w].len : s[n] \in Entries
  PROVE  MayWrite(hp, w, hp.obj[w], m, s)
<1>1. hp.obj[w].array = Nil => s = <<>>
  BY EmptySeq DEF IsHeap
<1>. QED BY <1>1, MetaIs DEF MayWrite, Alone, IsHeap

\* A write that leaves the array alone but for its slots.
LEMMA InPlace ==
  ASSUME NEW hp, IsHeap(hp), NEW w \in DOMAIN hp.obj, NEW m, NEW s
  PROVE  [obj |-> hp.obj, metas |-> [hp.metas EXCEPT ![hp.obj[w].meta] = m],
          arrays |-> [hp.arrays EXCEPT ![hp.obj[w].array] = s]]
           = Written(hp, w, hp.obj[w], m, s)
<1>1. Put(hp.obj, w, hp.obj[w]) = hp.obj
  BY DEF Put, IsHeap
<1>2. Put(hp.metas, hp.obj[w].meta, m) = [hp.metas EXCEPT ![hp.obj[w].meta] = m]
  BY MetaIs DEF Put
<1>3. Put(hp.arrays, hp.obj[w].array, s) = [hp.arrays EXCEPT ![hp.obj[w].array] = s]
  BY MetaIs DEF Put
<1>. QED BY <1>1, <1>2, <1>3 DEF Written

\* A cleared slot is a slot, with its address and without its secret.
LEMMA ClearedOK ==
  /\ \A slot \in Slots : Cleared(slot) \in Slots
  /\ \A slot \in Entries : Cleared(slot) \in Entries /\ Cleared(slot).address = slot.address
                                                   /\ Cleared(slot).secret = FALSE
BY DEF Slots, Entries, Cleared

\* What Erase leaves of a Meta and of entries.
ErasedMeta(m) == [m EXCEPT !.seed = FALSE]
ClearedEntries(es) == [n \in DOMAIN es |-> Cleared(es[n])]

\* Erase on a wallet with memory of its own.
LEMMA EraseOK ==
  ASSUME NEW hp, IsHeap(hp), NEW w \in DOMAIN hp.obj, Alone(hp, w),
         NEW hq, hq = Erase(hp, w)
  PROVE  /\ IsHeap(hq)
         /\ ChangesOnly(hp, hq, w)
         /\ Holds(hq, w, ErasedMeta(MetaOf(hp, w)), ClearedEntries(EntriesOf(hp, w)))
<1> DEFINE o == hp.obj[w]
           a == hp.arrays[o.array]
           m == [MetaOf(hp, w) EXCEPT !.seed = FALSE]
           s == [n \in DOMAIN a |-> IF n <= o.len THEN Cleared(a[n]) ELSE a[n]]
<1>1. hq = Written(hp, w, o, m, s)
  <2>1. hq = [obj |-> hp.obj, metas |-> [hp.metas EXCEPT ![o.meta] = m],
              arrays |-> [hp.arrays EXCEPT ![o.array] = s]]
    BY DEF Erase, IsHeap, MetaOf
  <2>. HIDE DEF m, s
  <2>. QED BY <2>1, InPlace
<1>2. a \in Seq(Slots) /\ o.len \in 0 .. Len(a) /\ \A n \in 1 .. o.len : a[n] \in Entries
  BY DEF IsHeap
<1>9. DOMAIN a = 1 .. Len(a) /\ Len(a) \in Nat /\ \A n \in 1 .. Len(a) : a[n] \in Slots
  <2>. HIDE DEF a
  <2>. QED BY <1>2
<1>10. /\ s = [n \in 1 .. Len(a) |-> s[n]]
       /\ \A n \in 1 .. Len(a) : s[n] = IF n <= o.len THEN Cleared(a[n]) ELSE a[n]
  <2>. HIDE DEF a, o
  <2>. QED BY <1>9
<1>3. s \in Seq(Slots) /\ Len(s) = Len(a)
  <2>. HIDE DEF a, o, s
  <2>1. ASSUME NEW n \in 1 .. Len(a) PROVE s[n] \in Slots
    <3>1. a[n] \in Slots
      BY <1>9
    <3>2. Cleared(a[n]) \in Slots
      BY <3>1, ClearedOK
    <3>. QED BY <1>10, <3>1, <3>2
  <2>2. s = [n \in 1 .. Len(a) |-> s[n]]
    BY <1>10
  <2>3. s \in [1 .. Len(a) -> Slots]
    BY <2>1, <2>2, FunctionTo
  <2>. QED BY <1>9, <2>3, FunctionIsSeq
<1>11. \A n \in 1 .. o.len : s[n] = Cleared(a[n]) /\ a[n] \in Entries
  <2>. HIDE DEF a, o, s
  <2>. QED BY <1>2, <1>9, <1>10
<1>4. \A n \in 1 .. o.len : s[n] \in Entries
  <2>. HIDE DEF a, o, s
  <2>. QED BY <1>11, ClearedOK
<1>5. m \in Metas
  <2>1. MetaOf(hp, w) \in Metas
    BY MetaIs
  <2>. QED BY <2>1 DEF Metas
<1>6. MayWrite(hp, w, o, m, s)
  <2>. HIDE DEF m, s
  <2>. QED BY <1>3, <1>4, <1>5, AloneMayWrite
<1>7. SubSeq(s, 1, o.len) = ClearedEntries(EntriesOf(hp, w))
  <2>1. SubSeq(s, 1, o.len) = [n \in 1 .. o.len |-> s[n]]
    <3>. HIDE DEF s
    <3>. QED BY <1>2, <1>3, FirstSlots
  <2>2. EntriesOf(hp, w) = [n \in 1 .. o.len |-> a[n]]
    BY EntriesAre
  <2>3. \A n \in 1 .. o.len : s[n] = Cleared(a[n])
    BY <1>11
  <2>. HIDE DEF s
  <2>. QED BY <2>1, <2>2, <2>3 DEF ClearedEntries
<1>8. IsHeap(hq) /\ ChangesOnly(hp, hq, w) /\ Holds(hq, w, m, ClearedEntries(EntriesOf(hp, w)))
  <2>. HIDE DEF o, m, s
  <2>. QED BY <1>1, <1>6, <1>7, WrittenOK
<1>. QED BY <1>8 DEF ErasedMeta

SealedMeta(m, es) ==
  [m EXCEPT !.locked = TRUE, !.sealed = [seed |-> m.seed, keys |-> KeysOf(es)]]

\* PackSecrets, Encrypt and SetEncrypted on a wallet with memory of its own.
LEMMA SealOK ==
  ASSUME NEW hp, IsHeap(hp), NEW w \in DOMAIN hp.obj, Alone(hp, w),
         NEW hq, hq = Seal(hp, w)
  PROVE  /\ IsHeap(hq)
         /\ ChangesOnly(hp, hq, w)
         /\ Holds(hq, w, SealedMeta(MetaOf(hp, w), EntriesOf(hp, w)), EntriesOf(hp, w))
<1> DEFINE o == hp.obj[w]
           a == hp.arrays[o.array]
           packed == [seed |-> MetaOf(hp, w).seed, keys |-> KeysOf(EntriesOf(hp, w))]
           m == [MetaOf(hp, w) EXCEPT !.locked = TRUE, !.sealed = packed]
<1>1. hq = Written(hp, w, o, m, a)
  <2>1. hq = [obj |-> hp.obj, metas |-> [hp.metas EXCEPT ![o.meta] = m],
              arrays |-> [hp.arrays EXCEPT ![o.array] = a]]
    BY MetaIs DEF Seal, IsHeap, MetaOf
  <2>. HIDE DEF m
  <2>. QED BY <2>1, InPlace
<1>2. a \in Seq(Slots) /\ o.len \in 0 .. Len(a) /\ \A n \in 1 .. o.len : a[n] \in Entries
  BY DEF IsHeap
<1>3. m \in Metas
  <2>1. MetaOf(hp, w) \in Metas
    BY MetaIs
  <2>2. KeysOf(EntriesOf(hp, w)) \subseteq Addresses
    <3>1. ASSUME NEW n \in DOMAIN EntriesOf(hp, w)
          PROVE  EntriesOf(hp, w)[n].address \in Addresses
      <4>1. EntriesOf(hp, w)[n] \in Entries
        BY EntriesAre
      <4>. QED BY <4>1 DEF Entries
    <3>. QED BY <3>1 DEF KeysOf
  <2>. QED BY <2>1, <2>2 DEF Metas
<1>4. MayWrite(hp, w, o, m, a)
  <2>. HIDE DEF m
  <2>. QED BY <1>2, <1>3, AloneMayWrite
<1>5. SubSeq(a, 1, o.len) = EntriesOf(hp, w)
  BY DEF EntriesOf
<1>6. IsHeap(hq) /\ ChangesOnly(hp, hq, w) /\ Holds(hq, w, m, EntriesOf(hp, w))
  <2>. HIDE DEF o, m, a
  <2>. QED BY <1>1, <1>4, <1>5, WrittenOK
<1>. QED BY <1>6 DEF SealedMeta

\* An unpacked slot is a slot, with its address and the secret that was packed.
LEMMA UnpackedOK ==
  ASSUME NEW keys
  PROVE  /\ \A slot \in Slots : Unpacked(slot, keys) \in Slots
         /\ \A slot \in Entries : /\ Unpacked(slot, keys) \in Entries
                                  /\ Unpacked(slot, keys).address = slot.address
                                  /\ slot.address \in keys => Unpacked(slot, keys).secret
<1>1. \A x : (x \in keys) \in BOOLEAN
  OBVIOUS
<1>. QED BY <1>1 DEF Slots, Entries, Unpacked

UnsealedMeta(m) ==
  [m EXCEPT !.locked = FALSE, !.seed = m.sealed.seed, !.sealed = NothingSealed]

UnpackedEntries(es, keys) == [n \in DOMAIN es |-> Unpacked(es[n], keys)]

\* Decrypt, UnpackSecrets and SetDecrypted on a wallet with memory of its own.
LEMMA UnsealOK ==
  ASSUME NEW hp, IsHeap(hp), NEW w \in DOMAIN hp.obj, Alone(hp, w),
         NEW hq, hq = Unseal(hp, w)
  PROVE  /\ IsHeap(hq)
         /\ ChangesOnly(hp, hq, w)
         /\ Holds(hq, w, UnsealedMeta(MetaOf(hp, w)),
                  UnpackedEntries(EntriesOf(hp, w), MetaOf(hp, w).sealed.keys))
<1> DEFINE o == hp.obj[w]
           a == hp.arrays[o.array]
           sealed == MetaOf(hp, w).sealed
           m == [MetaOf(hp, w) EXCEPT !.locked = FALSE, !.seed = sealed.seed,
                                      !.sealed = NothingSealed]
           s == [n \in DOMAIN a |-> IF n <= o.len THEN Unpacked(a[n], sealed.keys) ELSE a[n]]
           es == UnpackedEntries(EntriesOf(hp, w), sealed.keys)
<1>1. hq = Written(hp, w, o, m, s)
  <2>1. hq = [obj |-> hp.obj, metas |-> [hp.metas EXCEPT ![o.meta] = m],
              arrays |-> [hp.arrays EXCEPT ![o.array] = s]]
    BY DEF Unseal, IsHeap, MetaOf
  <2>. HIDE DEF m, s
  <2>. QED BY <2>1, InPlace
<1>2. a \in Seq(Slots) /\ o.len \in 0 .. Len(a) /\ \A n \in 1 .. o.len : a[n] \in Entries
  BY DEF IsHeap
<1>9. DOMAIN a = 1 .. Len(a) /\ Len(a) \in Nat /\ \A n \in 1 .. Len(a) : a[n] \in Slots
  <2>. HIDE DEF a
  <2>. QED BY <1>2
<1>10. /\ s = [n \in 1 .. Len(a) |-> s[n]]
       /\ \A n \in 1 .. Len(a) : s[n] = IF n <= o.len THEN Unpacked(a[n], sealed.keys) ELSE a[n]
  <2>. HIDE DEF a, o
  <2>. QED BY <1>9
<1>3. s \in Seq(Slots) /\ Len(s) = Len(a)
  <2>. HIDE DEF a, o, s
  <2>1. ASSUME NEW n \in 1 .. Len(a) PROVE s[n] \in Slots
    <3>1. a[n] \in Slots
      BY <1>9
    <3>2. Unpacked(a[n], sealed.keys) \in Slots
      BY <3>1, UnpackedOK
    <3>. QED BY <1>10, <3>1, <3>2
  <2>2. s = [n \in 1 .. Len(a) |-> s[n]]
    BY <1>10
  <2>3. s \in [1 .. Len(a) -> Slots]
    BY <2>1, <2>2, FunctionTo
  <2>. QED BY <1>9, <2>3, FunctionIsSeq
<1>11. \A n \in 1 .. o.len : s[n] = Unpacked(a[n], sealed.keys) /\ a[n] \in Entries
  <2>. HIDE DEF a, o, s
  <2>. QED BY <1>2, <1>9, <1>10
<1>4. \A n \in 1 .. o.len : s[n] \in Entries
  <2>. HIDE DEF a, o, s
  <2>. QED BY <1>11, UnpackedOK
<1>5. m \in Metas
  <2>1. MetaOf(hp, w) \in Metas
    BY MetaIs
  <2>. QED BY <2>1 DEF Metas, NothingSealed
<1>6. MayWrite(hp, w, o, m, s)
  <2>. HIDE DEF m, s
  <2>. QED BY <1>3, <1>4, <1>5, AloneMayWrite
<1>7. SubSeq(s, 1, o.len) = es
  <2>1. SubSeq(s, 1, o.len) = [n \in 1 .. o.len |-> s[n]]
    <3>. HIDE DEF s
    <3>. QED BY <1>2, <1>3, FirstSlots
  <2>2. EntriesOf(hp, w) = [n \in 1 .. o.len |-> a[n]]
    BY EntriesAre
  <2>3. \A n \in 1 .. o.len : s[n] = Unpacked(a[n], sealed.keys)
    BY <1>11
  <2>. HIDE DEF s, sealed
  <2>. QED BY <2>1, <2>2, <2>3 DEF UnpackedEntries
<1>8. IsHeap(hq) /\ ChangesOnly(hp, hq, w) /\ Holds(hq, w, m, es)
  <2>. HIDE DEF o, m, s, es
  <2>. QED BY <1>1, <1>6, <1>7, WrittenOK
<1>. QED BY <1>8 DEF UnsealedMeta

\* What append makes of the first slots.
LEMMA AppendedPlaces ==
  ASSUME NEW S, NEW es \in Seq(S), NEW e, NEW len \in Nat, Len(es) = len,
         NEW f, f = [n \in 1 .. len + 1 |-> f[n]],
         \A n \in 1 .. len + 1 : f[n] = IF n = len + 1 THEN e ELSE es[n]
  PROVE  f = Append(es, e)
<1> DEFINE T == S \cup {e}
           app == Append(es, e)
<1>1. es \in Seq(T) /\ e \in T
  BY SeqMonotonic
<1>. HIDE DEF T
<1>2. app \in Seq(T) /\ Len(app) = len + 1
      /\ (\A n \in 1 .. len : app[n] = es[n]) /\ app[len + 1] = e
  BY <1>1, AppendProperties
<1>. HIDE DEF app
<1>3. app = [n \in 1 .. len + 1 |-> app[n]]
  BY <1>2
<1>4. \A n \in 1 .. len + 1 : n = len + 1 \/ n \in 1 .. len
  OBVIOUS
<1>5. f = app
  BY <1>2, <1>3, <1>4
<1>. QED BY <1>5 DEF app

\* Writing the slot behind the first ones.
LEMMA SlotWritten ==
  ASSUME NEW a \in Seq(Slots), NEW len \in Nat, len < Len(a), NEW e \in Slots,
         NEW s, s = [a EXCEPT ![len + 1] = e]
  PROVE  /\ s \in Seq(Slots) /\ Len(s) = Len(a)
         /\ \A n \in 1 .. len : s[n] = a[n]
         /\ s[len + 1] = e
OBVIOUS

\* append on a wallet with memory of its own, in place or not.
LEMMA AppendOK ==
  ASSUME NEW hp, IsHeap(hp), NEW w \in DOMAIN hp.obj, Alone(hp, w), NEW e \in Entries,
         NEW spare \in BOOLEAN, NEW hq, hq = Append1(hp, w, e, spare)
  PROVE  /\ IsHeap(hq)
         /\ ChangesOnly(hp, hq, w)
         /\ Holds(hq, w, MetaOf(hp, w), Append(EntriesOf(hp, w), e))
<1> DEFINE o == hp.obj[w]
           a == hp.arrays[o.array]
           es == EntriesOf(hp, w)
           len == o.len
<1>1. /\ o = [meta |-> o.meta, array |-> o.array, len |-> len]
      /\ o.meta \in DOMAIN hp.metas /\ o.array \in DOMAIN hp.arrays
      /\ hp.metas[o.meta] \in Metas
      /\ a \in Seq(Slots) /\ len \in 0 .. Len(a)
      /\ \A n \in 1 .. len : a[n] \in Entries
      /\ o.array = Nil => Len(a) = 0
  BY MetaIs, EmptySeq DEF IsHeap
<1>2. es \in Seq(Entries) /\ Len(es) = len /\ \A n \in 1 .. len : es[n] = a[n]
  BY EntriesAre
<1>3. e \in Slots
  BY DEF Entries, Slots
<1>4. CASE len < Len(a)
  <2> DEFINE o2 == [meta |-> o.meta, array |-> o.array, len |-> len + 1]
             s == [a EXCEPT ![len + 1] = e]
  <2>1. hq = Written(hp, w, o2, hp.metas[o.meta], s)
    <3>1. hq = [hp EXCEPT !.arrays[o.array][len + 1] = e, !.obj[w].len = @ + 1]
      BY <1>4 DEF Append1
    <3>2. [o EXCEPT !.len = @ + 1] = o2
      BY <1>1
    <3>3. hq = [obj |-> [hp.obj EXCEPT ![w] = o2], metas |-> hp.metas,
                arrays |-> [hp.arrays EXCEPT ![o.array] = s]]
      <4>1. hq = [obj |-> [hp.obj EXCEPT ![w] = [o EXCEPT !.len = @ + 1]], metas |-> hp.metas,
                  arrays |-> [hp.arrays EXCEPT ![o.array] = s]]
        BY <3>1 DEF IsHeap
      <4>. HIDE DEF s, o2
      <4>. QED BY <3>2, <4>1
    <3>. HIDE DEF s, o2
    <3>4. /\ Put(hp.obj, w, o2) = [hp.obj EXCEPT ![w] = o2]
          /\ Put(hp.metas, o.meta, hp.metas[o.meta]) = hp.metas
          /\ Put(hp.arrays, o.array, s) = [hp.arrays EXCEPT ![o.array] = s]
      BY <1>1 DEF Put, IsHeap
    <3>. QED BY <3>3, <3>4 DEF Written, o2
  <2>2. s \in Seq(Slots) /\ Len(s) = Len(a)
        /\ \A n \in 1 .. len + 1 : s[n] = IF n = len + 1 THEN e ELSE a[n]
    <3>1. len \in Nat /\ a \in Seq(Slots)
      BY <1>1
    <3>. HIDE DEF a, len
    <3>2. s \in Seq(Slots) /\ Len(s) = Len(a)
          /\ (\A n \in 1 .. len : s[n] = a[n]) /\ s[len + 1] = e
      BY <1>3, <1>4, <3>1, SlotWritten
    <3>. HIDE DEF s
    <3>3. \A n \in 1 .. len + 1 : n = len + 1 \/ n \in 1 .. len
      BY <3>1
    <3>. QED BY <3>2, <3>3
  <2>3. MayWrite(hp, w, o2, hp.metas[o.meta], s)
    <3>. HIDE DEF s, a, len
    <3>1. \A n \in 1 .. len + 1 : s[n] \in Entries
      BY <1>1, <2>2
    <3>2. o.array # Nil
      BY <1>1, <1>4
    <3>3. o2 = [meta |-> o.meta, array |-> o.array, len |-> len + 1] /\ hp.metas[o.meta] \in Metas
      BY <1>1
    <3>4. len + 1 \in 0 .. Len(s) /\ s \in Seq(Slots)
      BY <1>1, <1>4, <2>2
    <3>5. \A v \in DOMAIN hp.obj \ {w} :
            hp.obj[v].meta # o.meta /\ (hp.obj[v].array = o.array => o.array = Nil)
      BY DEF Alone
    <3>. HIDE DEF o
    <3>. QED BY <3>1, <3>2, <3>3, <3>4, <3>5 DEF MayWrite
  <2>4. SubSeq(s, 1, len + 1) = Append(es, e)
    <3>1. SubSeq(s, 1, len + 1) = [n \in 1 .. len + 1 |-> s[n]]
      <4>. HIDE DEF s
      <4>. QED BY <1>1, <1>4, <2>2, FirstSlots
    <3>2. len \in Nat
      BY <1>1
    <3>. HIDE DEF s, es, a, len
    <3>3. \A n \in 1 .. len + 1 : s[n] = IF n = len + 1 THEN e ELSE es[n]
      BY <1>2, <2>2, <3>2
    <3>. QED BY <1>2, <3>1, <3>2, <3>3, AppendedPlaces
  <2>5. o2.len = len + 1
    OBVIOUS
  <2>. HIDE DEF s, o2, o, es, len
  <2>. QED BY <2>1, <2>3, <2>4, <2>5, WrittenOK DEF es, MetaOf, o
<1>5. CASE ~(len < Len(a))
  <2> DEFINE new == FreshArray(hp, w)
             o2 == [meta |-> o.meta, array |-> new, len |-> len + 1]
             s == Allocated(Append(es, e), spare)
  <2>1. hq = Written(hp, w, o2, hp.metas[o.meta], s)
    <3>1. hq = [hp EXCEPT !.arrays = Put(@, new, s), !.obj[w] = o2]
      BY <1>5 DEF Append1
    <3>. HIDE DEF s, new, o2
    <3>3. hq = [obj |-> [hp.obj EXCEPT ![w] = o2], metas |-> hp.metas,
                arrays |-> Put(hp.arrays, new, s)]
      BY <3>1 DEF IsHeap
    <3>4. /\ Put(hp.obj, w, o2) = [hp.obj EXCEPT ![w] = o2]
          /\ Put(hp.metas, o.meta, hp.metas[o.meta]) = hp.metas
      BY <1>1 DEF Put, IsHeap
    <3>. QED BY <3>3, <3>4 DEF Written, o2
  <2>2. Append(es, e) \in Seq(Entries) /\ Len(Append(es, e)) = len + 1
    BY <1>2
  <2>3. s \in Seq(Slots) /\ len + 1 <= Len(s) /\ \A n \in 1 .. len + 1 : s[n] = Append(es, e)[n]
    <3>. HIDE DEF es, len
    <3>. QED BY <2>2, AllocatedOK
  <2>4. MayWrite(hp, w, o2, hp.metas[o.meta], s)
    <3> DEFINE others == DOMAIN hp.obj \ {w}
               arrays == [v \in others |-> hp.obj[v].array]
    <3>1. IsFiniteSet(others)
      BY FS_RemoveElement DEF IsHeap
    <3>2. IsFiniteSet({ arrays[v] : v \in others })
      <4>. HIDE DEF arrays, others
      <4>. QED BY <3>1, ImageIsFinite
    <3>3. new # Nil /\ \A v \in others : hp.obj[v].array # new
      BY <3>2, FreshIsUnused DEF FreshArray
    <3>4. \A n \in 1 .. len + 1 : s[n] \in Entries
      BY <2>2, <2>3
    <3>. HIDE DEF s, new
    <3>. QED BY <1>1, <2>3, <3>3, <3>4 DEF MayWrite, Alone
  <2>5. SubSeq(s, 1, len + 1) = Append(es, e)
    <3>1. SubSeq(s, 1, len + 1) = [n \in 1 .. len + 1 |-> s[n]]
      <4>. HIDE DEF s
      <4>. QED BY <1>1, <2>3, FirstSlots
    <3>. HIDE DEF s, es
    <3>. QED BY <1>1, <1>2, <2>2, <2>3, <3>1
  <2>6. o2.len = len + 1
    OBVIOUS
  <2>. HIDE DEF s, o2, o, es, len
  <2>. QED BY <2>1, <2>4, <2>5, <2>6, WrittenOK DEF es, MetaOf, o
<1>. QED BY <1>4, <1>5

-----------------------------------------------------------------------------
(***************************************************************************)
(* Lock and Unlock are made of these.                                      *)
(***************************************************************************)

\* A Meta and entries with nothing missing: in the clear, or sealed and erased.
Complete(m, es) ==
  IF m.locked
  THEN /\ m.sealed = [seed |-> TRUE, keys |-> { es[n].address : n \in DOMAIN es }]
       /\ m.seed = FALSE
       /\ \A n \in DOMAIN es : es[n].secret = FALSE
  ELSE /\ m.seed = TRUE
       /\ \A n \in DOMAIN es : es[n].secret = TRUE

AddressesIn(es) == [n \in DOMAIN es |-> es[n].address]

\* What a wallet holds it still holds after a write to another one.
LEMMA HoldsOn ==
  ASSUME NEW hp, NEW hq, NEW w, NEW v, NEW m, NEW es, w # v,
         Holds(hp, w, m, es), ChangesOnly(hp, hq, v), Alone(hq, v)
  PROVE  Holds(hq, w, m, es)
BY DEF Holds, ChangesOnly, Untouched, Alone

\* Untouched twice is untouched.
LEMMA UntouchedOn ==
  ASSUME NEW h1, NEW h2, NEW h3, NEW w, Untouched(h1, h2, w), Untouched(h2, h3, w)
  PROVE  Untouched(h1, h3, w)
BY DEF Untouched

\* Sealing and erasing a complete open wallet leaves a complete locked one.
LEMMA SealedAndErased ==
  ASSUME NEW m \in Metas, NEW es \in Seq(Entries), Complete(m, es), m.locked = FALSE,
         NEW sealed, sealed = ErasedMeta(SealedMeta(m, es))
  PROVE  /\ sealed \in Metas
         /\ sealed.locked = TRUE
         /\ Complete(sealed, ClearedEntries(es))
         /\ AddressesIn(ClearedEntries(es)) = AddressesIn(es)
<1>1. /\ DOMAIN es = 1 .. Len(es)
      /\ \A n \in DOMAIN es : es[n] \in Entries
  OBVIOUS
<1>2. m.seed = TRUE /\ \A n \in DOMAIN es : es[n].secret = TRUE
  BY DEF Complete
<1>3. /\ DOMAIN ClearedEntries(es) = DOMAIN es
      /\ \A n \in DOMAIN es : /\ ClearedEntries(es)[n].address = es[n].address
                              /\ ClearedEntries(es)[n].secret = FALSE
  BY <1>1, ClearedOK DEF ClearedEntries
<1>4. KeysOf(es) = { ClearedEntries(es)[n].address : n \in DOMAIN ClearedEntries(es) }
  BY <1>2, <1>3 DEF KeysOf
<1>5. KeysOf(es) \subseteq Addresses
  <2>1. \A n \in DOMAIN es : es[n].address \in Addresses
    BY <1>1 DEF Entries
  <2>. QED BY <2>1 DEF KeysOf
<1>6. /\ sealed \in Metas
      /\ sealed.locked = TRUE /\ sealed.seed = FALSE
      /\ sealed.sealed = [seed |-> TRUE, keys |-> KeysOf(es)]
  BY <1>2, <1>5 DEF Metas, ErasedMeta, SealedMeta
<1>7. Complete(sealed, ClearedEntries(es))
  BY <1>3, <1>4, <1>6 DEF Complete
<1>8. AddressesIn(ClearedEntries(es)) = AddressesIn(es)
  BY <1>3 DEF AddressesIn
<1>. QED BY <1>6, <1>7, <1>8

\* Lock, its clone and its copies included, changes its wallet only and loses nothing.
LEMMA LockOK ==
  ASSUME NEW hp, IsHeap(hp), NEW w \in DOMAIN hp.obj, w # Wlt, Alone(hp, w),
         Complete(MetaOf(hp, w), EntriesOf(hp, w)), MetaOf(hp, w).locked = FALSE,
         NEW spare \in BOOLEAN, NEW hq, hq = Lock(hp, w, spare)
  PROVE  /\ IsHeap(hq)
         /\ DOMAIN hq.obj = DOMAIN hp.obj \cup {Wlt}
         /\ \A v \in DOMAIN hp.obj \ {w, Wlt} : Untouched(hp, hq, v)
         /\ Alone(hq, w)
         /\ MetaOf(hq, w).locked = TRUE
         /\ Complete(MetaOf(hq, w), EntriesOf(hq, w))
         /\ AddressSeq(hq, w) = AddressSeq(hp, w)
<1> DEFINE m == MetaOf(hp, w)
           es == EntriesOf(hp, w)
           packed == SealedMeta(m, es)
           sealed == ErasedMeta(packed)
           cleared == ClearedEntries(es)
           h1 == Clone(hp, w, Wlt, spare)
           h2 == Seal(h1, Wlt)
           h3 == Erase(h2, Wlt)
           h4 == Erase(h3, w)
           h5 == Clone(h4, Wlt, w, spare)
<1>1. Holds(hp, w, m, es)
  BY DEF Holds
<1>2. IsHeap(h1) /\ ChangesOnly(hp, h1, Wlt) /\ Holds(h1, Wlt, m, es)
  BY CloneOK
<1>3. IsHeap(h2) /\ ChangesOnly(h1, h2, Wlt) /\ Holds(h2, Wlt, packed, es)
  <2>. HIDE DEF h1
  <2>. QED BY <1>2, SealOK DEF Holds
<1>4. IsHeap(h3) /\ ChangesOnly(h2, h3, Wlt) /\ Holds(h3, Wlt, sealed, cleared)
  <2>. HIDE DEF h2
  <2>. QED BY <1>3, EraseOK DEF Holds
<1>. HIDE DEF packed, sealed, cleared, m, es
<1>5. Holds(h3, w, m, es)
  <2>. HIDE DEF h1, h2, h3
  <2>1. Holds(h1, w, m, es)
    BY <1>1, <1>2, HoldsOn DEF Holds
  <2>2. Holds(h2, w, m, es)
    BY <1>3, <2>1, HoldsOn DEF Holds
  <2>. QED BY <1>4, <2>2, HoldsOn DEF Holds
<1>6. IsHeap(h4) /\ ChangesOnly(h3, h4, w) /\ Alone(h4, w)
  <2>. HIDE DEF h3
  <2>. QED BY <1>4, <1>5, EraseOK DEF Holds
<1>7. Holds(h4, Wlt, sealed, cleared)
  <2>. HIDE DEF h3, h4
  <2>. QED BY <1>4, <1>6, HoldsOn
<1>8. IsHeap(h5) /\ ChangesOnly(h4, h5, w) /\ Holds(h5, w, sealed, cleared)
  <2>1. IsHeap(h5) /\ ChangesOnly(h4, h5, w) /\ Holds(h5, w, MetaOf(h4, Wlt), EntriesOf(h4, Wlt))
    <3>. HIDE DEF h4
    <3>. QED BY <1>6, <1>7, CloneOK DEF Holds
  <2>. HIDE DEF h4, h5
  <2>. QED BY <1>7, <2>1 DEF Holds
<1>9. Holds(h5, Wlt, sealed, cleared)
  <2>. HIDE DEF h4, h5
  <2>. QED BY <1>7, <1>8, HoldsOn DEF Holds
<1>10. hq = Erase(h5, Wlt)
  BY DEF Lock
<1>11. IsHeap(hq) /\ ChangesOnly(h5, hq, Wlt) /\ Alone(hq, Wlt)
  <2>. HIDE DEF h5
  <2>. QED BY <1>8, <1>9, <1>10, EraseOK DEF Holds
<1>12. Holds(hq, w, sealed, cleared)
  <2>. HIDE DEF h5
  <2>. QED BY <1>8, <1>11, HoldsOn
<1>13. /\ DOMAIN hq.obj = DOMAIN hp.obj \cup {Wlt}
       /\ \A v \in DOMAIN hp.obj \ {w, Wlt} : Untouched(hp, hq, v)
  <2>. HIDE DEF h1, h2, h3, h4, h5
  <2>. QED BY <1>2, <1>3, <1>4, <1>6, <1>8, <1>11 DEF ChangesOnly, Untouched
<1>14. sealed.locked = TRUE /\ Complete(sealed, cleared) /\ AddressesIn(cleared) = AddressesIn(es)
  <2>1. m \in Metas /\ es \in Seq(Entries)
    BY MetaIs, EntriesAre DEF m, es
  <2>2. Complete(m, es) /\ m.locked = FALSE
    BY DEF m, es
  <2>. QED BY <2>1, <2>2, SealedAndErased DEF sealed, packed, cleared
<1>15. AddressSeq(hq, w) = AddressSeq(hp, w)
  BY <1>1, <1>12, <1>14 DEF Holds, AddressSeq, AddressesIn
<1>. QED BY <1>11, <1>12, <1>13, <1>14, <1>15 DEF Holds

\* Unsealing a complete locked wallet leaves a complete open one.
LEMMA UnsealedAndUnpacked ==
  ASSUME NEW m \in Metas, NEW es \in Seq(Entries), Complete(m, es), m.locked = TRUE
  PROVE  /\ UnsealedMeta(m).locked = FALSE
         /\ Complete(UnsealedMeta(m), UnpackedEntries(es, m.sealed.keys))
         /\ AddressesIn(UnpackedEntries(es, m.sealed.keys)) = AddressesIn(es)
<1> DEFINE keys == m.sealed.keys
           unpacked == UnpackedEntries(es, keys)
<1>1. /\ DOMAIN es = 1 .. Len(es)
      /\ \A n \in DOMAIN es : es[n] \in Entries
  OBVIOUS
<1>2. m.sealed = [seed |-> TRUE, keys |-> { es[n].address : n \in DOMAIN es }]
  BY DEF Complete
<1>3. \A n \in DOMAIN es : es[n].address \in keys
  BY <1>2
<1>4. /\ UnsealedMeta(m).locked = FALSE
      /\ UnsealedMeta(m).seed = TRUE
  BY <1>2 DEF UnsealedMeta, Metas
<1>. HIDE DEF keys
<1>5. /\ DOMAIN unpacked = DOMAIN es
      /\ \A n \in DOMAIN es : unpacked[n] \in Entries /\ unpacked[n].address = es[n].address
                                                      /\ unpacked[n].secret
  BY <1>1, <1>3, UnpackedOK DEF UnpackedEntries
<1>6. \A n \in DOMAIN es : unpacked[n].secret = TRUE
  BY <1>5 DEF Entries
<1>7. Complete(UnsealedMeta(m), unpacked)
  BY <1>4, <1>5, <1>6 DEF Complete
<1>8. AddressesIn(unpacked) = AddressesIn(es)
  BY <1>5 DEF AddressesIn
<1>. QED BY <1>4, <1>7, <1>8 DEF keys

Unlocked(hp, hq, w, to) ==
  /\ IsHeap(hq)
  /\ ChangesOnly(hp, hq, to)
  /\ Alone(hq, to)
  /\ Complete(MetaOf(hq, to), EntriesOf(hq, to))
  /\ AddressSeq(hq, to) = AddressSeq(hp, w)

\* Unlock gives a complete open copy with memory of its own.
LEMMA UnlockOK ==
  ASSUME NEW hp, IsHeap(hp), NEW w \in DOMAIN hp.obj, NEW to, to # w,
         Complete(MetaOf(hp, w), EntriesOf(hp, w)), MetaOf(hp, w).locked = TRUE,
         NEW spare \in BOOLEAN, NEW hq, hq = Unlock(hp, w, to, spare)
  PROVE  Unlocked(hp, hq, w, to)
<1> DEFINE h1 == Clone(hp, w, to, spare)
           m == MetaOf(hp, w)
           es == EntriesOf(hp, w)
<1>1. IsHeap(h1) /\ ChangesOnly(hp, h1, to) /\ Holds(h1, to, m, es)
  BY CloneOK
<1>2. hq = Unseal(h1, to)
  BY DEF Unlock
<1>. HIDE DEF h1
<1>3. /\ IsHeap(hq) /\ ChangesOnly(h1, hq, to)
      /\ Holds(hq, to, UnsealedMeta(m), UnpackedEntries(es, m.sealed.keys))
  BY <1>1, <1>2, UnsealOK DEF Holds
<1>4. ChangesOnly(hp, hq, to)
  BY <1>1, <1>3 DEF ChangesOnly, Untouched
<1>5. /\ Complete(UnsealedMeta(m), UnpackedEntries(es, m.sealed.keys))
      /\ AddressesIn(UnpackedEntries(es, m.sealed.keys)) = AddressesIn(es)
  BY MetaIs, EntriesAre, UnsealedAndUnpacked
<1>6. AddressSeq(hq, to) = AddressSeq(hp, w)
  BY <1>3, <1>5 DEF Holds, AddressSeq, AddressesIn
<1>. QED BY <1>3, <1>4, <1>5, <1>6 DEF Holds, Unlocked

\* The collector leaves the wallets that are still in use as they are.
LEMMA CollectedOK ==
  ASSUME NEW hp, IsHeap(hp), NEW names \in SUBSET DOMAIN hp.obj,
         NEW hq, hq = Collected(hp, names)
  PROVE  /\ IsHeap(hq)
         /\ DOMAIN hq.obj = names
         /\ \A w \in names : Untouched(hp, hq, w)
<1>1. /\ DOMAIN hq.obj = names
      /\ DOMAIN hq.metas = { hp.obj[w].meta : w \in names }
      /\ DOMAIN hq.arrays = { hp.obj[w].array : w \in names } \cup {Nil}
      /\ hq = [obj |-> hq.obj, metas |-> hq.metas, arrays |-> hq.arrays]
      /\ hq.obj = [w \in names |-> hp.obj[w]]
      /\ hq.metas = [k \in DOMAIN hq.metas |-> hp.metas[k]]
      /\ hq.arrays = [k \in DOMAIN hq.arrays |-> hp.arrays[k]]
  <2>1. \A w \in names : Restrict(hp.obj, names)[w] = hp.obj[w]
    BY DEF Restrict
  <2>2. /\ { Restrict(hp.obj, names)[w].meta : w \in names } = { hp.obj[w].meta : w \in names }
        /\ { Restrict(hp.obj, names)[w].array : w \in names } = { hp.obj[w].array : w \in names }
    BY <2>1
  <2>. QED BY <2>2 DEF Collected, Restrict
<1>2. /\ DOMAIN hq.metas \subseteq DOMAIN hp.metas
      /\ DOMAIN hq.arrays \subseteq DOMAIN hp.arrays
  BY <1>1, MetaIs DEF IsHeap
<1>3. \A w \in names : /\ hq.obj[w] = hp.obj[w]
                       /\ hq.metas[hq.obj[w].meta] = hp.metas[hp.obj[w].meta]
                       /\ hq.arrays[hq.obj[w].array] = hp.arrays[hp.obj[w].array]
  BY <1>1
<1>4. IsHeap(hq)
  <2>1. IsFiniteSet(DOMAIN hq.obj)
    <3>1. IsFiniteSet(DOMAIN hp.obj)
      BY DEF IsHeap
    <3>. QED BY <1>1, <3>1, FS_Subset
  <2>2. hq.obj \in [DOMAIN hq.obj -> [meta : DOMAIN hq.metas, array : DOMAIN hq.arrays, len : Nat]]
    <3>1. ASSUME NEW w \in names
          PROVE  hq.obj[w] \in [meta : DOMAIN hq.metas, array : DOMAIN hq.arrays, len : Nat]
      <4>1. hp.obj[w] \in [meta : DOMAIN hp.metas, array : DOMAIN hp.arrays, len : Nat]
        BY MetaIs
      <4>2. hp.obj[w].meta \in DOMAIN hq.metas /\ hp.obj[w].array \in DOMAIN hq.arrays
        BY <1>1
      <4>. QED BY <1>3, <4>1, <4>2
    <3>. QED BY <1>1, <3>1
  <2>3. hq.metas \in [DOMAIN hq.metas -> Metas]
    <3>1. \A k \in DOMAIN hq.metas : hq.metas[k] \in Metas
      BY <1>1, <1>2 DEF IsHeap
    <3>. QED BY <1>1, <3>1, FunctionTo
  <2>4. hq.arrays \in [DOMAIN hq.arrays -> Seq(Slots)]
    <3>1. \A k \in DOMAIN hq.arrays : hq.arrays[k] \in Seq(Slots)
      BY <1>1, <1>2 DEF IsHeap
    <3>. QED BY <1>1, <3>1, FunctionTo
  <2>5. ASSUME NEW w \in names
        PROVE  /\ hq.obj[w].len <= Len(hq.arrays[hq.obj[w].array])
               /\ \A n \in 1 .. hq.obj[w].len : hq.arrays[hq.obj[w].array][n] \in Entries
    BY <1>3 DEF IsHeap
  <2>6. Nil \in DOMAIN hq.arrays /\ hq.arrays[Nil] = <<>>
    BY <1>1 DEF IsHeap
  <2>. QED BY <1>1, <2>1, <2>2, <2>3, <2>4, <2>5, <2>6 DEF IsHeap
<1>. QED BY <1>1, <1>3, <1>4 DEF Untouched, MetaOf, EntriesOf

\* Erase does nothing to a wallet that is erased.
LEMMA ErasedStays ==
  ASSUME NEW hp, IsHeap(hp), NEW w \in DOMAIN hp.obj, MetaOf(hp, w).seed = FALSE,
         \A n \in DOMAIN EntriesOf(hp, w) : EntriesOf(hp, w)[n].secret = FALSE,
         NEW hq, hq = Erase(hp, w)
  PROVE  hq = hp
<1> DEFINE o == hp.obj[w]
           a == hp.arrays[o.array]
           m == [MetaOf(hp, w) EXCEPT !.seed = FALSE]
           s == [n \in DOMAIN a |-> IF n <= o.len THEN Cleared(a[n]) ELSE a[n]]
<1>1. hq = [obj |-> hp.obj, metas |-> [hp.metas EXCEPT ![o.meta] = m],
            arrays |-> [hp.arrays EXCEPT ![o.array] = s]]
  BY DEF Erase, IsHeap, MetaOf
<1>2. m = hp.metas[o.meta]
  BY MetaIs DEF MetaOf, Metas
<1>3. a \in Seq(Slots) /\ o.len \in 0 .. Len(a) /\ \A n \in 1 .. o.len : a[n] \in Entries
  BY DEF IsHeap
<1>4. ASSUME NEW n \in 1 .. o.len PROVE Cleared(a[n]) = a[n]
  <2>1. a[n] = EntriesOf(hp, w)[n] /\ n \in DOMAIN EntriesOf(hp, w)
    BY EntriesAre
  <2>2. a[n].secret = FALSE
    BY <2>1
  <2>. QED BY <1>3, <2>2 DEF Cleared, Entries
<1>5. s = a
  <2>1. \A n \in DOMAIN a : (IF n <= o.len THEN Cleared(a[n]) ELSE a[n]) = a[n]
    BY <1>3, <1>4
  <2>2. a = [n \in DOMAIN a |-> a[n]]
    BY <1>3
  <2>. QED BY <2>1, <2>2
<1>6. [hp.metas EXCEPT ![o.meta] = hp.metas[o.meta]] = hp.metas
      /\ [hp.arrays EXCEPT ![o.array] = a] = hp.arrays
  BY MetaIs DEF IsHeap
<1>. HIDE DEF m, s
<1>. QED BY <1>1, <1>2, <1>5, <1>6 DEF IsHeap

-----------------------------------------------------------------------------
(***************************************************************************)
(* The inductive invariant of the heap: no wallet misses anything, and     *)
(* wallets that share memory are locked and refer to the same.             *)
(***************************************************************************)

Sharing(hp, w, v) ==
  \/ hp.obj[w].meta = hp.obj[v].meta
  \/ hp.obj[w].array = hp.obj[v].array /\ hp.obj[w].array # Nil

Sound(hp, names) ==
  /\ \A w \in names : Complete(MetaOf(hp, w), EntriesOf(hp, w))
  /\ \A w, v \in names : w # v /\ Sharing(hp, w, v) =>
       hp.obj[w] = hp.obj[v] /\ MetaOf(hp, w).locked = TRUE

\* An open wallet of a sound heap shares nothing.
LEMMA OpenIsAlone ==
  ASSUME NEW hp, IsHeap(hp), Sound(hp, DOMAIN hp.obj), NEW w \in DOMAIN hp.obj,
         MetaOf(hp, w).locked = FALSE
  PROVE  Alone(hp, w)
BY DEF Sound, Sharing, Alone, MetaOf

\* A locked wallet of a sound heap has nothing in the clear.
LEMMA LockedIsErased ==
  ASSUME NEW hp, NEW names, Sound(hp, names), NEW w \in names, MetaOf(hp, w).locked = TRUE
  PROVE  /\ MetaOf(hp, w).seed = FALSE
         /\ \A n \in DOMAIN EntriesOf(hp, w) : EntriesOf(hp, w)[n].secret = FALSE
BY DEF Sound, Complete

\* What was not touched is as sound as it was.
LEMMA UntouchedIsSound ==
  ASSUME NEW hp, NEW hq, NEW names, Sound(hp, names), NEW rest \in SUBSET names,
         \A w \in rest : Untouched(hp, hq, w)
  PROVE  Sound(hq, rest)
BY DEF Sound, Untouched, Sharing

\* A wallet with memory of its own and nothing missing joins a sound heap.
LEMMA OneMoreIsSound ==
  ASSUME NEW hp, NEW names, NEW w, Sound(hp, names \ {w}), names \subseteq DOMAIN hp.obj,
         w \in DOMAIN hp.obj,
         Alone(hp, w), Complete(MetaOf(hp, w), EntriesOf(hp, w))
  PROVE  Sound(hp, names)
<1>1. ASSUME NEW v \in names \ {w} PROVE ~Sharing(hp, w, v) /\ ~Sharing(hp, v, w)
  BY DEF Alone, Sharing
<1>2. ASSUME NEW u \in names, NEW v \in names, u # v, Sharing(hp, u, v)
      PROVE  hp.obj[u] = hp.obj[v] /\ MetaOf(hp, u).locked = TRUE
  BY <1>1, <1>2 DEF Sound
<1>3. \A v \in names : Complete(MetaOf(hp, v), EntriesOf(hp, v))
  BY DEF Sound
<1>. QED BY <1>2, <1>3 DEF Sound

\* What was not touched on the way, the collector does not touch either.
LEMMA UntouchedCollected ==
  ASSUME NEW hp, NEW h1, IsHeap(h1), NEW names \in SUBSET DOMAIN h1.obj,
         NEW hq, hq = Collected(h1, names), NEW w \in names, Untouched(hp, h1, w)
  PROVE  Untouched(hp, hq, w)
BY CollectedOK, UntouchedOn

\* An untouched wallet has its addresses.
LEMMA SameAddresses ==
  ASSUME NEW hp, NEW hq, NEW w, Untouched(hp, hq, w)
  PROVE  AddressSeq(hq, w) = AddressSeq(hp, w)
BY DEF Untouched, AddressSeq

\* AddEntry on an open wallet.
Added(hp, hq, w, a) ==
  /\ IsHeap(hq)
  /\ DOMAIN hq.obj = DOMAIN hp.obj
  /\ Sound(hq, DOMAIN hp.obj)
  /\ \A v \in DOMAIN hp.obj \ {w} : Untouched(hp, hq, v)
  /\ AddressSeq(hq, w) = Append(AddressSeq(hp, w), a)

\* It changes that wallet only, which has memory of its own.
LEMMA AddEntryOK ==
  ASSUME NEW hp, IsHeap(hp), Sound(hp, DOMAIN hp.obj), NEW w \in DOMAIN hp.obj,
         MetaOf(hp, w).locked = FALSE, NEW a \in Addresses, NEW spare \in BOOLEAN,
         NEW hq, hq = Collected(Append1(hp, w, [address |-> a, secret |-> TRUE], spare),
                                DOMAIN hp.obj)
  PROVE  Added(hp, hq, w, a)
<1> DEFINE e == [address |-> a, secret |-> TRUE]
           h1 == Append1(hp, w, e, spare)
           es == EntriesOf(hp, w)
           names == DOMAIN hp.obj
<1>1. e \in Entries /\ e.address = a /\ e.secret = TRUE
  BY DEF Entries
<1>2. Alone(hp, w)
  BY OpenIsAlone
<1>3. IsHeap(h1) /\ ChangesOnly(hp, h1, w) /\ Holds(h1, w, MetaOf(hp, w), Append(es, e))
  <2>. HIDE DEF e, h1
  <2>1. h1 = Append1(hp, w, e, spare)
    BY DEF h1
  <2>. QED BY <1>1, <1>2, <2>1, AppendOK
<1>4. es \in Seq(Entries) /\ Complete(MetaOf(hp, w), es) /\ DOMAIN es = 1 .. Len(es)
  BY EntriesAre DEF Sound
<1>5. Complete(MetaOf(hp, w), Append(es, e))
  <2>. HIDE DEF e, es
  <2>1. \A n \in DOMAIN Append(es, e) : Append(es, e)[n].secret = TRUE
    BY <1>1, <1>4 DEF Complete
  <2>. QED BY <1>4, <2>1 DEF Complete
<1>6. AddressSeq(h1, w) = Append(AddressSeq(hp, w), a)
  <2>. HIDE DEF e, es, h1
  <2>1. AddressSeq(h1, w) = [n \in DOMAIN Append(es, e) |-> Append(es, e)[n].address]
    BY <1>3 DEF Holds, AddressSeq
  <2>2. AddressSeq(hp, w) = [n \in DOMAIN es |-> es[n].address]
    BY DEF AddressSeq, es
  <2>3. AddressSeq(hp, w) \in Seq(Addresses) /\ Len(AddressSeq(hp, w)) = Len(es)
    BY <1>4, <2>2, EntriesAre
  <2>. QED BY <1>1, <1>4, <2>1, <2>2, <2>3
<1>. HIDE DEF h1, e
<1>7. DOMAIN h1.obj = names /\ \A v \in names \ {w} : Untouched(hp, h1, v)
  BY <1>3 DEF ChangesOnly
<1>8. Sound(h1, names)
  <2>1. Sound(h1, names \ {w})
    BY <1>7, UntouchedIsSound
  <2>. QED BY <1>3, <1>5, <1>7, <2>1, OneMoreIsSound DEF Holds
<1>9. hq = Collected(h1, names)
  BY DEF h1, e
<1>10. IsHeap(hq) /\ DOMAIN hq.obj = names /\ \A v \in names : Untouched(h1, hq, v)
  BY <1>3, <1>7, <1>9, CollectedOK
<1>11. \A v \in names \ {w} : Untouched(hp, hq, v)
  BY <1>7, <1>10, UntouchedOn
<1>12. Sound(hq, names) /\ AddressSeq(hq, w) = AddressSeq(h1, w)
  BY <1>8, <1>10, UntouchedIsSound, SameAddresses
<1>. QED BY <1>6, <1>10, <1>11, <1>12 DEF Added

\* Lock on an open wallet.
LEMMA LockWalletOK ==
  ASSUME NEW hp, IsHeap(hp), Sound(hp, DOMAIN hp.obj), Wlt \notin DOMAIN hp.obj,
         NEW w \in DOMAIN hp.obj, MetaOf(hp, w).locked = FALSE, NEW spare \in BOOLEAN,
         NEW h1, h1 = Lock(hp, w, spare)
  PROVE  /\ IsHeap(h1)
         /\ DOMAIN h1.obj = DOMAIN hp.obj \cup {Wlt}
         /\ Sound(h1, DOMAIN hp.obj)
         /\ \A v \in DOMAIN hp.obj \ {w} : Untouched(hp, h1, v)
         /\ Alone(h1, w)
         /\ MetaOf(h1, w).locked = TRUE
         /\ AddressSeq(h1, w) = AddressSeq(hp, w)
<1> DEFINE names == DOMAIN hp.obj
<1>1. Alone(hp, w) /\ w # Wlt /\ Complete(MetaOf(hp, w), EntriesOf(hp, w))
  BY OpenIsAlone DEF Sound
<1>2. /\ IsHeap(h1)
      /\ DOMAIN h1.obj = names \cup {Wlt}
      /\ \A v \in names \ {w, Wlt} : Untouched(hp, h1, v)
      /\ Alone(h1, w)
      /\ MetaOf(h1, w).locked = TRUE
      /\ Complete(MetaOf(h1, w), EntriesOf(h1, w))
      /\ AddressSeq(h1, w) = AddressSeq(hp, w)
  BY <1>1, LockOK
<1>3. \A v \in names \ {w} : Untouched(hp, h1, v)
  BY <1>2
<1>4. Sound(h1, names \ {w})
  BY <1>3, UntouchedIsSound
<1>5. Sound(h1, names)
  BY <1>2, <1>4, OneMoreIsSound
<1>. QED BY <1>2, <1>3, <1>5

\* Clone and Unlock leave a new wallet with memory of its own.
LEMMA NewWalletOK ==
  ASSUME NEW hp, Sound(hp, DOMAIN hp.obj), NEW to, to \notin DOMAIN hp.obj,
         NEW hq, ChangesOnly(hp, hq, to), Alone(hq, to),
         Complete(MetaOf(hq, to), EntriesOf(hq, to))
  PROVE  /\ DOMAIN hq.obj = DOMAIN hp.obj \cup {to}
         /\ Sound(hq, DOMAIN hq.obj)
         /\ \A v \in DOMAIN hp.obj : Untouched(hp, hq, v)
<1>1. /\ DOMAIN hq.obj = DOMAIN hp.obj \cup {to}
      /\ \A v \in DOMAIN hp.obj : Untouched(hp, hq, v)
  BY DEF ChangesOnly
<1>2. DOMAIN hq.obj \ {to} = DOMAIN hp.obj
  BY <1>1
<1>3. Sound(hq, DOMAIN hq.obj \ {to})
  BY <1>1, <1>2, UntouchedIsSound
<1>. QED BY <1>1, <1>3, OneMoreIsSound

\* A wallet is erased and forgotten.
LEMMA DropOK ==
  ASSUME NEW hp, IsHeap(hp), Sound(hp, DOMAIN hp.obj), NEW w \in DOMAIN hp.obj,
         NEW hq, hq = Collected(Erase(hp, w), DOMAIN hp.obj \ {w})
  PROVE  /\ IsHeap(hq)
         /\ DOMAIN hq.obj = DOMAIN hp.obj \ {w}
         /\ Sound(hq, DOMAIN hq.obj)
         /\ \A v \in DOMAIN hp.obj \ {w} : Untouched(hp, hq, v)
<1> DEFINE h1 == Erase(hp, w)
           names == DOMAIN hp.obj
<1>1. IsHeap(h1) /\ DOMAIN h1.obj = names /\ \A v \in names \ {w} : Untouched(hp, h1, v)
  <2>1. CASE MetaOf(hp, w).locked
    <3>1. MetaOf(hp, w).locked = TRUE
      BY <2>1, MetaIs DEF Metas
    <3>2. h1 = hp
      <4>. HIDE DEF h1
      <4>1. h1 = Erase(hp, w)
        BY DEF h1
      <4>2. /\ MetaOf(hp, w).seed = FALSE
            /\ \A n \in DOMAIN EntriesOf(hp, w) : EntriesOf(hp, w)[n].secret = FALSE
        BY <3>1, LockedIsErased
      <4>. QED BY <4>1, <4>2, ErasedStays
    <3>. QED BY <3>2 DEF Untouched
  <2>2. CASE ~MetaOf(hp, w).locked
    <3>1. MetaOf(hp, w).locked = FALSE
      BY <2>2, MetaIs DEF Metas
    <3>2. Alone(hp, w)
      BY <3>1, OpenIsAlone
    <3>3. IsHeap(h1) /\ ChangesOnly(hp, h1, w)
      BY <3>2, EraseOK
    <3>. QED BY <3>3 DEF ChangesOnly
  <2>. QED BY <2>1, <2>2
<1>. HIDE DEF h1
<1>2. hq = Collected(h1, names \ {w})
  BY DEF h1
<1>3. IsHeap(hq) /\ DOMAIN hq.obj = names \ {w} /\ \A v \in names \ {w} : Untouched(h1, hq, v)
  <2>1. names \ {w} \in SUBSET DOMAIN h1.obj
    BY <1>1
  <2>. HIDE DEF names
  <2>. QED BY <1>1, <1>2, <2>1, CollectedOK
<1>4. \A v \in names \ {w} : Untouched(hp, hq, v)
  BY <1>1, <1>3, UntouchedOn
<1>. QED BY <1>3, <1>4, UntouchedIsSound

\* From hp to hq, of has come to hold what copy holds, and nothing else changed.
Follows(hp, hq, of, copy) ==
  /\ DOMAIN hq.obj = DOMAIN hp.obj
  /\ \A v \in DOMAIN hp.obj \ {of} : Untouched(hp, hq, v)
  /\ MetaOf(hq, of) = MetaOf(hp, copy)
  /\ EntriesOf(hq, of) = EntriesOf(hp, copy)

\* A wallet made to refer to what a wallet with memory of its own refers to: the
\* two share, and are locked.
LEMMA CopyFromRefOK ==
  ASSUME NEW hp, IsHeap(hp), NEW names \in SUBSET DOMAIN hp.obj, Sound(hp, names),
         NEW of \in names, NEW copy \in names, Alone(hp, copy),
         MetaOf(hp, copy).locked = TRUE,
         NEW hq, hq = CopyFromRef(hp, of, copy)
  PROVE  IsHeap(hq) /\ Sound(hq, names) /\ Follows(hp, hq, of, copy)
<1>1. hq = [obj |-> [hp.obj EXCEPT ![of] = hp.obj[copy]],
            metas |-> hp.metas, arrays |-> hp.arrays]
  BY DEF CopyFromRef, IsHeap
<1>2. /\ DOMAIN hq.obj = DOMAIN hp.obj
      /\ hq.obj[of] = hp.obj[copy]
      /\ \A v \in DOMAIN hp.obj \ {of} : hq.obj[v] = hp.obj[v]
  BY <1>1 DEF IsHeap
<1>3. IsHeap(hq)
  <2>1. hq.obj \in [DOMAIN hq.obj -> [meta : DOMAIN hq.metas, array : DOMAIN hq.arrays, len : Nat]]
    BY <1>1 DEF IsHeap
  <2>2. \A v \in DOMAIN hq.obj : \E u \in DOMAIN hp.obj : hq.obj[v] = hp.obj[u]
    BY <1>2
  <2>3. \A v \in DOMAIN hq.obj :
          /\ hq.obj[v].len <= Len(hq.arrays[hq.obj[v].array])
          /\ \A n \in 1 .. hq.obj[v].len : hq.arrays[hq.obj[v].array][n] \in Entries
    <3>1. ASSUME NEW v \in DOMAIN hq.obj, NEW u \in DOMAIN hp.obj, hq.obj[v] = hp.obj[u]
          PROVE  /\ hq.obj[v].len <= Len(hq.arrays[hq.obj[v].array])
                 /\ \A n \in 1 .. hq.obj[v].len : hq.arrays[hq.obj[v].array][n] \in Entries
      <4>1. hq.arrays = hp.arrays
        BY <1>1
      <4>. QED BY <3>1, <4>1 DEF IsHeap
    <3>. QED BY <2>2, <3>1
  <2>4. IsFiniteSet(DOMAIN hq.obj)
    BY <1>2 DEF IsHeap
  <2>. QED BY <1>1, <2>1, <2>3, <2>4 DEF IsHeap
<1>4. \A v \in DOMAIN hp.obj \ {of} : Untouched(hp, hq, v)
  <2>1. hq.metas = hp.metas /\ hq.arrays = hp.arrays
    BY <1>1
  <2>. QED BY <1>2, <2>1 DEF Untouched, MetaOf, EntriesOf
<1>5. MetaOf(hq, of) = MetaOf(hp, copy) /\ EntriesOf(hq, of) = EntriesOf(hp, copy)
  <2>1. hq.metas = hp.metas /\ hq.arrays = hp.arrays
    BY <1>1
  <2>. QED BY <1>2, <2>1 DEF MetaOf, EntriesOf
<1>6. Sound(hq, names \ {of})
  BY <1>4, UntouchedIsSound
<1>7. ASSUME NEW v \in names \ {of}, Sharing(hq, of, v) \/ Sharing(hq, v, of)
      PROVE  /\ hq.obj[of] = hq.obj[v]
             /\ MetaOf(hq, of).locked = TRUE
             /\ MetaOf(hq, v).locked = TRUE
  <2>1. v = copy
    BY <1>2, <1>7 DEF Alone, Sharing
  <2>. QED BY <1>2, <1>4, <1>5, <2>1 DEF Untouched
<1>8. Complete(MetaOf(hq, of), EntriesOf(hq, of))
  BY <1>5 DEF Sound
<1>9. Sound(hq, names)
  <2>1. \A v \in names : Complete(MetaOf(hq, v), EntriesOf(hq, v))
    BY <1>6, <1>8 DEF Sound
  <2>2. ASSUME NEW u \in names, NEW v \in names, u # v, Sharing(hq, u, v)
        PROVE  hq.obj[u] = hq.obj[v] /\ MetaOf(hq, u).locked = TRUE
    <3>1. CASE u = of \/ v = of
      <4>1. CASE u = of
        <5>1. v \in names \ {of} /\ Sharing(hq, of, v)
          BY <2>2, <4>1
        <5>. QED BY <1>7, <4>1, <5>1
      <4>2. CASE v = of
        <5>1. u \in names \ {of} /\ Sharing(hq, u, of)
          BY <2>2, <4>2
        <5>. QED BY <1>7, <4>2, <5>1
      <4>. QED BY <3>1, <4>1, <4>2
    <3>2. CASE u # of /\ v # of
      BY <1>6, <2>2, <3>2 DEF Sound
    <3>. QED BY <3>1, <3>2
  <2>. QED BY <2>1, <2>2 DEF Sound
<1>. QED BY <1>2, <1>3, <1>4, <1>5, <1>9 DEF Follows

\* Erase does nothing to a locked wallet of a sound heap.
LEMMA EraseLocked ==
  ASSUME NEW hp, IsHeap(hp), NEW names \in SUBSET DOMAIN hp.obj, Sound(hp, names),
         NEW w \in names, MetaOf(hp, w).locked = TRUE
  PROVE  Erase(hp, w) = hp
<1>1. /\ MetaOf(hp, w).seed = FALSE
      /\ \A n \in DOMAIN EntriesOf(hp, w) : EntriesOf(hp, w)[n].secret = FALSE
  BY LockedIsErased
<1>. QED BY <1>1, ErasedStays

\* GuardUpdate puts the copy in place.
Updated(hp, hq, of, copy) ==
  /\ IsHeap(hq)
  /\ DOMAIN hq.obj = DOMAIN hp.obj
  /\ Sound(hq, DOMAIN hp.obj)
  /\ \A v \in DOMAIN hp.obj \ {of, copy} : Untouched(hp, hq, v)
  /\ AddressSeq(hq, copy) = AddressSeq(hp, copy)
  /\ AddressSeq(hq, of) = AddressSeq(hp, copy)

\* It changes the wallet and the copy only, and both erasures after it do nothing.
LEMMA UpdateOK ==
  ASSUME NEW hp, IsHeap(hp), Sound(hp, DOMAIN hp.obj), Wlt \notin DOMAIN hp.obj,
         NEW of \in DOMAIN hp.obj, NEW copy \in DOMAIN hp.obj, of # copy,
         MetaOf(hp, copy).locked = FALSE, NEW spare \in BOOLEAN,
         NEW locked, locked = Lock(hp, copy, spare),
         NEW h2, h2 = CopyFromRef(locked, of, copy),
         NEW updated, updated = Erase(h2, of),
         NEW hq, hq = Collected(Erase(updated, copy), DOMAIN hp.obj)
  PROVE  Updated(hp, hq, of, copy)
<1> DEFINE names == DOMAIN hp.obj
<1>1. /\ IsHeap(locked)
      /\ DOMAIN locked.obj = names \cup {Wlt}
      /\ Sound(locked, names)
      /\ \A v \in names \ {copy} : Untouched(hp, locked, v)
      /\ Alone(locked, copy)
      /\ MetaOf(locked, copy).locked = TRUE
      /\ AddressSeq(locked, copy) = AddressSeq(hp, copy)
  BY LockWalletOK
<1>0. names \in SUBSET DOMAIN locked.obj
  BY <1>1
<1>2. /\ IsHeap(h2)
      /\ DOMAIN h2.obj = DOMAIN locked.obj
      /\ Sound(h2, names)
      /\ \A v \in DOMAIN locked.obj \ {of} : Untouched(locked, h2, v)
      /\ MetaOf(h2, of) = MetaOf(locked, copy)
      /\ EntriesOf(h2, of) = EntriesOf(locked, copy)
  <2>2. of \in names /\ copy \in names
    BY DEF names
  <2>3. /\ IsHeap(locked) /\ Sound(locked, names) /\ Alone(locked, copy)
        /\ MetaOf(locked, copy).locked = TRUE
    BY <1>1
  <2>. HIDE DEF names
  <2>4. IsHeap(h2) /\ Sound(h2, names) /\ Follows(locked, h2, of, copy)
    BY <1>0, <2>2, <2>3, CopyFromRefOK
  <2>. QED BY <2>4 DEF Follows
<1>3. MetaOf(h2, of).locked = TRUE /\ MetaOf(h2, copy).locked = TRUE
  BY <1>1, <1>2 DEF Untouched
<1>4. updated = h2 /\ Erase(updated, copy) = h2
  <2>1. names \in SUBSET DOMAIN h2.obj /\ of \in names /\ copy \in names
    BY <1>0, <1>2
  <2>2. Erase(h2, of) = h2 /\ Erase(h2, copy) = h2
    <3>. HIDE DEF names
    <3>. QED BY <2>1, <1>2, <1>3, EraseLocked
  <2>. QED BY <2>2
<1>5. IsHeap(hq) /\ DOMAIN hq.obj = names /\ \A v \in names : Untouched(h2, hq, v)
  <2>1. names \in SUBSET DOMAIN h2.obj /\ hq = Collected(h2, names)
    BY <1>0, <1>2, <1>4
  <2>. HIDE DEF names
  <2>. QED BY <2>1, <1>2, CollectedOK
<1>6. Sound(hq, names)
  BY <1>2, <1>5, UntouchedIsSound
<1>7. \A v \in names \ {of, copy} : Untouched(hp, hq, v)
  BY <1>1, <1>2, <1>5, UntouchedOn
<1>8. AddressSeq(h2, copy) = AddressSeq(locked, copy) /\ AddressSeq(h2, of) = AddressSeq(locked, copy)
  BY <1>1, <1>2, SameAddresses DEF AddressSeq
<1>9. AddressSeq(hq, copy) = AddressSeq(h2, copy) /\ AddressSeq(hq, of) = AddressSeq(h2, of)
  BY <1>5, SameAddresses
<1>. QED BY <1>1, <1>5, <1>6, <1>7, <1>8, <1>9 DEF Updated

-----------------------------------------------------------------------------
(***************************************************************************)
(* The inductive invariant of the state.                                   *)
(***************************************************************************)

HeapInv == IsHeap(heap) /\ Live \subseteq Names /\ Sound(heap, Live)

Guards == [kind : {"view", "update"}, of : Names, copy : Names, seen : Seq(Addresses)]

\* A guard's wallet and copy are there and differ, and the copy begins with what
\* the guard saw of its wallet.
GuardOK(hp, g) ==
  /\ g.of \in DOMAIN hp.obj
  /\ g.copy \in DOMAIN hp.obj
  /\ g.of # g.copy
  /\ IsPrefix(g.seen, AddressSeq(hp, g.copy))

\* A copy is of no use to the guards around it; a guard of the copy of another
\* saw at least what that one saw.
Stacked(gs) ==
  \A k, n \in 1 .. Len(gs) : k < n =>
    /\ gs[n].copy # gs[k].of
    /\ gs[n].copy # gs[k].copy
    /\ gs[n].of = gs[k].copy => IsPrefix(gs[k].seen, gs[n].seen)

GuardsInv ==
  /\ guards \in Seq(Guards)
  /\ \A n \in 1 .. Len(guards) : GuardOK(heap, guards[n])
  /\ Stacked(guards)

Inv == HeapInv /\ GuardsInv

-----------------------------------------------------------------------------
(***************************************************************************)
(* Prefixes.                                                               *)
(***************************************************************************)

\* IsPrefix, index by index.
LEMMA PrefixIs ==
  ASSUME NEW S, NEW s \in Seq(S), NEW t \in Seq(S)
  PROVE  IsPrefix(s, t) <=> Len(s) <= Len(t) /\ \A n \in 1 .. Len(s) : s[n] = t[n]
<1>1. CASE ~(Len(s) <= Len(t))
  BY <1>1 DEF IsPrefix
<1>2. CASE Len(s) <= Len(t)
  <2>1. /\ SubSeq(s, 1, Len(s)) = [n \in 1 .. Len(s) |-> s[n]]
        /\ SubSeq(t, 1, Len(s)) = [n \in 1 .. Len(s) |-> t[n]]
    BY <1>2, FirstSlots
  <2>2. [n \in 1 .. Len(s) |-> s[n]] = [n \in 1 .. Len(s) |-> t[n]]
          <=> \A n \in 1 .. Len(s) : s[n] = t[n]
    OBVIOUS
  <2>. QED BY <1>2, <2>1, <2>2 DEF IsPrefix
<1>. QED BY <1>1, <1>2

\* A sequence begins with itself.
LEMMA PrefixSelf ==
  ASSUME NEW S, NEW s \in Seq(S)
  PROVE  IsPrefix(s, s)
BY PrefixIs

\* Appending keeps the beginning.
LEMMA PrefixAppend ==
  ASSUME NEW S, NEW s \in Seq(S), NEW e \in S
  PROVE  IsPrefix(s, Append(s, e)) /\ Append(s, e) \in Seq(S)
<1>1. /\ Append(s, e) \in Seq(S)
      /\ Len(s) <= Len(Append(s, e))
      /\ \A n \in 1 .. Len(s) : s[n] = Append(s, e)[n]
  OBVIOUS
<1>. QED BY <1>1, PrefixIs

\* A beginning of a beginning is a beginning.
LEMMA PrefixOfPrefix ==
  ASSUME NEW S, NEW s \in Seq(S), NEW t \in Seq(S), NEW u \in Seq(S),
         IsPrefix(s, t), IsPrefix(t, u)
  PROVE  IsPrefix(s, u)
<1>1. /\ Len(s) <= Len(t) /\ \A n \in 1 .. Len(s) : s[n] = t[n]
      /\ Len(t) <= Len(u) /\ \A n \in 1 .. Len(t) : t[n] = u[n]
  BY PrefixIs
<1>2. Len(s) <= Len(u) /\ \A n \in 1 .. Len(s) : s[n] = u[n]
  BY <1>1
<1>. QED BY <1>2, PrefixIs

-----------------------------------------------------------------------------
(***************************************************************************)
(* What the actions do to the heap: the invariant holds of it again, and   *)
(* the wallets they are not about are untouched.                           *)
(***************************************************************************)

\* An operation left its wallets in place and changed only these.
Kept(touched) ==
  /\ Live' = Live
  /\ \A v \in Live \ touched : Untouched(heap, heap', v)

\* Between operations there is no clone of Lock.
LEMMA NoWltLive ==
  ASSUME HeapInv
  PROVE  Wlt \notin DOMAIN heap.obj
BY SharedWalletsAssumption DEF HeapInv, Live

\* A wallet is locked or it is not.
LEMMA LockedIsBoolean ==
  ASSUME HeapInv, NEW w \in Live
  PROVE  Locked(w) \in BOOLEAN /\ Locked(w) = MetaOf(heap, w).locked
BY MetaIs DEF HeapInv, Live, Locked, Metas

\* The action AddEntry.
LEMMA AddEntryStep ==
  ASSUME HeapInv, NEW w \in Live, NEW a \in Addresses, NEW spare \in BOOLEAN,
         AddEntry(w, a, spare)
  PROVE  /\ HeapInv'
         /\ Kept({w})
         /\ AddressSeq(heap', w) = Append(AddressSeq(heap, w), a)
<1>1. /\ IsHeap(heap) /\ Sound(heap, DOMAIN heap.obj) /\ w \in DOMAIN heap.obj
      /\ MetaOf(heap, w).locked = FALSE
      /\ heap' = Collected(Append1(heap, w, [address |-> a, secret |-> TRUE], spare),
                           DOMAIN heap.obj)
  BY LockedIsBoolean DEF HeapInv, Live, AddEntry
<1>2. Added(heap, heap', w, a)
  BY <1>1, AddEntryOK
<1>. QED BY <1>2 DEF Added, HeapInv, Live, Kept

\* The action LockWallet.
LEMMA LockWalletStep ==
  ASSUME HeapInv, NEW w \in Live, NEW spare \in BOOLEAN, LockWallet(w, spare)
  PROVE  /\ HeapInv'
         /\ Kept({w})
         /\ AddressSeq(heap', w) = AddressSeq(heap, w)
<1> DEFINE h1 == Lock(heap, w, spare)
<1>1. /\ IsHeap(heap) /\ Sound(heap, DOMAIN heap.obj) /\ w \in DOMAIN heap.obj
      /\ Wlt \notin DOMAIN heap.obj
      /\ MetaOf(heap, w).locked = FALSE
      /\ heap' = Collected(h1, DOMAIN heap.obj)
  BY LockedIsBoolean, NoWltLive DEF HeapInv, Live, LockWallet
<1>2. /\ IsHeap(h1)
      /\ DOMAIN h1.obj = DOMAIN heap.obj \cup {Wlt}
      /\ Sound(h1, DOMAIN heap.obj)
      /\ \A v \in DOMAIN heap.obj \ {w} : Untouched(heap, h1, v)
      /\ AddressSeq(h1, w) = AddressSeq(heap, w)
  BY <1>1, LockWalletOK
<1>. HIDE DEF h1
<1>3. /\ IsHeap(heap')
      /\ DOMAIN heap'.obj = DOMAIN heap.obj
      /\ \A v \in DOMAIN heap.obj : Untouched(h1, heap', v)
  <2>1. DOMAIN heap.obj \in SUBSET DOMAIN h1.obj
    BY <1>2
  <2>. QED BY <1>1, <1>2, <2>1, CollectedOK
<1>4. Sound(heap', DOMAIN heap.obj)
  BY <1>2, <1>3, UntouchedIsSound
<1>5. \A v \in DOMAIN heap.obj \ {w} : Untouched(heap, heap', v)
  BY <1>2, <1>3, UntouchedOn
<1>6. AddressSeq(heap', w) = AddressSeq(heap, w)
  BY <1>1, <1>2, <1>3, SameAddresses
<1>. QED BY <1>3, <1>4, <1>5, <1>6 DEF HeapInv, Live, Kept

\* A new wallet joined the others, which are untouched.
Joined(to) ==
  /\ to \notin Live
  /\ Live' = Live \cup {to}
  /\ \A v \in Live : Untouched(heap, heap', v)

\* What CloneWallet does to the heap.
LEMMA CloneStep ==
  ASSUME HeapInv, NEW w \in Live, NEW to \in Names, to \notin Live, NEW spare \in BOOLEAN,
         heap' = Clone(heap, w, to, spare)
  PROVE  HeapInv' /\ Joined(to)
<1>1. IsHeap(heap) /\ Sound(heap, DOMAIN heap.obj) /\ w \in DOMAIN heap.obj
      /\ to \notin DOMAIN heap.obj
  BY DEF HeapInv, Live
<1>2. /\ IsHeap(heap')
      /\ ChangesOnly(heap, heap', to)
      /\ Holds(heap', to, MetaOf(heap, w), EntriesOf(heap, w))
  BY <1>1, CloneOK
<1>3. Alone(heap', to) /\ Complete(MetaOf(heap', to), EntriesOf(heap', to))
  BY <1>1, <1>2 DEF Holds, Sound
<1>4. /\ DOMAIN heap'.obj = DOMAIN heap.obj \cup {to}
      /\ Sound(heap', DOMAIN heap'.obj)
      /\ \A v \in DOMAIN heap.obj : Untouched(heap, heap', v)
  BY <1>1, <1>2, <1>3, NewWalletOK
<1>. QED BY <1>2, <1>4 DEF HeapInv, Live, Joined

\* What UnlockWallet and GuardBegin do to the heap.
LEMMA UnlockStep ==
  ASSUME HeapInv, NEW w \in Live, NEW to \in Names, to \notin Live, NEW spare \in BOOLEAN,
         Locked(w), heap' = Unlock(heap, w, to, spare)
  PROVE  HeapInv' /\ Joined(to) /\ AddressSeq(heap', to) = AddressSeq(heap, w)
<1>1. /\ IsHeap(heap) /\ Sound(heap, DOMAIN heap.obj) /\ w \in DOMAIN heap.obj
      /\ to \notin DOMAIN heap.obj
      /\ MetaOf(heap, w).locked = TRUE
  BY LockedIsBoolean DEF HeapInv, Live
<1>2. Complete(MetaOf(heap, w), EntriesOf(heap, w)) /\ to # w
  BY <1>1 DEF Sound
<1>3. /\ IsHeap(heap')
      /\ ChangesOnly(heap, heap', to)
      /\ Alone(heap', to)
      /\ Complete(MetaOf(heap', to), EntriesOf(heap', to))
      /\ AddressSeq(heap', to) = AddressSeq(heap, w)
  <2>1. Unlocked(heap, heap', w, to)
    BY <1>1, <1>2, UnlockOK
  <2>. QED BY <2>1 DEF Unlocked
<1>4. /\ DOMAIN heap'.obj = DOMAIN heap.obj \cup {to}
      /\ Sound(heap', DOMAIN heap'.obj)
      /\ \A v \in DOMAIN heap.obj : Untouched(heap, heap', v)
  BY <1>1, <1>3, NewWalletOK
<1>. QED BY <1>3, <1>4 DEF HeapInv, Live, Joined

\* A wallet left, and the others are untouched.
Left(w) ==
  /\ Live' = Live \ {w}
  /\ \A v \in Live' : Untouched(heap, heap', v)

\* What Discard does to the heap, and GuardEnds with an open copy.
LEMMA DropStep ==
  ASSUME HeapInv, NEW w \in Live, heap' = Collected(Erase(heap, w), Live \ {w})
  PROVE  HeapInv' /\ Left(w)
<1>1. /\ IsHeap(heap) /\ Sound(heap, DOMAIN heap.obj) /\ w \in DOMAIN heap.obj
      /\ heap' = Collected(Erase(heap, w), DOMAIN heap.obj \ {w})
  BY DEF HeapInv, Live
<1>2. /\ IsHeap(heap')
      /\ DOMAIN heap'.obj = DOMAIN heap.obj \ {w}
      /\ Sound(heap', DOMAIN heap'.obj)
      /\ \A v \in DOMAIN heap.obj \ {w} : Untouched(heap, heap', v)
  BY <1>1, DropOK
<1>. QED BY <1>2 DEF HeapInv, Live, Left

\* What UpdateEnds does to the heap.
LEMMA UpdateStep ==
  ASSUME Inv, NEW spare \in BOOLEAN, UpdateEnds(spare),
         NEW top, top = guards[Len(guards)]
  PROVE  /\ HeapInv'
         /\ Kept({top.of, top.copy})
         /\ AddressSeq(heap', top.copy) = AddressSeq(heap, top.copy)
         /\ AddressSeq(heap', top.of) = AddressSeq(heap, top.copy)
<1> DEFINE of == top.of
           copy == top.copy
           locked == Lock(heap, copy, spare)
           h2 == CopyFromRef(locked, of, copy)
           updated == Erase(h2, of)
<1>1. guards # <<>> /\ Last(guards) = top /\ Len(guards) \in 1 .. Len(guards)
  BY DEF UpdateEnds, Last, Inv, GuardsInv
<1>2. of \in Live /\ copy \in Live /\ of # copy
  BY <1>1 DEF Inv, GuardsInv, GuardOK, Live
<1>3. /\ IsHeap(heap) /\ Sound(heap, DOMAIN heap.obj) /\ Wlt \notin DOMAIN heap.obj
      /\ of \in DOMAIN heap.obj /\ copy \in DOMAIN heap.obj
      /\ MetaOf(heap, copy).locked = FALSE
      /\ heap' = Collected(Erase(updated, copy), DOMAIN heap.obj)
  BY <1>1, <1>2, LockedIsBoolean, NoWltLive DEF Inv, HeapInv, Live, UpdateEnds
<1>. HIDE DEF locked, h2, updated, of, copy
<1>4. Updated(heap, heap', of, copy)
  <2>1. locked = Lock(heap, copy, spare) /\ h2 = CopyFromRef(locked, of, copy)
        /\ updated = Erase(h2, of)
    BY DEF locked, h2, updated
  <2>. QED BY <1>2, <1>3, <2>1, UpdateOK
<1>. QED BY <1>4 DEF Updated, HeapInv, Live, Kept, Inv, of, copy

-----------------------------------------------------------------------------
(***************************************************************************)
(* The invariant is inductive.                                             *)
(***************************************************************************)

\* A wallet's addresses are a sequence.
LEMMA AddressSeqIs ==
  ASSUME HeapInv, NEW w \in Live
  PROVE  AddressSeq(heap, w) \in Seq(Addresses)
BY EntriesAre DEF HeapInv, Live

\* A guard stays right while its wallets stay and its copy only grows.
LEMMA GuardStays ==
  ASSUME NEW hp, NEW hq, NEW g \in Guards, GuardOK(hp, g),
         g.of \in DOMAIN hq.obj, g.copy \in DOMAIN hq.obj,
         AddressSeq(hp, g.copy) \in Seq(Addresses),
         AddressSeq(hq, g.copy) \in Seq(Addresses),
         IsPrefix(AddressSeq(hp, g.copy), AddressSeq(hq, g.copy))
  PROVE  GuardOK(hq, g)
<1>1. g.seen \in Seq(Addresses)
  BY DEF Guards
<1>. QED BY <1>1, PrefixOfPrefix DEF GuardOK

\* An operation on a wallet that keeps all wallets and at most adds to its entries.
LEMMA GuardsKept ==
  ASSUME Inv, HeapInv', NEW w \in Live, Kept({w}), UNCHANGED guards,
         IsPrefix(AddressSeq(heap, w), AddressSeq(heap', w))
  PROVE  GuardsInv'
<1>1. ASSUME NEW n \in 1 .. Len(guards) PROVE GuardOK(heap', guards[n])
  <2> DEFINE g == guards[n]
  <2>1. g \in Guards /\ GuardOK(heap, g)
    BY DEF Inv, GuardsInv
  <2>2. g.copy \in Live /\ g.of \in DOMAIN heap'.obj /\ g.copy \in DOMAIN heap'.obj
    BY <2>1 DEF GuardOK, Live, Kept
  <2>3. /\ AddressSeq(heap, g.copy) \in Seq(Addresses)
        /\ AddressSeq(heap', g.copy) \in Seq(Addresses)
    BY <2>2, EntriesAre DEF Inv, HeapInv, Live
  <2>4. IsPrefix(AddressSeq(heap, g.copy), AddressSeq(heap', g.copy))
    <3>1. CASE g.copy = w
      BY <3>1
    <3>2. CASE g.copy # w
      <4>1. AddressSeq(heap', g.copy) = AddressSeq(heap, g.copy)
        BY <2>2, <3>2, SameAddresses DEF Kept
      <4>. QED BY <2>3, <4>1, PrefixSelf
    <3>. QED BY <3>1, <3>2
  <2>. HIDE DEF g
  <2>5. GuardOK(heap', g)
    BY <2>1, <2>2, <2>3, <2>4, GuardStays
  <2>. QED BY <2>5 DEF g
<1>. QED BY <1>1 DEF Inv, GuardsInv

\* A guard is right while both its wallets are untouched.
LEMMA GuardUntouched ==
  ASSUME NEW hp, NEW hq, NEW g, GuardOK(hp, g), g.of \in DOMAIN hq.obj,
         g.copy \in DOMAIN hq.obj, Untouched(hp, hq, g.copy)
  PROVE  GuardOK(hq, g)
BY SameAddresses DEF GuardOK

\* The guards after GuardBegin: the new copy is nobody else's and begins with
\* what the guard saw.
LEMMA BeginGuards ==
  ASSUME Inv, HeapInv', NEW kind \in {"view", "update"}, NEW w \in Live, NEW to \in Names,
         Joined(to), AddressSeq(heap', to) = AddressSeq(heap, w),
         NEW g, g = [kind |-> kind, of |-> w, copy |-> to, seen |-> AddressSeq(heap, w)],
         guards' = Append(guards, g)
  PROVE  GuardsInv'
<1> DEFINE len == Len(guards)
<1>1. /\ guards \in Seq(Guards) /\ len \in Nat
      /\ \A n \in 1 .. len : guards[n] \in Guards /\ GuardOK(heap, guards[n])
      /\ Stacked(guards)
  BY DEF Inv, GuardsInv
<1>2. AddressSeq(heap, w) \in Seq(Addresses) /\ w \in Names
  BY AddressSeqIs DEF Inv, HeapInv
<1>3. g \in Guards /\ g.of = w /\ g.copy = to /\ g.seen = AddressSeq(heap, w)
  BY <1>2 DEF Guards
<1>4. /\ guards' \in Seq(Guards)
      /\ Len(guards') = len + 1
      /\ guards'[len + 1] = g
      /\ \A n \in 1 .. len : guards'[n] = guards[n]
  BY <1>1, <1>3
<1>5. GuardOK(heap', g)
  <2>1. IsPrefix(AddressSeq(heap, w), AddressSeq(heap', to))
    BY <1>2, PrefixSelf
  <2>. QED BY <1>3, <2>1 DEF GuardOK, Joined, Live
<1>6. ASSUME NEW n \in 1 .. len PROVE GuardOK(heap', guards[n])
  <2>1. /\ GuardOK(heap, guards[n])
        /\ guards[n].of \in DOMAIN heap'.obj
        /\ guards[n].copy \in DOMAIN heap'.obj
        /\ Untouched(heap, heap', guards[n].copy)
    BY <1>1 DEF GuardOK, Joined, Live
  <2>. QED BY <2>1, GuardUntouched
<1>7. ASSUME NEW n \in 1 .. len
      PROVE  /\ to # guards[n].of
             /\ to # guards[n].copy
             /\ w = guards[n].copy => IsPrefix(guards[n].seen, AddressSeq(heap, w))
  BY <1>1 DEF GuardOK, Joined, Live
<1>8. Stacked(guards')
  <2> SUFFICES ASSUME NEW k \in 1 .. len + 1, NEW n \in 1 .. len + 1, k < n
               PROVE  /\ guards'[n].copy # guards'[k].of
                      /\ guards'[n].copy # guards'[k].copy
                      /\ guards'[n].of = guards'[k].copy =>
                           IsPrefix(guards'[k].seen, guards'[n].seen)
    BY <1>4 DEF Stacked
  <2>1. k \in 1 .. len /\ guards'[k] = guards[k]
    BY <1>1, <1>4
  <2>2. CASE n = len + 1
    BY <1>3, <1>4, <1>7, <2>1, <2>2
  <2>3. CASE n # len + 1
    <3>1. n \in 1 .. len /\ guards'[n] = guards[n]
      BY <1>1, <1>4, <2>3
    <3>. QED BY <1>1, <2>1, <3>1 DEF Stacked
  <2>. QED BY <2>2, <2>3
<1>9. \A n \in 1 .. Len(guards') : GuardOK(heap', guards'[n])
  BY <1>1, <1>4, <1>5, <1>6
<1>. QED BY <1>4, <1>8, <1>9 DEF GuardsInv

\* The innermost guard ends.
LEMMA FrontOf ==
  ASSUME Inv, guards # <<>>, guards' = Front(guards)
  PROVE  /\ Len(guards) \in Nat \ {0}
         /\ guards' \in Seq(Guards)
         /\ Len(guards') = Len(guards) - 1
         /\ \A n \in 1 .. Len(guards') : guards'[n] = guards[n]
         /\ Last(guards) = guards[Len(guards)]
         /\ Last(guards) \in Guards
         /\ Stacked(guards')
<1>1. guards \in Seq(Guards) /\ Len(guards) \in Nat \ {0} /\ Stacked(guards)
  BY DEF Inv, GuardsInv
<1>2. guards' = SubSeq(guards, 1, Len(guards) - 1)
  BY DEF Front
<1>3. guards' = [n \in 1 .. Len(guards) - 1 |-> guards[n]]
  BY <1>1, <1>2, FirstSlots
<1>4. /\ guards' \in Seq(Guards)
      /\ Len(guards') = Len(guards) - 1
      /\ \A n \in 1 .. Len(guards') : guards'[n] = guards[n]
  <2>1. \A n \in 1 .. Len(guards) - 1 : guards[n] \in Guards
    BY <1>1
  <2>2. guards' \in [1 .. Len(guards) - 1 -> Guards] /\ Len(guards) - 1 \in Nat
    BY <1>1, <1>3, <2>1
  <2>3. guards' \in Seq(Guards) /\ Len(guards') = Len(guards) - 1
    BY <2>2, FunctionIsSeq
  <2>. QED BY <1>3, <2>3
<1>5. Stacked(guards')
  BY <1>1, <1>4 DEF Stacked
<1>. QED BY <1>1, <1>4, <1>5 DEF Last

\* The guards after GuardEnds.
LEMMA DropGuards ==
  ASSUME Inv, guards # <<>>, guards' = Front(guards), Left(Last(guards).copy) \/ Kept({})
  PROVE  GuardsInv'
<1> DEFINE len == Len(guards)
<1>1. ASSUME NEW n \in 1 .. Len(guards') PROVE GuardOK(heap', guards'[n])
  <2>1. guards'[n] = guards[n] /\ n \in 1 .. len /\ len \in 1 .. len /\ n < len
        /\ Last(guards) = guards[len]
    BY FrontOf
  <2>2. GuardOK(heap, guards[n]) /\ Stacked(guards)
    BY <2>1 DEF Inv, GuardsInv
  <2>3. Last(guards).copy # guards[n].of /\ Last(guards).copy # guards[n].copy
    BY <2>1, <2>2 DEF Stacked
  <2>4. /\ guards[n].of \in DOMAIN heap'.obj
        /\ guards[n].copy \in DOMAIN heap'.obj
        /\ Untouched(heap, heap', guards[n].copy)
    BY <2>2, <2>3 DEF GuardOK, Left, Kept, Live
  <2>. QED BY <2>1, <2>2, <2>4, GuardUntouched
<1>. QED BY <1>1, FrontOf DEF GuardsInv

\* The guards after UpdateEnds: the wallet it replaces may be the copy of a guard
\* around it, which then begins with what that guard saw still.
LEMMA UpdateGuards ==
  ASSUME Inv, HeapInv', NEW spare \in BOOLEAN, UpdateEnds(spare)
  PROVE  GuardsInv'
<1> DEFINE len == Len(guards)
           top == guards[len]
<1>1. guards # <<>> /\ guards' = Front(guards)
  BY DEF UpdateEnds
<1>2. ASSUME NEW n \in 1 .. Len(guards') PROVE GuardOK(heap', guards'[n])
  <2> DEFINE g == guards[n]
  <2>1. guards'[n] = g /\ n \in 1 .. len /\ len \in 1 .. len /\ n < len
    BY <1>1, FrontOf
  <2>2. g \in Guards /\ top \in Guards /\ GuardOK(heap, g) /\ GuardOK(heap, top) /\ Stacked(guards)
    BY <2>1 DEF Inv, GuardsInv
  <2>3. top.copy # g.copy /\ (top.of = g.copy => IsPrefix(g.seen, top.seen))
    BY <2>1, <2>2 DEF Stacked
  <2>4. /\ Kept({top.of, top.copy})
        /\ AddressSeq(heap', top.of) = AddressSeq(heap, top.copy)
    BY UpdateStep
  <2>. HIDE DEF g, top
  <2>5. /\ g.of \in DOMAIN heap'.obj
        /\ g.copy \in DOMAIN heap'.obj
        /\ top.copy \in Live
    BY <2>2, <2>4 DEF GuardOK, Kept, Live
  <2>6. CASE g.copy = top.of
    <3>1. /\ g.seen \in Seq(Addresses) /\ top.seen \in Seq(Addresses)
          /\ AddressSeq(heap, top.copy) \in Seq(Addresses)
      BY <2>2, <2>5, AddressSeqIs DEF Guards, Inv
    <3>2. IsPrefix(g.seen, top.seen) /\ IsPrefix(top.seen, AddressSeq(heap, top.copy))
      BY <2>2, <2>3, <2>6 DEF GuardOK
    <3>3. IsPrefix(g.seen, AddressSeq(heap, top.copy))
      BY <3>1, <3>2, PrefixOfPrefix
    <3>4. GuardOK(heap', g)
      BY <2>2, <2>4, <2>5, <2>6, <3>3 DEF GuardOK
    <3>. QED BY <2>1, <3>4
  <2>7. CASE g.copy # top.of
    <3>1. Untouched(heap, heap', g.copy)
      BY <2>2, <2>3, <2>4, <2>7 DEF GuardOK, Kept, Live
    <3>. QED BY <2>1, <2>2, <2>5, <3>1, GuardUntouched
  <2>. QED BY <2>6, <2>7
<1>. QED BY <1>1, <1>2, FrontOf DEF GuardsInv

\* The guard GuardEnds ends has its copy, and so the copy can go.
LEMMA TopIsLive ==
  ASSUME Inv, guards # <<>>
  PROVE  /\ Last(guards) = guards[Len(guards)]
         /\ Last(guards) \in Guards
         /\ GuardOK(heap, Last(guards))
         /\ Last(guards).copy \in Live
<1>1. Len(guards) \in 1 .. Len(guards)
  BY DEF Inv, GuardsInv
<1>. QED BY <1>1 DEF Inv, GuardsInv, GuardOK, Last, Live

\* What GuardEnds does to the heap: an open copy goes, a locked one is erased already.
LEMMA EndsStep ==
  ASSUME Inv, GuardEnds
  PROVE  /\ guards # <<>> /\ guards' = Front(guards)
         /\ Last(guards).copy \in Live
         /\ HeapInv'
         /\ Left(Last(guards).copy) \/ Kept({})
<1> DEFINE copy == Last(guards).copy
<1>1. /\ guards # <<>> /\ guards' = Front(guards)
      /\ heap' = Collected(Erase(heap, copy), IF Locked(copy) THEN Live ELSE Live \ {copy})
  BY DEF GuardEnds
<1>2. copy \in Live /\ HeapInv
  BY <1>1, TopIsLive DEF Inv
<1>. HIDE DEF copy
<1>3. CASE ~Locked(copy)
  <2>1. heap' = Collected(Erase(heap, copy), Live \ {copy})
    BY <1>1, <1>3
  <2>. QED BY <1>1, <1>2, <2>1, DropStep DEF copy
<1>4. CASE Locked(copy)
  <2>1. IsHeap(heap) /\ Sound(heap, Live) /\ Live = DOMAIN heap.obj
    BY <1>2 DEF HeapInv, Live
  <2>2. Erase(heap, copy) = heap
    <3>1. MetaOf(heap, copy).locked = TRUE
      BY <1>2, <1>4, <2>1, LockedIsBoolean
    <3>. QED BY <1>2, <2>1, <3>1, EraseLocked
  <2>3. heap' = Collected(heap, Live)
    BY <1>1, <1>4, <2>2
  <2>4. IsHeap(heap') /\ DOMAIN heap'.obj = Live /\ \A v \in Live : Untouched(heap, heap', v)
    BY <2>1, <2>3, CollectedOK
  <2>5. Sound(heap', Live)
    BY <2>1, <2>4, UntouchedIsSound
  <2>6. Live' = Live
    BY <2>4 DEF Live
  <2>. QED BY <1>1, <1>2, <2>4, <2>5, <2>6 DEF HeapInv, Kept, copy
<1>. QED BY <1>3, <1>4

\* The guards after Discard, which takes no wallet a guard holds.
LEMMA DiscardGuards ==
  ASSUME Inv, NEW w \in Live, w \notin Held, Left(w), UNCHANGED guards
  PROVE  GuardsInv'
<1>1. ASSUME NEW n \in 1 .. Len(guards) PROVE GuardOK(heap', guards[n])
  <2>1. GuardOK(heap, guards[n])
    BY DEF Inv, GuardsInv
  <2>2. n \in DOMAIN guards
    BY DEF Inv, GuardsInv
  <2>3. guards[n].of # w /\ guards[n].copy # w
    BY <2>2 DEF Held
  <2>4. /\ guards[n].of \in DOMAIN heap'.obj
        /\ guards[n].copy \in DOMAIN heap'.obj
        /\ Untouched(heap, heap', guards[n].copy)
    BY <2>1, <2>3 DEF GuardOK, Left, Live
  <2>. QED BY <2>1, <2>4, GuardUntouched
<1>. QED BY <1>1 DEF Inv, GuardsInv

\* The guards after CloneWallet and UnlockWallet.
LEMMA JoinedGuards ==
  ASSUME Inv, NEW to, Joined(to), UNCHANGED guards
  PROVE  GuardsInv'
<1>1. ASSUME NEW n \in 1 .. Len(guards) PROVE GuardOK(heap', guards[n])
  <2>1. GuardOK(heap, guards[n])
    BY DEF Inv, GuardsInv
  <2>2. /\ guards[n].of \in DOMAIN heap'.obj
        /\ guards[n].copy \in DOMAIN heap'.obj
        /\ Untouched(heap, heap', guards[n].copy)
    BY <2>1 DEF GuardOK, Joined, Live
  <2>. QED BY <2>1, <2>2, GuardUntouched
<1>. QED BY <1>1 DEF Inv, GuardsInv

\* The invariant holds at the start.
LEMMA InitInv == Init => Inv
<1> SUFFICES ASSUME Init PROVE Inv
  OBVIOUS
<1>1. PICK name \in Names : heap =
        [obj    |-> [w \in {name} |-> [meta |-> <<name, 1>>, array |-> Nil, len |-> 0]],
         metas  |-> [m \in {<<name, 1>>} |->
                       [locked |-> FALSE, seed |-> TRUE, sealed |-> NothingSealed]],
         arrays |-> [a \in {Nil} |-> <<>>]]
  BY DEF Init
<1>2. /\ DOMAIN heap.obj = {name}
      /\ heap.obj[name] = [meta |-> <<name, 1>>, array |-> Nil, len |-> 0]
      /\ DOMAIN heap.metas = {<<name, 1>>} /\ DOMAIN heap.arrays = {Nil}
      /\ MetaOf(heap, name) = [locked |-> FALSE, seed |-> TRUE, sealed |-> NothingSealed]
      /\ heap.arrays[Nil] = <<>>
      /\ heap = [obj |-> heap.obj, metas |-> heap.metas, arrays |-> heap.arrays]
  BY <1>1 DEF MetaOf
<1>3. IsHeap(heap)
  <2>1. IsFiniteSet({name})
    BY FS_Singleton
  <2>2. heap.obj \in [{name} -> [meta : {<<name, 1>>}, array : {Nil}, len : Nat]]
    BY <1>1
  <2>3. heap.metas \in [{<<name, 1>>} -> Metas]
    <3>1. NothingSealed \in [seed : BOOLEAN, keys : SUBSET Addresses]
      BY DEF NothingSealed
    <3>. HIDE DEF NothingSealed
    <3>. QED BY <1>1, <3>1 DEF Metas
  <2>4. heap.arrays \in [{Nil} -> Seq(Slots)]
    BY <1>1
  <2>. QED BY <1>2, <2>1, <2>2, <2>3, <2>4 DEF IsHeap
<1>4. EntriesOf(heap, name) = <<>> /\ DOMAIN EntriesOf(heap, name) = {}
  BY <1>2 DEF EntriesOf
<1>5. Sound(heap, Live)
  BY <1>2, <1>4 DEF Sound, Complete, Live
<1>6. GuardsInv
  BY DEF Init, GuardsInv, Stacked
<1>. QED BY <1>2, <1>3, <1>5, <1>6 DEF Inv, HeapInv, Live

\* Every step preserves the invariant.
LEMMA NextInv == Inv /\ [Next]_vars => Inv'
<1> SUFFICES ASSUME Inv, [Next]_vars PROVE Inv'
  OBVIOUS
<1>. HeapInv
  BY DEF Inv
<1>1. ASSUME NEW w \in Live, NEW spare \in BOOLEAN, NEW a \in Addresses, AddEntry(w, a, spare)
      PROVE  Inv'
  <2>1. /\ HeapInv' /\ Kept({w})
        /\ AddressSeq(heap', w) = Append(AddressSeq(heap, w), a)
    BY <1>1, AddEntryStep
  <2>2. IsPrefix(AddressSeq(heap, w), AddressSeq(heap', w))
    BY <2>1, AddressSeqIs, PrefixAppend
  <2>3. UNCHANGED guards
    BY <1>1 DEF AddEntry
  <2>. QED BY <2>1, <2>2, <2>3, GuardsKept DEF Inv
<1>2. ASSUME NEW w \in Live, NEW spare \in BOOLEAN, LockWallet(w, spare)
      PROVE  Inv'
  <2>1. HeapInv' /\ Kept({w}) /\ AddressSeq(heap', w) = AddressSeq(heap, w)
    BY <1>2, LockWalletStep
  <2>2. IsPrefix(AddressSeq(heap, w), AddressSeq(heap', w))
    BY <2>1, AddressSeqIs, PrefixSelf
  <2>3. UNCHANGED guards
    BY <1>2 DEF LockWallet
  <2>. QED BY <2>1, <2>2, <2>3, GuardsKept DEF Inv
<1>3. ASSUME NEW w \in Live, NEW spare \in BOOLEAN, NEW to \in Names, CloneWallet(w, to, spare)
      PROVE  Inv'
  <2>1. HeapInv' /\ Joined(to)
    BY <1>3, CloneStep DEF CloneWallet
  <2>2. UNCHANGED guards
    BY <1>3 DEF CloneWallet
  <2>. QED BY <2>1, <2>2, JoinedGuards DEF Inv
<1>4. ASSUME NEW w \in Live, NEW spare \in BOOLEAN, NEW to \in Names, UnlockWallet(w, to, spare)
      PROVE  Inv'
  <2>1. HeapInv' /\ Joined(to)
    BY <1>4, UnlockStep DEF UnlockWallet
  <2>2. UNCHANGED guards
    BY <1>4 DEF UnlockWallet
  <2>. QED BY <2>1, <2>2, JoinedGuards DEF Inv
<1>5. ASSUME NEW w \in Live, NEW spare \in BOOLEAN, NEW to \in Names,
             NEW kind \in {"view", "update"}, GuardBegin(kind, w, to, spare)
      PROVE  Inv'
  <2>1. HeapInv' /\ Joined(to) /\ AddressSeq(heap', to) = AddressSeq(heap, w)
    BY <1>5, UnlockStep DEF GuardBegin
  <2>2. guards' = Append(guards, [kind |-> kind, of |-> w, copy |-> to,
                                  seen |-> AddressSeq(heap, w)])
    BY <1>5 DEF GuardBegin
  <2>. QED BY <2>1, <2>2, BeginGuards DEF Inv
<1>6. ASSUME NEW w \in Live, Discard(w)
      PROVE  Inv'
  <2>1. HeapInv' /\ Left(w)
    BY <1>6, DropStep DEF Discard
  <2>2. w \notin Held /\ UNCHANGED guards
    BY <1>6 DEF Discard
  <2>. QED BY <2>1, <2>2, DiscardGuards DEF Inv
<1>7. ASSUME GuardEnds
      PROVE  Inv'
  <2>1. /\ guards # <<>> /\ guards' = Front(guards)
        /\ HeapInv' /\ (Left(Last(guards).copy) \/ Kept({}))
    BY <1>7, EndsStep
  <2>. QED BY <2>1, DropGuards DEF Inv
<1>8. ASSUME NEW spare \in BOOLEAN, UpdateEnds(spare)
      PROVE  Inv'
  <2>1. HeapInv'
    BY <1>8, UpdateStep
  <2>. QED BY <1>8, <2>1, UpdateGuards DEF Inv
<1>9. CASE UNCHANGED vars
  BY <1>9 DEF vars, Inv, HeapInv, GuardsInv, Live
<1>. QED BY <1>1, <1>2, <1>3, <1>4, <1>5, <1>6, <1>7, <1>8, <1>9 DEF Next

\* The inductive invariant holds in every behaviour.
THEOREM InvHolds == Spec => []Inv
BY InitInv, NextInv, PTL DEF Spec

-----------------------------------------------------------------------------
(***************************************************************************)
(* The properties.                                                         *)
(***************************************************************************)

\* Every wallet and every guard is well formed.
THEOREM TypeCorrect == Spec => []TypeOK
<1>1. Inv => TypeOK
  <2> SUFFICES ASSUME Inv PROVE TypeOK
    OBVIOUS
  <2>1. ASSUME NEW w \in Live
        PROVE  /\ DOMAIN heap.obj[w] = {"meta", "array", "len"}
               /\ heap.obj[w].meta \in DOMAIN heap.metas
               /\ heap.obj[w].array \in DOMAIN heap.arrays
               /\ heap.obj[w].len \in 0 .. Len(heap.arrays[heap.obj[w].array])
    <3>1. heap.obj[w] \in [meta : DOMAIN heap.metas, array : DOMAIN heap.arrays, len : Nat]
      BY MetaIs DEF Inv, HeapInv, Live
    <3>2. /\ heap.obj[w].len <= Len(heap.arrays[heap.obj[w].array])
          /\ heap.arrays[heap.obj[w].array] \in Seq(Slots)
      BY <3>1 DEF Inv, HeapInv, Live, IsHeap
    <3>. QED BY <3>1, <3>2
  <2>2. ASSUME NEW n \in DOMAIN guards
        PROVE  /\ DOMAIN guards[n] = {"kind", "of", "copy", "seen"}
               /\ guards[n].kind \in {"view", "update"}
               /\ {guards[n].of, guards[n].copy} \subseteq Live
               /\ guards[n].seen \in Seq(Addresses)
    <3>1. n \in 1 .. Len(guards) /\ guards[n] \in Guards
      BY DEF Inv, GuardsInv
    <3>2. GuardOK(heap, guards[n])
      BY <3>1 DEF Inv, GuardsInv
    <3>. QED BY <3>1, <3>2 DEF Guards, GuardOK, Live
  <2>. QED BY <2>1, <2>2 DEF TypeOK, Inv, HeapInv
<1>. QED BY <1>1, InvHolds, PTL

\* Wallets that share memory are locked, with no secret in the clear.
THEOREM SharingIsSafe == Spec => []SharedIsLocked
<1>1. Inv => SharedIsLocked
  <2> SUFFICES ASSUME Inv, NEW w \in Live, NEW v \in Live, w # v, Share(w, v)
               PROVE  /\ Locked(w) /\ Locked(v)
                      /\ ~MetaOf(heap, w).seed
                      /\ \A n \in 1 .. heap.obj[w].len : ~EntriesOf(heap, w)[n].secret
    BY DEF SharedIsLocked
  <2>1. Sound(heap, Live) /\ IsHeap(heap)
    BY DEF Inv, HeapInv
  <2>2. heap.obj[w] = heap.obj[v] /\ MetaOf(heap, w).locked = TRUE
    BY <2>1 DEF Sound, Sharing, Share
  <2>3. Locked(w) /\ Locked(v)
    BY <2>2 DEF Locked, MetaOf
  <2>4. /\ MetaOf(heap, w).seed = FALSE
        /\ \A n \in DOMAIN EntriesOf(heap, w) : EntriesOf(heap, w)[n].secret = FALSE
    BY <2>1, <2>2, LockedIsErased
  <2>5. DOMAIN EntriesOf(heap, w) = 1 .. heap.obj[w].len
    BY <2>1, EntriesAre DEF Live
  <2>. QED BY <2>3, <2>4, <2>5
<1>. QED BY <1>1, InvHolds, PTL

\* Every wallet keeps all its secrets, whatever was done to the others.
THEOREM NothingIsLost == Spec => []NothingLost
<1>1. Inv => NothingLost
  <2> SUFFICES ASSUME Inv, NEW w \in Live
               PROVE  IF Locked(w)
                      THEN MetaOf(heap, w).sealed
                             = [seed |-> TRUE, keys |-> AddressesOf(heap, w)]
                      ELSE /\ MetaOf(heap, w).seed
                           /\ \A n \in 1 .. heap.obj[w].len : EntriesOf(heap, w)[n].secret
    BY DEF NothingLost
  <2>1. Complete(MetaOf(heap, w), EntriesOf(heap, w)) /\ IsHeap(heap)
    BY DEF Inv, HeapInv, Sound
  <2>2. DOMAIN EntriesOf(heap, w) = 1 .. heap.obj[w].len
    BY <2>1, EntriesAre DEF Live
  <2>3. AddressesOf(heap, w)
          = { EntriesOf(heap, w)[n].address : n \in DOMAIN EntriesOf(heap, w) }
    BY DEF AddressesOf, AddressSeq, ToSet
  <2>. QED BY <2>1, <2>2, <2>3 DEF Complete, Locked
<1>. QED BY <1>1, InvHolds, PTL

\* An untouched wallet has its value.
LEMMA UntouchedIsUnchanged ==
  ASSUME NEW w, Untouched(heap, heap', w)
  PROVE  Value(w)' = Value(w)
BY DEF Untouched, Value

\* A set within a singleton has at most one element.
LEMMA AtMostOne ==
  ASSUME NEW S, NEW w, S \subseteq {w}
  PROVE  Cardinality(S) <= 1
<1>1. S = {} \/ S = {w}
  OBVIOUS
<1>2. Cardinality({}) = 0 /\ Cardinality({w}) = 1
  BY FS_EmptySet, FS_Singleton
<1>. QED BY <1>1, <1>2

\* A step on one wallet changes that wallet only; one that ends an update changes
\* the wallet and its copy; one that adds or drops a wallet changes none.
THEOREM OneWalletAtATime == Spec => OneAtATime
<1>1. ASSUME Inv, [Next]_vars
      PROVE  [IF Live' # Live THEN Changed = {}
              ELSE IF guards' = guards THEN Cardinality(Changed) <= 1
              ELSE Changed \subseteq {Last(guards).of, Last(guards).copy}]_vars
  <2> DEFINE P == IF Live' # Live THEN Changed = {}
                  ELSE IF guards' = guards THEN Cardinality(Changed) <= 1
                  ELSE Changed \subseteq {Last(guards).of, Last(guards).copy}
  <2>. HeapInv
    BY <1>1 DEF Inv
  <2>1. ASSUME NEW w, Kept({w}), UNCHANGED guards PROVE P
    <3>1. Changed \subseteq {w} /\ Live' = Live
      BY <2>1, UntouchedIsUnchanged DEF Changed, Kept
    <3>. QED BY <2>1, <3>1, AtMostOne
  <2>2. ASSUME NEW to, Joined(to) PROVE P
    <3>1. Changed = {} /\ Live' # Live
      BY <2>2, UntouchedIsUnchanged DEF Changed, Joined
    <3>. QED BY <3>1
  <2>3. ASSUME NEW w \in Live, Left(w) PROVE P
    <3>1. Changed = {} /\ Live' # Live
      BY <2>3, UntouchedIsUnchanged DEF Changed, Left
    <3>. QED BY <3>1
  <2>. HIDE DEF P
  <2>4. ASSUME NEW w \in Live, NEW spare \in BOOLEAN, NEW a \in Addresses, AddEntry(w, a, spare)
        PROVE  P
    <3>1. Kept({w}) /\ UNCHANGED guards
      BY <2>4, AddEntryStep DEF AddEntry
    <3>. QED BY <2>1, <3>1
  <2>5. ASSUME NEW w \in Live, NEW spare \in BOOLEAN, LockWallet(w, spare)
        PROVE  P
    <3>1. Kept({w}) /\ UNCHANGED guards
      BY <2>5, LockWalletStep DEF LockWallet
    <3>. QED BY <2>1, <3>1
  <2>6. ASSUME NEW w \in Live, NEW spare \in BOOLEAN, NEW to \in Names, CloneWallet(w, to, spare)
        PROVE  P
    <3>1. Joined(to)
      BY <2>6, CloneStep DEF CloneWallet
    <3>. QED BY <2>2, <3>1
  <2>7. ASSUME NEW w \in Live, NEW spare \in BOOLEAN, NEW to \in Names, UnlockWallet(w, to, spare)
        PROVE  P
    <3>1. Joined(to)
      BY <2>7, UnlockStep DEF UnlockWallet
    <3>. QED BY <2>2, <3>1
  <2>8. ASSUME NEW w \in Live, NEW spare \in BOOLEAN, NEW to \in Names,
               NEW kind \in {"view", "update"}, GuardBegin(kind, w, to, spare)
        PROVE  P
    <3>1. Joined(to)
      BY <2>8, UnlockStep DEF GuardBegin
    <3>. QED BY <2>2, <3>1
  <2>9. ASSUME NEW w \in Live, Discard(w)
        PROVE  P
    <3>1. Left(w)
      BY <2>9, DropStep DEF Discard
    <3>. QED BY <2>3, <3>1
  <2>10. ASSUME GuardEnds
         PROVE  P
    <3>1. /\ Last(guards).copy \in Live
          /\ Left(Last(guards).copy) \/ Kept({})
          /\ guards # <<>> /\ guards' = Front(guards)
      BY <1>1, <2>10, EndsStep
    <3>2. CASE Left(Last(guards).copy)
      BY <2>3, <3>1, <3>2
    <3>3. CASE Kept({})
      <4>1. Changed = {} /\ Live' = Live
        BY <3>3, UntouchedIsUnchanged DEF Changed, Kept
      <4>2. Len(guards) \in Nat \ {0} /\ Len(guards') = Len(guards) - 1
        BY <1>1, <3>1, FrontOf
      <4>3. guards' # guards
        BY <4>2
      <4>. QED BY <4>1, <4>3 DEF P
    <3>. QED BY <3>1, <3>2, <3>3
  <2>11. ASSUME NEW spare \in BOOLEAN, UpdateEnds(spare)
         PROVE  P
    <3>1. Kept({Last(guards).of, Last(guards).copy})
      BY <1>1, <2>11, UpdateStep DEF Last
    <3>2. Live' = Live /\ Changed \subseteq {Last(guards).of, Last(guards).copy}
      BY <3>1, UntouchedIsUnchanged DEF Changed, Kept
    <3>3. guards' # guards
      <4>1. guards # <<>> /\ guards' = Front(guards)
        BY <2>11 DEF UpdateEnds
      <4>2. Len(guards) \in Nat \ {0} /\ Len(guards') = Len(guards) - 1
        BY <1>1, <4>1, FrontOf
      <4>. QED BY <4>2
    <3>. QED BY <3>2, <3>3 DEF P
  <2>12. CASE UNCHANGED vars
    BY <2>12
  <2>13. P \/ UNCHANGED vars
    BY <1>1, <2>4, <2>5, <2>6, <2>7, <2>8, <2>9, <2>10, <2>11 DEF Next
  <2>. QED BY <2>13 DEF P
<1>. QED BY <1>1, InvHolds, PTL DEF Spec, OneAtATime

\* Entries leave a wallet only as GuardUpdate puts an older copy in place: one
\* whose wallet has got more since the guard began.
THEOREM OnlyOldCopiesDropEntries == Spec => OldCopiesOnly
<1> DEFINE Older(w) ==
             /\ guards' # guards
             /\ Last(guards).kind = "update"
             /\ w = Last(guards).of
             /\ Last(guards).seen # AddressSeq(heap, w)
           P == \A w \in Live \cap Live' :
                  ~IsPrefix(AddressSeq(heap, w), AddressSeq(heap, w)') => Older(w)
<1>1. ASSUME Inv, [Next]_vars
      PROVE  [P]_vars
  <2>. HeapInv
    BY <1>1 DEF Inv
  <2>. HIDE DEF Older
  <2>1. ASSUME NEW v \in Live, Untouched(heap, heap', v)
        PROVE  IsPrefix(AddressSeq(heap, v), AddressSeq(heap, v)')
    <3>1. AddressSeq(heap, v)' = AddressSeq(heap, v)
      BY <2>1, SameAddresses
    <3>. QED BY <3>1, AddressSeqIs, PrefixSelf
  <2>2. ASSUME NEW w \in Live, Kept({w}), IsPrefix(AddressSeq(heap, w), AddressSeq(heap', w))
        PROVE  P
    BY <2>1, <2>2 DEF Kept
  <2>3. ASSUME NEW to, Joined(to) PROVE P
    BY <2>1, <2>3 DEF Joined
  <2>4. ASSUME NEW w \in Live, Left(w) PROVE P
    BY <2>1, <2>4 DEF Left
  <2>. HIDE DEF P
  <2>5. ASSUME NEW w \in Live, NEW spare \in BOOLEAN, NEW a \in Addresses, AddEntry(w, a, spare)
        PROVE  P
    <3>1. Kept({w}) /\ AddressSeq(heap', w) = Append(AddressSeq(heap, w), a)
      BY <2>5, AddEntryStep
    <3>2. IsPrefix(AddressSeq(heap, w), AddressSeq(heap', w))
      BY <3>1, AddressSeqIs, PrefixAppend
    <3>. QED BY <2>2, <3>1, <3>2
  <2>6. ASSUME NEW w \in Live, NEW spare \in BOOLEAN, LockWallet(w, spare)
        PROVE  P
    <3>1. Kept({w}) /\ AddressSeq(heap', w) = AddressSeq(heap, w)
      BY <2>6, LockWalletStep
    <3>2. IsPrefix(AddressSeq(heap, w), AddressSeq(heap', w))
      BY <3>1, AddressSeqIs, PrefixSelf
    <3>. QED BY <2>2, <3>1, <3>2
  <2>7. ASSUME NEW w \in Live, NEW spare \in BOOLEAN, NEW to \in Names, CloneWallet(w, to, spare)
        PROVE  P
    <3>1. Joined(to)
      BY <2>7, CloneStep DEF CloneWallet
    <3>. QED BY <2>3, <3>1
  <2>8. ASSUME NEW w \in Live, NEW spare \in BOOLEAN, NEW to \in Names, UnlockWallet(w, to, spare)
        PROVE  P
    <3>1. Joined(to)
      BY <2>8, UnlockStep DEF UnlockWallet
    <3>. QED BY <2>3, <3>1
  <2>9. ASSUME NEW w \in Live, NEW spare \in BOOLEAN, NEW to \in Names,
               NEW kind \in {"view", "update"}, GuardBegin(kind, w, to, spare)
        PROVE  P
    <3>1. Joined(to)
      BY <2>9, UnlockStep DEF GuardBegin
    <3>. QED BY <2>3, <3>1
  <2>10. ASSUME NEW w \in Live, Discard(w)
         PROVE  P
    <3>1. Left(w)
      BY <2>10, DropStep DEF Discard
    <3>. QED BY <2>4, <3>1
  <2>11. ASSUME GuardEnds
         PROVE  P
    <3>1. Last(guards).copy \in Live /\ (Left(Last(guards).copy) \/ Kept({}))
      BY <1>1, <2>11, EndsStep
    <3>2. CASE Kept({})
      BY <2>1, <3>2 DEF Kept, P
    <3>. QED BY <2>4, <3>1, <3>2
  <2>12. ASSUME NEW spare \in BOOLEAN, UpdateEnds(spare)
         PROVE  P
    <3> DEFINE top == Last(guards)
    <3>1. guards # <<>> /\ guards' = Front(guards) /\ top.kind = "update"
      BY <2>12 DEF UpdateEnds
    <3>2. guards' # guards
      <4>1. Len(guards) \in Nat \ {0} /\ Len(guards') = Len(guards) - 1
        BY <1>1, <3>1, FrontOf
      <4>. QED BY <4>1
    <3>3. top = guards[Len(guards)] /\ GuardOK(heap, top) /\ top.of \in Live /\ top.copy \in Live
      BY <1>1, <3>1, TopIsLive DEF GuardOK, Live
    <3>. HIDE DEF top
    <3>4. /\ Kept({top.of, top.copy})
          /\ AddressSeq(heap', top.copy) = AddressSeq(heap, top.copy)
          /\ AddressSeq(heap', top.of) = AddressSeq(heap, top.copy)
      BY <1>1, <2>12, <3>3, UpdateStep
    <3>5. ASSUME NEW v \in Live, ~IsPrefix(AddressSeq(heap, v), AddressSeq(heap, v)')
          PROVE  v = top.of /\ top.seen # AddressSeq(heap, v)
      <4>1. v = top.of \/ v = top.copy
        BY <2>1, <3>4, <3>5 DEF Kept
      <4>2. AddressSeq(heap', v) = AddressSeq(heap, top.copy)
        BY <3>4, <4>1
      <4>3. v # top.copy
        BY <3>3, <3>5, <4>2, AddressSeqIs, PrefixSelf
      <4>4. top.seen # AddressSeq(heap, v)
        BY <3>3, <3>5, <4>2 DEF GuardOK
      <4>. QED BY <4>1, <4>3, <4>4
    <3>. QED BY <3>1, <3>2, <3>5 DEF P, Older, top
  <2>13. P \/ UNCHANGED vars
    BY <1>1, <2>5, <2>6, <2>7, <2>8, <2>9, <2>10, <2>11, <2>12 DEF Next
  <2>. QED BY <2>13
<1>2. [][P]_vars => OldCopiesOnly
  BY PTL DEF OldCopiesOnly
<1>. QED BY <1>1, <1>2, InvHolds, PTL DEF Spec
=============================================================================
