--------------------------- MODULE CursorStoreProofs ---------------------------
(***************************************************************************)
(* What CursorRegistry and CursorIndex say of the memory of the cursors    *)
(* holds for every number of places, every size and every limit: the       *)
(* totals are exactly what the occupied places are charged, and room is    *)
(* made by the least recently used lineages that may go, no more of them   *)
(* than needed; a live token is found wherever the deletions have moved    *)
(* it, a reference that was given up is never valid again, and a size is   *)
(* refused just when it does not fit.                                      *)
(***************************************************************************)
EXTENDS CursorStore, CollectionLemmas

-------------------------------------------------------------------------------
(* The members of a set in a line                                          *)

Scan(q, S, n, h) ==
  h = [m \in 0 .. n |->
         IF m = 0 THEN <<>> ELSE IF q[m] \in S THEN Append(h[m - 1], q[m]) ELSE h[m - 1]]

Scanned(q, S) == CHOOSE h : Scan(q, S, Len(q), h)

LEMMA OnlyDef == \A q, S : Only(q, S) = Scanned(q, S)[Len(q)]
BY DEF Only, Scan, Scanned

LEMMA ScanExists ==
  ASSUME NEW q, NEW S, NEW L \in Nat
  PROVE  \E h : Scan(q, S, L, h)
<1> DEFINE Bad == {n \in 0 .. L : \A h : ~Scan(q, S, n, h)}
<1> SUFFICES ASSUME Bad # {} PROVE FALSE
  OBVIOUS
<1>1. Min(Bad) \in Bad /\ \A y \in Bad : Min(Bad) <= y
  <2>1. Bad \in SUBSET Nat
    OBVIOUS
  <2> HIDE DEF Bad
  <2> QED BY <2>1, LeastNumber
<1> DEFINE n == Min(Bad)
<1> n \in 0 .. L /\ \A h : ~Scan(q, S, n, h)
  BY <1>1
<1> HIDE DEF n
<1>2. CASE n = 0
  <2>1. Scan(q, S, 0, [m \in 0 .. 0 |-> <<>>])
    BY DEF Scan
  <2> QED BY <1>2, <2>1
<1>3. CASE n # 0
  <2>1. n - 1 \in 0 .. L /\ n - 1 \notin Bad
    BY <1>1, <1>3 DEF n
  <2>2. PICK h : Scan(q, S, n - 1, h)
    BY <2>1
  <2> DEFINE g == [m \in 0 .. n |-> IF m < n THEN h[m]
                                    ELSE IF q[n] \in S THEN Append(h[n - 1], q[n]) ELSE h[n - 1]]
  <2>3. \A m \in 0 .. n - 1 :
          h[m] = IF m = 0 THEN <<>> ELSE IF q[m] \in S THEN Append(h[m - 1], q[m]) ELSE h[m - 1]
    BY <2>2 DEF Scan
  <2>4. \A m \in 0 .. n - 1 : m \in 0 .. n /\ g[m] = h[m]
    BY <2>1
  <2>5. n \in 0 .. n /\ g[n] = IF q[n] \in S THEN Append(h[n - 1], q[n]) ELSE h[n - 1]
    BY <2>1
  <2>6. g = [m \in 0 .. n |-> g[m]]
    OBVIOUS
  <2> HIDE DEF g
  <2>7. \A m \in 0 .. n :
          g[m] = IF m = 0 THEN <<>> ELSE IF q[m] \in S THEN Append(g[m - 1], q[m]) ELSE g[m - 1]
    <3> TAKE m \in 0 .. n
    <3>1. CASE m = n
      <4>1. n - 1 \in 0 .. n - 1 /\ g[n - 1] = h[n - 1]
        BY <1>3, <2>1, <2>4
      <4> QED BY <1>3, <2>5, <3>1, <4>1
    <3>2. CASE m # n
      <4>1. m \in 0 .. n - 1 /\ (m # 0 => m - 1 \in 0 .. n - 1)
        BY <3>2
      <4> QED BY <2>3, <2>4, <4>1
    <3> QED BY <3>1, <3>2
  <2>8. Scan(q, S, n, g)
    BY <2>6, <2>7 DEF Scan
  <2> QED BY <2>8
<1> QED BY <1>2, <1>3

(* Only(q, S) keeps the members of S, all of them, each as often as in q,  *)
(* and in its order.                                                       *)
LEMMA OnlyFacts ==
  ASSUME NEW T, NEW q \in Seq(T), NEW S
  PROVE  /\ Only(q, S) \in Seq(T)
         /\ ToSet(Only(q, S)) = ToSet(q) \cap S
         /\ \A i, j \in 1 .. Len(Only(q, S)) :
              i < j => \E a, b \in 1 .. Len(q) : a < b /\ Only(q, S)[i] = q[a] /\ Only(q, S)[j] = q[b]
<1> DEFINE L == Len(q)
           h == Scanned(q, S)
           Good(n) == /\ h[n] \in Seq(T)
                      /\ \A i \in 1 .. Len(h[n]) :
                           h[n][i] \in S /\ \E a \in 1 .. n : h[n][i] = q[a]
                      /\ \A a \in 1 .. n : q[a] \in S => \E i \in 1 .. Len(h[n]) : h[n][i] = q[a]
                      /\ \A i, j \in 1 .. Len(h[n]) :
                           i < j => \E a, b \in 1 .. n : a < b /\ h[n][i] = q[a] /\ h[n][j] = q[b]
           Bad == {n \in 0 .. L : ~Good(n)}
<1>1. L \in Nat /\ DOMAIN q = 1 .. L /\ \A a \in 1 .. L : q[a] \in T
  OBVIOUS
<1>2. Scan(q, S, L, h)
  BY <1>1, ScanExists DEF Scanned
<1> HIDE DEF h, L
<1>3. \A m \in 0 .. L :
        h[m] = IF m = 0 THEN <<>> ELSE IF q[m] \in S THEN Append(h[m - 1], q[m]) ELSE h[m - 1]
  BY <1>2 DEF Scan
<1>4. Good(0)
  <2>1. h[0] = <<>>
    BY <1>1, <1>3
  <2>2. <<>> \in Seq(T) /\ Len(<<>>) = 0 /\ 1 .. 0 = {}
    OBVIOUS
  <2> QED BY <2>1, <2>2
<1>5. ASSUME NEW n \in 1 .. L, Good(n - 1) PROVE Good(n)
  <2> DEFINE r == h[n - 1]
             t == h[n]
             k == Len(r)
  <2>1. t = IF q[n] \in S THEN Append(r, q[n]) ELSE r
    BY <1>1, <1>3
  <2>2. /\ r \in Seq(T)
        /\ \A i \in 1 .. k : r[i] \in S /\ \E a \in 1 .. n - 1 : r[i] = q[a]
        /\ \A a \in 1 .. n - 1 : q[a] \in S => \E i \in 1 .. k : r[i] = q[a]
        /\ \A i, j \in 1 .. k :
             i < j => \E a, b \in 1 .. n - 1 : a < b /\ r[i] = q[a] /\ r[j] = q[b]
    BY <1>5
  <2>3. /\ k \in Nat /\ DOMAIN r = 1 .. k /\ n \in Nat /\ n \in 1 .. n /\ q[n] \in T
        /\ \A a \in 1 .. n : a = n \/ a \in 1 .. n - 1
        /\ \A a \in 1 .. n - 1 : a \in 1 .. n /\ a < n
    BY <1>1, <2>2
  <2>4. CASE q[n] \notin S
    <3>1. t = r
      BY <2>1, <2>4
    <3> HIDE DEF r, k
    <3>2. \A i \in 1 .. k : r[i] \in S /\ \E a \in 1 .. n : r[i] = q[a]
      BY <2>2, <2>3
    <3>3. \A a \in 1 .. n : q[a] \in S => \E i \in 1 .. k : r[i] = q[a]
      BY <2>2, <2>3, <2>4
    <3>4. ASSUME NEW i \in 1 .. k, NEW j \in 1 .. k, i < j
          PROVE  \E a, b \in 1 .. n : a < b /\ r[i] = q[a] /\ r[j] = q[b]
      <4>1. PICK a \in 1 .. n - 1, b \in 1 .. n - 1 : a < b /\ r[i] = q[a] /\ r[j] = q[b]
        BY <2>2, <3>4
      <4> QED BY <2>3, <4>1
    <3> QED BY <2>2, <3>1, <3>2, <3>3, <3>4 DEF k
  <2>5. CASE q[n] \in S
    <3>1. t = Append(r, q[n])
      BY <2>1, <2>5
    <3>2. /\ t \in Seq(T) /\ Len(t) = k + 1
          /\ \A i \in 1 .. k : t[i] = r[i]
          /\ t[k + 1] = q[n]
      BY <2>2, <2>3, <3>1
    <3> HIDE DEF r, t, k
    <3>3. \A i \in 1 .. k + 1 : i = k + 1 \/ i \in 1 .. k
      BY <2>3
    <3>4. ASSUME NEW i \in 1 .. k + 1
          PROVE  t[i] \in S /\ \E a \in 1 .. n : t[i] = q[a]
      <4>1. CASE i = k + 1
        BY <2>3, <2>5, <3>2, <4>1
      <4>2. CASE i \in 1 .. k
        <5>1. r[i] \in S /\ \E a \in 1 .. n - 1 : r[i] = q[a]
          BY <2>2, <4>2
        <5> QED BY <2>3, <3>2, <4>2, <5>1
      <4> QED BY <3>3, <4>1, <4>2
    <3>5. ASSUME NEW a \in 1 .. n, q[a] \in S PROVE \E i \in 1 .. k + 1 : t[i] = q[a]
      <4>1. CASE a = n
        BY <2>3, <3>2, <4>1
      <4>2. CASE a \in 1 .. n - 1
        <5>1. PICK i \in 1 .. k : r[i] = q[a]
          BY <2>2, <3>5, <4>2
        <5> QED BY <2>3, <3>2, <5>1
      <4> QED BY <2>3, <4>1, <4>2
    <3>6. ASSUME NEW i \in 1 .. k + 1, NEW j \in 1 .. k + 1, i < j
          PROVE  \E a, b \in 1 .. n : a < b /\ t[i] = q[a] /\ t[j] = q[b]
      <4>1. i \in 1 .. k
        BY <2>3, <3>6
      <4>2. CASE j = k + 1
        <5>1. PICK a \in 1 .. n - 1 : r[i] = q[a]
          BY <2>2, <4>1
        <5> QED BY <2>3, <3>2, <4>1, <4>2, <5>1
      <4>3. CASE j \in 1 .. k
        <5>1. PICK a \in 1 .. n - 1, b \in 1 .. n - 1 : a < b /\ r[i] = q[a] /\ r[j] = q[b]
          BY <2>2, <3>6, <4>1, <4>3
        <5> QED BY <2>3, <3>2, <4>1, <4>3, <5>1
      <4> QED BY <3>3, <4>2, <4>3
    <3> QED BY <3>2, <3>4, <3>5, <3>6 DEF t
  <2> QED BY <2>4, <2>5
<1>6. Bad = {}
  <2> SUFFICES ASSUME Bad # {} PROVE FALSE
    OBVIOUS
  <2>1. Bad \in SUBSET Nat
    BY <1>1
  <2> HIDE DEF Good
  <2>2. Min(Bad) \in Bad /\ \A y \in Bad : Min(Bad) <= y
    <3> HIDE DEF Bad
    <3> QED BY <2>1, LeastNumber
  <2>3. Min(Bad) \in 1 .. L /\ ~Good(Min(Bad))
    BY <1>1, <1>4, <2>2
  <2>4. Min(Bad) - 1 \in 0 .. L /\ Min(Bad) - 1 \notin Bad
    BY <1>1, <2>2, <2>3
  <2>5. Good(Min(Bad) - 1)
    BY <2>4
  <2> QED BY <1>5, <2>3, <2>5
<1>7. Good(L)
  <2> HIDE DEF Good
  <2>1. L \in 0 .. L
    BY <1>1
  <2>2. L \notin Bad
    <3> HIDE DEF Bad
    <3> QED BY <1>6
  <2> QED BY <2>1, <2>2
<1>8. Only(q, S) = h[L]
  BY OnlyDef DEF h, L
<1> DEFINE r == h[L]
<1>9. /\ r \in Seq(T) /\ DOMAIN r = 1 .. Len(r)
      /\ \A i \in 1 .. Len(r) : r[i] \in S /\ \E a \in 1 .. L : r[i] = q[a]
      /\ \A a \in 1 .. L : q[a] \in S => \E i \in 1 .. Len(r) : r[i] = q[a]
      /\ \A i, j \in 1 .. Len(r) :
           i < j => \E a, b \in 1 .. L : a < b /\ r[i] = q[a] /\ r[j] = q[b]
  BY <1>7
<1> HIDE DEF r, Good, Bad
<1>10. ToSet(r) = ToSet(q) \cap S
  <2>1. \A x \in ToSet(r) : x \in ToSet(q) /\ x \in S
    BY <1>1, <1>9 DEF ToSet
  <2>2. ASSUME NEW x \in ToSet(q), x \in S PROVE x \in ToSet(r)
    <3>1. PICK a \in 1 .. L : q[a] = x
      BY <1>1, <2>2 DEF ToSet
    <3> QED BY <1>9, <2>2, <3>1 DEF ToSet
  <2> QED BY <2>1, <2>2
<1>11. Only(q, S) = r
  BY <1>8 DEF r
<1> QED BY <1>9, <1>10, <1>11 DEF L

LEMMA OnlyInjective ==
  ASSUME NEW T, NEW q \in Seq(T), IsInjective(q), NEW S
  PROVE  IsInjective(Only(q, S))
<1> DEFINE r == Only(q, S)
<1>1. /\ r \in Seq(T)
      /\ \A i, j \in 1 .. Len(r) :
           i < j => \E a, b \in 1 .. Len(q) : a < b /\ r[i] = q[a] /\ r[j] = q[b]
  BY OnlyFacts
<1>2. DOMAIN q = 1 .. Len(q) /\ DOMAIN r = 1 .. Len(r) /\ Len(r) \in Nat /\ Len(q) \in Nat
  BY <1>1
<1> HIDE DEF r
<1>3. ASSUME NEW i \in 1 .. Len(r), NEW j \in 1 .. Len(r), i < j PROVE r[i] # r[j]
  BY <1>1, <1>2, <1>3 DEF IsInjective
<1>4. IsInjective(r)
  BY <1>2, <1>3 DEF IsInjective
<1> QED BY <1>4 DEF r

-------------------------------------------------------------------------------
(* The invariant                                                           *)

Place ==
  [phase : {"none", "provisional", "publishing", "published", "rollback"}, read : BOOLEAN,
   entries : Seq(Nat), runtime : SUBSET (1 .. MaxPages), pins : Nat,
   reservedSlots : Nat, reservedBytes : Nat, dynamicBytes : Nat,
   age : {"fresh", "stale", "over"}, protected : BOOLEAN]

(* A free place is clear; an occupied one has its first page, no page      *)
(* beyond the limit, and is charged what it holds.                         *)
Sound(p) ==
  /\ p \in Place
  /\ p.pins = Cardinality(p.runtime)
  /\ p.phase = "none" => p = Free
  /\ p.phase # "none" =>
       /\ Len(p.entries) \in 1 .. MaxPages
       /\ p.dynamicBytes = FoldSeq(+, 0, p.entries) + FixedBytes + p.reservedBytes

ArenaInv == lineages \in [Lineages -> Place] /\ \A l \in Lineages : Sound(lineages[l])

OrderInv == lru \in Seq(Lineages) /\ OrderExact

ChargeInv ==
  /\ usedSlots = Slots(Lineages) /\ usedSlots \in 0 .. MaxEntries
  /\ totalBytes = Bytes(Lineages) /\ totalBytes \in 0 .. MaxBytes

ReleaseInv == closed \in BOOLEAN /\ released \in BOOLEAN /\ StorageReleased

IInv == ArenaInv /\ OrderInv /\ ChargeInv /\ ReleaseInv

-------------------------------------------------------------------------------
(* The charges                                                             *)

SlotSizes(places) == [l \in Lineages |-> SlotsOf(places[l])]
ByteSizes(places) == [l \in Lineages |-> places[l].dynamicBytes]

LEMMA TotalsAreSums ==
  \A L : /\ Slots(L) = SumOver(SlotSizes(lineages), L)
         /\ Bytes(L) = SumOver(ByteSizes(lineages), L)
BY DEF Slots, Bytes, SlotSizes, ByteSizes, SumOver

LEMMA TotalsAreSumsNext ==
  \A L : /\ Slots(L)' = SumOver(SlotSizes(lineages'), L)
         /\ Bytes(L)' = SumOver(ByteSizes(lineages'), L)
BY DEF Slots, Bytes, SlotSizes, ByteSizes, SumOver, FoldFunctionOnSet, MapThenFoldSet

(* Clearing V takes off what V was charged ...                             *)
LEMMA Cleared ==
  ASSUME NEW f \in [Lineages -> Nat], NEW g \in [Lineages -> Nat], NEW V \in SUBSET Lineages,
         \A x \in V : g[x] = 0, \A x \in Lineages \ V : g[x] = f[x]
  PROVE  /\ SumOver(g, Lineages) \in Nat /\ SumOver(f, Lineages) \in Nat /\ SumOver(f, V) \in Nat
         /\ SumOver(g, Lineages) = SumOver(f, Lineages) - SumOver(f, V)
<1>1. IsFiniteSet(Lineages) /\ IsFiniteSet(V)
  BY RegistryAssumption, FS_Subset
<1>2. SumOver(g, Lineages) = SumOver(f, Lineages) - SumOver(f, V) + SumOver(g, V)
  BY <1>1, SumChange
<1>3. SumOver(g, V) = 0
  BY <1>1, SumZero
<1>4. SumOver(g, Lineages) \in Nat /\ SumOver(f, Lineages) \in Nat
  BY <1>1, SumFacts
<1>5. SumOver(f, V) \in Nat
  <2>1. \A x \in V : f[x] \in Nat
    OBVIOUS
  <2> QED BY <1>1, <2>1, SumFacts
<1> QED BY <1>2, <1>3, <1>4, <1>5

(* ... and what l is charged now replaces what it was.                     *)
LEMMA Replaced ==
  ASSUME NEW f \in [Lineages -> Nat], NEW g \in [Lineages -> Nat], NEW V \in SUBSET Lineages,
         NEW l \in Lineages \ V,
         \A x \in V : g[x] = 0, \A x \in Lineages \ (V \cup {l}) : g[x] = f[x]
  PROVE  /\ SumOver(g, Lineages) \in Nat /\ SumOver(f, Lineages) \in Nat /\ SumOver(f, V) \in Nat
         /\ SumOver(g, Lineages) = SumOver(f, Lineages) - SumOver(f, V) - f[l] + g[l]
<1> DEFINE h == [x \in Lineages |-> IF x \in V THEN 0 ELSE f[x]]
<1>1. IsFiniteSet(Lineages)
  BY RegistryAssumption
<1>2. h \in [Lineages -> Nat]
  OBVIOUS
<1>3. /\ SumOver(h, Lineages) \in Nat /\ SumOver(f, Lineages) \in Nat /\ SumOver(f, V) \in Nat
      /\ SumOver(h, Lineages) = SumOver(f, Lineages) - SumOver(f, V)
  <2>1. (\A x \in V : h[x] = 0) /\ \A x \in Lineages \ V : h[x] = f[x]
    OBVIOUS
  <2> HIDE DEF h
  <2> QED BY <1>2, <2>1, Cleared
<1>4. (\A x \in Lineages \ {l} : g[x] = h[x]) /\ h[l] = f[l]
  OBVIOUS
<1> HIDE DEF h
<1>5. SumOver(g, Lineages) = SumOver(h, Lineages) - SumOver(h, {l}) + SumOver(g, {l})
  <2>1. {l} \in SUBSET Lineages /\ \A x \in Lineages : h[x] \in Nat /\ g[x] \in Nat
    BY <1>2
  <2> QED BY <1>1, <1>4, <2>1, SumChange
<1>6. SumOver(h, {l}) = f[l] /\ SumOver(g, {l}) = g[l] /\ f[l] \in Nat /\ g[l] \in Nat
  BY <1>2, <1>4, SumOfOne
<1>7. SumOver(g, Lineages) \in Nat
  BY <1>1, SumFacts
<1> QED BY <1>3, <1>5, <1>6, <1>7

LEMMA FreeIsSound == Sound(Free) /\ SlotsOf(Free) = 0 /\ Free.dynamicBytes = 0
<1>1. Cardinality({}) = 0
  BY FS_EmptySet
<1>2. <<>> \in Seq(Nat) /\ Len(<<>>) = 0
  OBVIOUS
<1>3. Free \in Place
  BY <1>2 DEF Free, Place
<1>4. /\ Free.phase = "none" /\ Free.pins = 0 /\ Free.runtime = {} /\ Free.entries = <<>>
      /\ Free.reservedSlots = 0 /\ Free.dynamicBytes = 0
  BY DEF Free
<1>5. SlotsOf(Free) = 0
  BY <1>2, <1>4 DEF SlotsOf
<1>6. Sound(Free)
  BY <1>1, <1>3, <1>4 DEF Sound
<1> QED BY <1>4, <1>5, <1>6

LEMMA SoundSizes ==
  ASSUME NEW p, Sound(p)
  PROVE  SlotsOf(p) \in Nat /\ p.dynamicBytes \in Nat
<1>1. p \in Place
  BY DEF Sound
<1>2. p.entries \in Seq(Nat) /\ p.reservedSlots \in Nat /\ p.dynamicBytes \in Nat
  BY <1>1 DEF Place
<1>3. Len(p.entries) \in Nat
  BY <1>2
<1> QED BY <1>2, <1>3 DEF SlotsOf

LEMMA SizesAreNumbers ==
  ASSUME NEW places, \A l \in Lineages : Sound(places[l])
  PROVE  SlotSizes(places) \in [Lineages -> Nat] /\ ByteSizes(places) \in [Lineages -> Nat]
BY SoundSizes DEF SlotSizes, ByteSizes

(* Every step but Close clears the places V and gives one place a new      *)
(* content: what becomes of the places then.                                *)
ArenaNext(V, l, p) ==
  /\ ArenaInv'
  /\ Occupied(lineages') = IF p.phase = "none" THEN Occupied(lineages) \ (V \cup {l})
                           ELSE (Occupied(lineages) \ V) \cup {l}
  /\ Slots(V) \in Nat /\ Slots(Lineages)' \in Nat
  /\ Slots(Lineages)' = Slots(Lineages) - Slots(V) - SlotsOf(lineages[l]) + SlotsOf(p)
  /\ Bytes(V) \in Nat /\ Bytes(Lineages)' \in Nat
  /\ Bytes(Lineages)' = Bytes(Lineages) - Bytes(V) - lineages[l].dynamicBytes + p.dynamicBytes

LEMMA ArenaStep ==
  ASSUME ArenaInv, NEW V \in SUBSET Lineages, NEW l \in Lineages \ V, NEW p, Sound(p),
         lineages' = [Evicted(V) EXCEPT ![l] = p]
  PROVE  ArenaNext(V, l, p)
<1>1. lineages' = [x \in Lineages |-> IF x = l THEN p ELSE IF x \in V THEN Free ELSE lineages[x]]
  BY DEF Evicted
<1>2. \A x \in Lineages : Sound(lineages'[x])
  BY <1>1, FreeIsSound DEF ArenaInv
<1>3. ArenaInv'
  <2>1. lineages' \in [Lineages -> Place]
    BY <1>1, <1>2 DEF Sound
  <2> QED BY <1>2, <2>1 DEF ArenaInv
<1>4. Occupied(lineages') = IF p.phase = "none" THEN Occupied(lineages) \ (V \cup {l})
                            ELSE (Occupied(lineages) \ V) \cup {l}
  BY <1>1 DEF Occupied, Free
<1>5. \A x \in Lineages : Sound(lineages[x])
  BY DEF ArenaInv
<1> DEFINE sf == SlotSizes(lineages)
           sg == SlotSizes(lineages')
           bf == ByteSizes(lineages)
           bg == ByteSizes(lineages')
<1>6. sf \in [Lineages -> Nat] /\ sg \in [Lineages -> Nat] /\ bf \in [Lineages -> Nat]
      /\ bg \in [Lineages -> Nat]
  BY <1>2, <1>5, SizesAreNumbers
<1>7. /\ \A x \in V : sg[x] = 0 /\ bg[x] = 0
      /\ \A x \in Lineages \ (V \cup {l}) : sg[x] = sf[x] /\ bg[x] = bf[x]
      /\ sf[l] = SlotsOf(lineages[l]) /\ sg[l] = SlotsOf(p)
      /\ bf[l] = lineages[l].dynamicBytes /\ bg[l] = p.dynamicBytes
  BY <1>1, FreeIsSound DEF SlotSizes, ByteSizes
<1>8. /\ Slots(V) = SumOver(sf, V) /\ Slots(Lineages) = SumOver(sf, Lineages)
      /\ Slots(Lineages)' = SumOver(sg, Lineages)
      /\ Bytes(V) = SumOver(bf, V) /\ Bytes(Lineages) = SumOver(bf, Lineages)
      /\ Bytes(Lineages)' = SumOver(bg, Lineages)
  BY TotalsAreSums, TotalsAreSumsNext
<1> HIDE DEF sf, sg, bf, bg
<1>9. /\ SumOver(sg, Lineages) \in Nat /\ SumOver(sf, V) \in Nat
      /\ SumOver(sg, Lineages) = SumOver(sf, Lineages) - SumOver(sf, V) - sf[l] + sg[l]
  <2>1. (\A x \in V : sg[x] = 0) /\ \A x \in Lineages \ (V \cup {l}) : sg[x] = sf[x]
    BY <1>7
  <2>2. sf \in [Lineages -> Nat] /\ sg \in [Lineages -> Nat]
    BY <1>6
  <2> QED BY <2>1, <2>2, Replaced
<1>10. /\ SumOver(bg, Lineages) \in Nat /\ SumOver(bf, V) \in Nat
       /\ SumOver(bg, Lineages) = SumOver(bf, Lineages) - SumOver(bf, V) - bf[l] + bg[l]
  <2>1. (\A x \in V : bg[x] = 0) /\ \A x \in Lineages \ (V \cup {l}) : bg[x] = bf[x]
    BY <1>7
  <2>2. bf \in [Lineages -> Nat] /\ bg \in [Lineages -> Nat]
    BY <1>6
  <2> QED BY <2>1, <2>2, Replaced
<1> QED BY <1>3, <1>4, <1>7, <1>8, <1>9, <1>10 DEF ArenaNext

(* The same if nothing is cleared.                                         *)
LEMMA PlaceStep ==
  ASSUME ArenaInv, NEW l \in Lineages, NEW p, Sound(p), lineages' = [lineages EXCEPT ![l] = p]
  PROVE  /\ ArenaInv'
         /\ Occupied(lineages') = IF p.phase = "none" THEN Occupied(lineages) \ {l}
                                  ELSE Occupied(lineages) \cup {l}
         /\ Slots(Lineages)' \in Nat
         /\ Slots(Lineages)' = Slots(Lineages) - SlotsOf(lineages[l]) + SlotsOf(p)
         /\ Bytes(Lineages)' \in Nat
         /\ Bytes(Lineages)' = Bytes(Lineages) - lineages[l].dynamicBytes + p.dynamicBytes
<1> DEFINE V == {}
<1>1. lineages' = [Evicted(V) EXCEPT ![l] = p]
  BY DEF Evicted, ArenaInv
<1>2. Slots(V) = 0 /\ Bytes(V) = 0
  BY TotalsAreSums, SumUnfolds, FS_EmptySet
<1>3. Slots(Lineages) \in Nat /\ Bytes(Lineages) \in Nat
  <2>1. SlotSizes(lineages) \in [Lineages -> Nat] /\ ByteSizes(lineages) \in [Lineages -> Nat]
    BY SizesAreNumbers DEF ArenaInv
  <2>2. /\ \A x \in Lineages : SlotSizes(lineages)[x] \in Nat
        /\ \A x \in Lineages : ByteSizes(lineages)[x] \in Nat
    BY <2>1
  <2> QED BY <2>2, TotalsAreSums, SumFacts, RegistryAssumption
<1>4. SlotsOf(lineages[l]) \in Nat /\ SlotsOf(p) \in Nat
      /\ lineages[l].dynamicBytes \in Nat /\ p.dynamicBytes \in Nat
  BY SoundSizes DEF ArenaInv
<1>5. V \in SUBSET Lineages /\ l \in Lineages \ V
      /\ V \cup {l} = {l} /\ Occupied(lineages) \ V = Occupied(lineages)
  OBVIOUS
<1> HIDE DEF V
<1>6. /\ ArenaInv'
      /\ Occupied(lineages') = IF p.phase = "none" THEN Occupied(lineages) \ (V \cup {l})
                               ELSE (Occupied(lineages) \ V) \cup {l}
      /\ Slots(Lineages)' \in Nat
      /\ Slots(Lineages)' = Slots(Lineages) - Slots(V) - SlotsOf(lineages[l]) + SlotsOf(p)
      /\ Bytes(Lineages)' \in Nat
      /\ Bytes(Lineages)' = Bytes(Lineages) - Bytes(V) - lineages[l].dynamicBytes + p.dynamicBytes
  <2>1. ArenaNext(V, l, p)
    BY <1>1, <1>5, ArenaStep
  <2> QED BY <2>1 DEF ArenaNext
<1>7. Occupied(lineages') = IF p.phase = "none" THEN Occupied(lineages) \ {l}
                            ELSE Occupied(lineages) \cup {l}
  BY <1>5, <1>6
<1>8. \A a, v, x, y \in Nat : v = 0 => a - v - x + y = a - x + y
  OBVIOUS
<1>9. Slots(Lineages)' = Slots(Lineages) - SlotsOf(lineages[l]) + SlotsOf(p)
  BY <1>2, <1>3, <1>4, <1>6, <1>8
<1>10. Bytes(Lineages)' = Bytes(Lineages) - lineages[l].dynamicBytes + p.dynamicBytes
  BY <1>2, <1>3, <1>4, <1>6, <1>8
<1> QED BY <1>6, <1>7, <1>9, <1>10

-------------------------------------------------------------------------------
(* The order of use                                                        *)

LEMMA OccupiedPlaces == Occupied(lineages) \in SUBSET Lineages
BY DEF Occupied

LEMMA WithoutFacts ==
  ASSUME OrderInv, NEW V
  PROVE  /\ Without(V) \in Seq(Lineages) /\ IsInjective(Without(V))
         /\ ToSet(Without(V)) = Occupied(lineages) \ V
<1>1. lru \in Seq(Lineages) /\ IsInjective(lru) /\ ToSet(lru) = Occupied(lineages)
  BY DEF OrderInv, OrderExact
<1>2. /\ Only(lru, Lineages \ V) \in Seq(Lineages)
      /\ ToSet(Only(lru, Lineages \ V)) = ToSet(lru) \cap (Lineages \ V)
  BY <1>1, OnlyFacts
<1>3. IsInjective(Only(lru, Lineages \ V))
  BY <1>1, OnlyInjective
<1> QED BY <1>1, <1>2, <1>3, OccupiedPlaces DEF Without

LEMMA TouchedFacts ==
  ASSUME NEW q \in Seq(Lineages), IsInjective(q), NEW l \in Lineages
  PROVE  /\ Touched(l, q) \in Seq(Lineages) /\ IsInjective(Touched(l, q))
         /\ ToSet(Touched(l, q)) = {l} \cup ToSet(q)
<1> DEFINE r == Only(q, Lineages \ {l})
<1>1. r \in Seq(Lineages) /\ ToSet(r) = ToSet(q) \cap (Lineages \ {l})
  BY OnlyFacts
<1>2. IsInjective(r)
  BY OnlyInjective
<1>3. ToSet(q) \subseteq Lineages
  BY DEF ToSet
<1>4. Touched(l, q) = <<l>> \o r
  BY DEF Touched
<1> HIDE DEF r
<1>5. /\ <<l>> \o r \in Seq(Lineages) /\ IsInjective(<<l>> \o r)
      /\ ToSet(<<l>> \o r) = {l} \cup ToSet(r)
  BY <1>1, <1>2, ConsFacts
<1> QED BY <1>1, <1>3, <1>4, <1>5

(* The lineages that may go, the least recently used first.                *)
LEMMA IdleFacts ==
  ASSUME OrderInv, NEW l
  PROVE  /\ Idle(l) \in Seq(Lineages) /\ IsInjective(Idle(l))
         /\ ToSet(Idle(l)) = {k \in Occupied(lineages) \ {l} : Evictable(k)}
         /\ \A i, j \in 1 .. Len(Idle(l)) :
              i < j => \E a, b \in 1 .. Len(lru) : b < a /\ Idle(l)[i] = lru[a] /\ Idle(l)[j] = lru[b]
<1> DEFINE q == Reverse(lru)
           n == Len(lru)
           E == {k \in Lineages \ {l} : Evictable(k)}
<1>1. /\ lru \in Seq(Lineages) /\ IsInjective(lru) /\ ToSet(lru) = Occupied(lineages)
      /\ n \in Nat /\ DOMAIN lru = 1 .. n
  BY DEF OrderInv, OrderExact
<1>2. /\ q \in Seq(Lineages) /\ Len(q) = n /\ DOMAIN q = 1 .. n
      /\ \A i \in 1 .. n : q[i] = lru[n - i + 1]
  BY <1>1 DEF Reverse
<1>3. \A i \in 1 .. n : n - i + 1 \in 1 .. n
  BY <1>1
<1> HIDE DEF q, n, E
<1>4. IsInjective(q)
  BY <1>1, <1>2, <1>3 DEF IsInjective
<1>5. ToSet(q) = ToSet(lru)
  <2>1. \A x \in ToSet(q) : x \in ToSet(lru)
    BY <1>1, <1>2, <1>3 DEF ToSet
  <2>2. ASSUME NEW x \in ToSet(lru) PROVE x \in ToSet(q)
    <3>1. PICK i \in 1 .. n : lru[i] = x
      BY <1>1 DEF ToSet
    <3>2. n - i + 1 \in 1 .. n /\ q[n - i + 1] = lru[i]
      BY <1>1, <1>2, <1>3
    <3> QED BY <1>2, <3>1, <3>2 DEF ToSet
  <2> QED BY <2>1, <2>2
<1>6. Idle(l) = Only(q, E)
  BY DEF Idle, q, E
<1>7. /\ Only(q, E) \in Seq(Lineages) /\ ToSet(Only(q, E)) = ToSet(q) \cap E
      /\ \A i, j \in 1 .. Len(Only(q, E)) :
           i < j => \E a, b \in 1 .. Len(q) : a < b /\ Only(q, E)[i] = q[a] /\ Only(q, E)[j] = q[b]
  BY <1>2, OnlyFacts
<1>8. IsInjective(Only(q, E))
  BY <1>2, <1>4, OnlyInjective
<1>9. ToSet(Idle(l)) = {k \in Occupied(lineages) \ {l} : Evictable(k)}
  BY <1>1, <1>5, <1>6, <1>7, OccupiedPlaces DEF E
<1>10. ASSUME NEW i \in 1 .. Len(Idle(l)), NEW j \in 1 .. Len(Idle(l)), i < j
       PROVE  \E a, b \in 1 .. n : b < a /\ Idle(l)[i] = lru[a] /\ Idle(l)[j] = lru[b]
  <2>1. PICK a \in 1 .. n, b \in 1 .. n : a < b /\ Idle(l)[i] = q[a] /\ Idle(l)[j] = q[b]
    BY <1>2, <1>6, <1>7, <1>10
  <2> DEFINE c == n - a + 1
             d == n - b + 1
  <2>2. c \in 1 .. n /\ d \in 1 .. n /\ d < c
    BY <1>1, <2>1
  <2>3. Idle(l)[i] = lru[c] /\ Idle(l)[j] = lru[d]
    BY <1>2, <2>1
  <2> HIDE DEF c, d
  <2> QED BY <2>2, <2>3
<1> QED BY <1>6, <1>7, <1>8, <1>9, <1>10 DEF n

(* The victims are the first few of them, as few as make enough room.      *)
LEMMA VictimsFacts ==
  ASSUME ArenaInv, OrderInv, NEW slots, NEW bytes, NEW l, CanAdmit(slots, bytes, l)
  PROVE  /\ Victims(slots, bytes, l) \in SUBSET (Occupied(lineages) \ {l})
         /\ \A v \in Victims(slots, bytes, l) : Evictable(v)
         /\ \E n \in 0 .. Len(Idle(l)) :
              /\ Victims(slots, bytes, l) = First(n, l) /\ Fits(slots, bytes, n, l)
              /\ \A m \in 0 .. n - 1 : ~Fits(slots, bytes, m, l)
<1> DEFINE N == {n \in 0 .. Len(Idle(l)) : Fits(slots, bytes, n, l)}
           n == Min(N)
<1>1. /\ Idle(l) \in Seq(Lineages) /\ Len(Idle(l)) \in Nat /\ DOMAIN Idle(l) = 1 .. Len(Idle(l))
      /\ ToSet(Idle(l)) = {k \in Occupied(lineages) \ {l} : Evictable(k)}
  BY IdleFacts
<1>2. N \in SUBSET Nat /\ N # {}
  BY <1>1 DEF CanAdmit
<1>3. n \in N /\ \A y \in N : n <= y
  <2> HIDE DEF N
  <2> QED BY <1>2, LeastNumber
<1>4. Victims(slots, bytes, l) = First(n, l)
  BY DEF Victims
<1> HIDE DEF n
<1>5. n \in 0 .. Len(Idle(l)) /\ Fits(slots, bytes, n, l)
  BY <1>3
<1>6. \A m \in 0 .. n - 1 : ~Fits(slots, bytes, m, l)
  <2> SUFFICES ASSUME NEW m \in 0 .. n - 1, Fits(slots, bytes, m, l) PROVE FALSE
    OBVIOUS
  <2>1. m \in 0 .. Len(Idle(l)) /\ ~ (n <= m)
    BY <1>1, <1>5
  <2> QED BY <1>3, <2>1
<1>7. \A v \in First(n, l) : v \in ToSet(Idle(l))
  BY <1>1, <1>5 DEF First, ToSet
<1>8. \A v \in First(n, l) : v \in Occupied(lineages) \ {l} /\ Evictable(v)
  BY <1>1, <1>7
<1> QED BY <1>4, <1>5, <1>6, <1>8

-------------------------------------------------------------------------------
(* The steps                                                               *)

LEMMA InitInv == Init => IInv
<1> SUFFICES ASSUME Init PROVE IInv
  OBVIOUS
<1>1. ArenaInv
  BY FreeIsSound DEF Init, ArenaInv, Sound
<1>2. lru = <<>> /\ Occupied(lineages) = {}
  BY DEF Init, Occupied, Free
<1>3. OrderInv
  BY <1>2 DEF OrderInv, OrderExact, IsInjective, ToSet
<1>4. SumOver(SlotSizes(lineages), Lineages) = 0 /\ SumOver(ByteSizes(lineages), Lineages) = 0
  <2>1. \A l \in Lineages : SlotSizes(lineages)[l] = 0 /\ ByteSizes(lineages)[l] = 0
    BY FreeIsSound DEF Init, SlotSizes, ByteSizes
  <2> QED BY <2>1, SumZero, RegistryAssumption
<1>5. ChargeInv
  BY <1>4, TotalsAreSums, RegistryAssumption DEF ChargeInv, Init
<1>6. ReleaseInv
  BY DEF ReleaseInv, Init, StorageReleased
<1> QED BY <1>1, <1>3, <1>5, <1>6 DEF IInv

(* A step that charges nothing and frees nothing.                          *)
LEMMA QuietStep ==
  ASSUME IInv, NEW l \in Lineages, lineages[l].phase # "none",
         NEW p \in Place, p.phase # "none", p.pins = Cardinality(p.runtime),
         p.entries = lineages[l].entries, p.reservedSlots = lineages[l].reservedSlots,
         p.reservedBytes = lineages[l].reservedBytes, p.dynamicBytes = lineages[l].dynamicBytes,
         lineages' = [lineages EXCEPT ![l] = p],
         lru' \in Seq(Lineages), IsInjective(lru'), ToSet(lru') = ToSet(lru),
         UNCHANGED <<usedSlots, totalBytes, closed, released>>
  PROVE  IInv'
<1>1. ArenaInv /\ OrderInv /\ ChargeInv /\ ReleaseInv /\ Sound(lineages[l])
  BY DEF IInv, ArenaInv
<1>2. Sound(p) /\ SlotsOf(p) = SlotsOf(lineages[l])
  BY <1>1 DEF Sound, SlotsOf
<1>3. /\ ArenaInv' /\ Occupied(lineages') = Occupied(lineages) \cup {l}
      /\ Slots(Lineages)' \in Nat /\ Bytes(Lineages)' \in Nat
      /\ Slots(Lineages)' = Slots(Lineages) - SlotsOf(lineages[l]) + SlotsOf(p)
      /\ Bytes(Lineages)' = Bytes(Lineages) - lineages[l].dynamicBytes + p.dynamicBytes
  BY <1>1, <1>2, PlaceStep
<1>4. Occupied(lineages') = Occupied(lineages)
  BY <1>3 DEF Occupied
<1>5. OrderInv'
  BY <1>1, <1>4 DEF OrderInv, OrderExact
<1>6. ChargeInv'
  <2>1. usedSlots = Slots(Lineages) /\ usedSlots \in 0 .. MaxEntries
        /\ totalBytes = Bytes(Lineages) /\ totalBytes \in 0 .. MaxBytes
    BY <1>1 DEF ChargeInv
  <2>2. SlotsOf(p) \in Nat /\ p.dynamicBytes \in Nat /\ MaxEntries \in Nat /\ MaxBytes \in Nat
    BY <1>2, SoundSizes, RegistryAssumption
  <2>3. usedSlots' = Slots(Lineages)' /\ totalBytes' = Bytes(Lineages)'
    BY <1>2, <1>3, <2>1, <2>2
  <2> QED BY <2>1, <2>3 DEF ChargeInv
<1>7. ReleaseInv'
  BY <1>1, <1>4 DEF ReleaseInv, StorageReleased
<1> QED BY <1>3, <1>5, <1>6, <1>7 DEF IInv

(* removeLineageLocked, with the place already brought up to date as p.    *)
LEMMA RemoveStep ==
  ASSUME IInv, NEW l \in Lineages, lineages[l].phase # "none",
         NEW p \in Place, p.phase # "none", p.pins = Cardinality(p.runtime),
         p.entries = lineages[l].entries, p.reservedSlots = lineages[l].reservedSlots,
         p.reservedBytes = lineages[l].reservedBytes, p.dynamicBytes = lineages[l].dynamicBytes,
         RemoveLineage(l, [lineages EXCEPT ![l] = p]), UNCHANGED closed
  PROVE  IInv'
<1> DEFINE places == [lineages EXCEPT ![l] = p]
<1>1. ArenaInv /\ OrderInv /\ ChargeInv /\ ReleaseInv /\ Sound(lineages[l])
  BY DEF IInv, ArenaInv
<1>2. lineages \in [Lineages -> Place] /\ places[l] = p
  BY <1>1 DEF ArenaInv
<1>3. CASE p.pins # 0
  <2> DEFINE q == [p EXCEPT !.phase = "rollback"]
  <2>1. lineages' = [lineages EXCEPT ![l] = q]
        /\ UNCHANGED <<lru, usedSlots, totalBytes, closed, released>>
    BY <1>2, <1>3 DEF RemoveLineage
  <2>2. /\ q \in Place /\ q.phase # "none" /\ q.pins = Cardinality(q.runtime)
        /\ q.entries = p.entries /\ q.reservedSlots = p.reservedSlots
        /\ q.reservedBytes = p.reservedBytes /\ q.dynamicBytes = p.dynamicBytes
    BY DEF Place
  <2>3. lru' \in Seq(Lineages) /\ IsInjective(lru') /\ ToSet(lru') = ToSet(lru)
    BY <1>1, <2>1 DEF OrderInv, OrderExact
  <2> HIDE DEF q
  <2> QED BY <2>1, <2>2, <2>3, QuietStep
<1>4. CASE p.pins = 0
  <2>1. /\ lineages' = [lineages EXCEPT ![l] = Free] /\ lru' = Without({l})
        /\ usedSlots' = usedSlots - SlotsOf(p) /\ totalBytes' = totalBytes - p.dynamicBytes
        /\ released' = (closed /\ Occupied(places) = {l})
    BY <1>2, <1>4 DEF RemoveLineage
  <2>2. /\ Sound(Free) /\ SlotsOf(Free) = 0 /\ Free.dynamicBytes = 0 /\ Free.phase = "none"
        /\ SlotsOf(p) = SlotsOf(lineages[l])
    BY FreeIsSound DEF SlotsOf, Free
  <2>3. /\ ArenaInv' /\ Occupied(lineages') = Occupied(lineages) \ {l}
        /\ Slots(Lineages)' \in Nat /\ Bytes(Lineages)' \in Nat
        /\ Slots(Lineages)' = Slots(Lineages) - SlotsOf(lineages[l]) + SlotsOf(Free)
        /\ Bytes(Lineages)' = Bytes(Lineages) - lineages[l].dynamicBytes + Free.dynamicBytes
    BY <1>1, <2>1, <2>2, PlaceStep
  <2>4. OrderInv'
    BY <1>1, <2>1, <2>3, WithoutFacts DEF OrderInv, OrderExact
  <2>5. ChargeInv'
    <3>1. /\ usedSlots = Slots(Lineages) /\ usedSlots \in 0 .. MaxEntries
          /\ totalBytes = Bytes(Lineages) /\ totalBytes \in 0 .. MaxBytes
      BY <1>1 DEF ChargeInv
    <3>2. /\ SlotsOf(lineages[l]) \in Nat /\ lineages[l].dynamicBytes \in Nat
          /\ MaxEntries \in Nat /\ MaxBytes \in Nat
      BY <1>1, SoundSizes, RegistryAssumption
    <3>3. usedSlots' = Slots(Lineages)' /\ usedSlots' <= usedSlots
      BY <2>1, <2>2, <2>3, <3>1, <3>2
    <3>4. totalBytes' = Bytes(Lineages)' /\ totalBytes' <= totalBytes
      BY <2>1, <2>2, <2>3, <3>1, <3>2
    <3> QED BY <2>3, <3>1, <3>2, <3>3, <3>4 DEF ChargeInv
  <2>6. ReleaseInv'
    <3>1. Occupied(places) = Occupied(lineages) /\ l \in Occupied(lineages)
      BY <1>2 DEF Occupied
    <3>2. closed' = closed /\ closed \in BOOLEAN
      BY <1>1 DEF ReleaseInv
    <3>3. released' = (closed /\ Occupied(lineages) = {l})
      BY <2>1, <3>1
    <3>4. Occupied(lineages) = {l} <=> Occupied(lineages') = {}
      BY <2>3, <3>1
    <3> HIDE DEF places
    <3>5. released' \in BOOLEAN
      BY <3>3
    <3>6. released' <=> closed /\ Occupied(lineages) = {l}
      BY <3>3
    <3>7. released' <=> closed' /\ Occupied(lineages') = {}
      BY <3>2, <3>4, <3>6
    <3> QED BY <3>2, <3>5, <3>7 DEF ReleaseInv, StorageReleased
  <2> QED BY <2>3, <2>4, <2>5, <2>6 DEF IInv
<1>5. p.pins \in Nat
  BY DEF Place
<1> QED BY <1>3, <1>4

LEMMA InvParts ==
  ASSUME IInv
  PROVE  /\ lru \in Seq(Lineages) /\ IsInjective(lru) /\ ToSet(lru) = Occupied(lineages)
         /\ lineages \in [Lineages -> Place]
         /\ \A l \in Lineages : lineages[l].pins = Cardinality(lineages[l].runtime)
BY DEF IInv, ArenaInv, OrderInv, OrderExact, Sound

(* A touch changes the order, and who is in it only by the one touched.    *)
LEMMA TouchKeeps ==
  ASSUME IInv, NEW l \in Lineages, lineages[l].phase # "none"
  PROVE  /\ Touched(l, lru) \in Seq(Lineages) /\ IsInjective(Touched(l, lru))
         /\ ToSet(Touched(l, lru)) = ToSet(lru)
<1>1. lru \in Seq(Lineages) /\ IsInjective(lru) /\ ToSet(lru) = Occupied(lineages)
  BY InvParts
<1>2. l \in ToSet(lru)
  BY <1>1 DEF Occupied
<1>3. /\ Touched(l, lru) \in Seq(Lineages) /\ IsInjective(Touched(l, lru))
      /\ ToSet(Touched(l, lru)) = {l} \cup ToSet(lru)
  BY <1>1, TouchedFacts
<1> QED BY <1>2, <1>3

LEMMA NobodyComputesForNone ==
  ASSUME IInv, NEW l \in Lineages, lineages[l].runtime # {}
  PROVE  lineages[l].phase # "none"
<1>1. Sound(lineages[l])
  BY DEF IInv, ArenaInv
<1>2. lineages[l].phase = "none" => lineages[l] = Free
  BY <1>1 DEF Sound
<1>3. Free.runtime = {}
  BY DEF Free
<1> QED BY <1>2, <1>3

LEMMA PhaseStep ==
  ASSUME IInv, NEW l \in Lineages, Prepare(l) \/ Commit(l) \/ TimePasses(l) \/ Condemn(l)
  PROVE  IInv'
<1>1. /\ lineages \in [Lineages -> Place] /\ lineages[l] \in Place
      /\ lineages[l].pins = Cardinality(lineages[l].runtime)
  BY InvParts
<1>2. lineages[l].phase # "none"
  <2>1. CASE Condemn(l)
    BY <2>1, NobodyComputesForNone DEF Condemn
  <2> QED BY <2>1 DEF Prepare, Commit, TimePasses
<1>3. UNCHANGED <<lru, usedSlots, totalBytes, closed, released>>
  BY DEF Prepare, Commit, TimePasses, Condemn
<1>4. \E ph \in {"publishing", "published", "rollback", lineages[l].phase},
         age \in {"fresh", "stale", "over"}, protected \in BOOLEAN :
        lineages' = [lineages EXCEPT ![l] =
                       [lineages[l] EXCEPT !.phase = ph, !.age = age, !.protected = protected]]
  <2> DEFINE Goal(ph, age, protected) ==
        lineages' = [lineages EXCEPT ![l] =
                       [lineages[l] EXCEPT !.phase = ph, !.age = age, !.protected = protected]]
  <2>1. /\ lineages[l].age \in {"fresh", "stale", "over"} /\ lineages[l].protected \in BOOLEAN
    BY <1>1 DEF Place
  <2>2. CASE Prepare(l)
    <3>1. Goal("publishing", lineages[l].age, TRUE)
      BY <1>1, <2>2 DEF Prepare, Place
    <3> HIDE DEF Goal
    <3> QED BY <2>1, <3>1 DEF Goal
  <2>3. CASE Commit(l)
    <3>1. Goal("published", lineages[l].age, lineages[l].protected)
      BY <1>1, <2>3 DEF Commit, Place
    <3> HIDE DEF Goal
    <3> QED BY <2>1, <3>1 DEF Goal
  <2>4. CASE TimePasses(l)
    <3>1. \/ Goal(lineages[l].phase, lineages[l].age, FALSE)
          \/ Goal(lineages[l].phase, "stale", lineages[l].protected)
          \/ Goal(lineages[l].phase, "over", lineages[l].protected)
      BY <1>1, <2>4 DEF TimePasses, Place
    <3> HIDE DEF Goal
    <3> QED BY <2>1, <3>1 DEF Goal
  <2>5. CASE Condemn(l)
    <3>1. Goal("rollback", lineages[l].age, lineages[l].protected)
      BY <1>1, <2>5 DEF Condemn, Place
    <3> HIDE DEF Goal
    <3> QED BY <2>1, <3>1 DEF Goal
  <2> QED BY <2>2, <2>3, <2>4, <2>5
<1>5. PICK ph \in {"publishing", "published", "rollback", lineages[l].phase},
           age \in {"fresh", "stale", "over"}, protected \in BOOLEAN :
        lineages' = [lineages EXCEPT ![l] =
                       [lineages[l] EXCEPT !.phase = ph, !.age = age, !.protected = protected]]
  BY <1>4
<1> DEFINE p == [lineages[l] EXCEPT !.phase = ph, !.age = age, !.protected = protected]
<1>6. /\ p \in Place /\ p.phase # "none" /\ p.pins = Cardinality(p.runtime)
      /\ p.entries = lineages[l].entries /\ p.reservedSlots = lineages[l].reservedSlots
      /\ p.reservedBytes = lineages[l].reservedBytes /\ p.dynamicBytes = lineages[l].dynamicBytes
  BY <1>1, <1>2 DEF Place
<1>7. lru' \in Seq(Lineages) /\ IsInjective(lru') /\ ToSet(lru') = ToSet(lru)
  BY <1>3, InvParts
<1> HIDE DEF p
<1> QED BY <1>2, <1>3, <1>5, <1>6, <1>7, QuietStep DEF p

LEMMA RemoveAsIs ==
  ASSUME IInv, NEW l \in Lineages, lineages[l].phase # "none", RemoveLineage(l, lineages),
         UNCHANGED closed
  PROVE  IInv'
<1>1. /\ lineages \in [Lineages -> Place] /\ lineages[l] \in Place
      /\ lineages[l].pins = Cardinality(lineages[l].runtime)
  BY InvParts
<1>2. lineages = [lineages EXCEPT ![l] = lineages[l]]
  BY <1>1
<1>3. RemoveLineage(l, [lineages EXCEPT ![l] = lineages[l]])
  BY <1>2
<1> QED BY <1>1, <1>3, RemoveStep

LEMMA RollbackStep ==
  ASSUME IInv, NEW l \in Lineages, Rollback(l)
  PROVE  IInv'
<1>1. lineages[l].phase # "none" /\ RemoveLineage(l, lineages) /\ UNCHANGED closed
  BY DEF Rollback
<1> QED BY <1>1, RemoveAsIs

LEMMA LookupStep ==
  ASSUME IInv, NEW l \in Lineages, Lookup(l)
  PROVE  IInv'
<1>1. lineages[l].phase # "none"
  BY DEF Lookup, Live
<1>2. CASE Expired(l)
  <2>1. RemoveLineage(l, lineages) /\ UNCHANGED closed
    BY <1>2 DEF Lookup
  <2> QED BY <1>1, <2>1, RemoveAsIs
<1>3. CASE ~Expired(l)
  <2>1. lru' = Touched(l, lru) /\ lineages' = lineages
        /\ UNCHANGED <<usedSlots, totalBytes, closed, released>>
    BY <1>3 DEF Lookup
  <2>2. /\ lineages \in [Lineages -> Place] /\ lineages[l] \in Place
        /\ lineages[l].pins = Cardinality(lineages[l].runtime)
    BY InvParts
  <2>3. lineages' = [lineages EXCEPT ![l] = lineages[l]]
    BY <2>1, <2>2
  <2>4. lru' \in Seq(Lineages) /\ IsInjective(lru') /\ ToSet(lru') = ToSet(lru)
    BY <1>1, <2>1, TouchKeeps
  <2> QED BY <1>1, <2>1, <2>2, <2>3, <2>4, QuietStep
<1> QED BY <1>2, <1>3

LEMMA StartStep ==
  ASSUME IInv, NEW l \in Lineages, Start(l)
  PROVE  IInv'
<1> DEFINE n == Len(lineages[l].entries)
           p == [lineages[l] EXCEPT !.runtime = lineages[l].runtime \cup {n},
                               !.pins = lineages[l].pins + 1]
<1>1. /\ lineages \in [Lineages -> Place] /\ lineages[l] \in Place
      /\ lineages[l].pins = Cardinality(lineages[l].runtime)
  BY InvParts
<1>2. lineages[l].phase # "none" /\ n \notin lineages[l].runtime
  BY DEF Start, Live
<1>3. n \in 1 .. MaxPages
  <2>1. Sound(lineages[l])
    BY DEF IInv, ArenaInv
  <2> QED BY <1>2, <2>1 DEF Sound
<1>4. lineages' = [lineages EXCEPT ![l] = p] /\ lru' = Touched(l, lru)
      /\ UNCHANGED <<usedSlots, totalBytes, closed, released>>
  BY <1>1 DEF Start, Place
<1>5. Cardinality(lineages[l].runtime \cup {n}) = lineages[l].pins + 1
  <2>1. IsFiniteSet(1 .. MaxPages) /\ lineages[l].runtime \in SUBSET (1 .. MaxPages)
    <3>1. 1 \in Int /\ MaxPages \in Int
      BY RegistryAssumption
    <3>2. IsFiniteSet(1 .. MaxPages)
      BY <3>1, FS_Interval
    <3> QED BY <1>1, <3>2 DEF Place
  <2>2. IsFiniteSet(lineages[l].runtime)
    BY <2>1, FS_Subset
  <2> HIDE DEF n
  <2> QED BY <1>1, <1>2, <2>2, FS_AddElement
<1> HIDE DEF n
<1>6. /\ p \in Place /\ p.phase # "none" /\ p.pins = Cardinality(p.runtime)
      /\ p.entries = lineages[l].entries /\ p.reservedSlots = lineages[l].reservedSlots
      /\ p.reservedBytes = lineages[l].reservedBytes /\ p.dynamicBytes = lineages[l].dynamicBytes
  <2>1. p.runtime = lineages[l].runtime \cup {n} /\ p.pins = lineages[l].pins + 1
    BY <1>1 DEF Place
  <2>2. p \in Place
    <3>1. \A R \in SUBSET (1 .. MaxPages), c \in Nat :
            [lineages[l] EXCEPT !.runtime = R, !.pins = c] \in Place
      BY <1>1 DEF Place
    <3>2. lineages[l].runtime \cup {n} \in SUBSET (1 .. MaxPages)
      BY <1>1, <1>3 DEF Place
    <3>3. lineages[l].pins + 1 \in Nat
      BY <1>1 DEF Place
    <3> QED BY <3>1, <3>2, <3>3
  <2> QED BY <1>1, <1>2, <1>5, <2>1, <2>2 DEF Place
<1>7. lru' \in Seq(Lineages) /\ IsInjective(lru') /\ ToSet(lru') = ToSet(lru)
  BY <1>2, <1>4, TouchKeeps
<1> HIDE DEF p
<1> QED BY <1>2, <1>4, <1>6, <1>7, QuietStep

LEMMA FinishStep ==
  ASSUME IInv, NEW l \in Lineages, NEW i, Finish(l, i)
  PROVE  IInv'
<1> DEFINE p == [lineages[l] EXCEPT !.runtime = lineages[l].runtime \ {i},
                               !.pins = lineages[l].pins - 1]
           unpinned == [lineages EXCEPT ![l].runtime = @ \ {i}, ![l].pins = @ - 1]
<1>1. /\ lineages \in [Lineages -> Place] /\ lineages[l] \in Place
      /\ lineages[l].pins = Cardinality(lineages[l].runtime)
  BY InvParts
<1>2. i \in lineages[l].runtime /\ closed' = closed
  BY DEF Finish
<1>3. unpinned = [lineages EXCEPT ![l] = p]
  BY <1>1 DEF Place
<1>4. lineages[l].phase # "none"
  BY <1>2, NobodyComputesForNone
<1>5. Cardinality(lineages[l].runtime \ {i}) = lineages[l].pins - 1 /\ lineages[l].pins - 1 \in Nat
  <2>1. IsFiniteSet(1 .. MaxPages) /\ lineages[l].runtime \in SUBSET (1 .. MaxPages)
    <3>1. 1 \in Int /\ MaxPages \in Int
      BY RegistryAssumption
    <3>2. IsFiniteSet(1 .. MaxPages)
      BY <3>1, FS_Interval
    <3> QED BY <1>1, <3>2 DEF Place
  <2>2. IsFiniteSet(lineages[l].runtime) /\ IsFiniteSet(lineages[l].runtime \ {i})
    BY <2>1, FS_Subset
  <2>3. Cardinality(lineages[l].runtime \ {i}) = Cardinality(lineages[l].runtime) - 1
    BY <1>2, <2>2, FS_RemoveElement
  <2>4. Cardinality(lineages[l].runtime \ {i}) \in Nat
    BY <2>2, FS_CardinalityType
  <2> QED BY <1>1, <2>3, <2>4
<1>6. /\ p \in Place /\ p.phase # "none" /\ p.pins = Cardinality(p.runtime)
      /\ p.entries = lineages[l].entries /\ p.reservedSlots = lineages[l].reservedSlots
      /\ p.reservedBytes = lineages[l].reservedBytes /\ p.dynamicBytes = lineages[l].dynamicBytes
  <2>1. p.runtime = lineages[l].runtime \ {i} /\ p.pins = lineages[l].pins - 1
    BY <1>1 DEF Place
  <2>2. p \in Place
    BY <1>1, <1>5 DEF Place
  <2> QED BY <1>1, <1>4, <1>5, <2>1, <2>2 DEF Place
<1>7. \/ lineages' = unpinned /\ UNCHANGED <<lru, usedSlots, totalBytes, released>>
      \/ RemoveLineage(l, unpinned)
  BY DEF Finish
<1> HIDE DEF p, unpinned
<1>8. CASE lineages' = unpinned /\ UNCHANGED <<lru, usedSlots, totalBytes, released>>
  <2>1. lru' \in Seq(Lineages) /\ IsInjective(lru') /\ ToSet(lru') = ToSet(lru)
    BY <1>8, InvParts
  <2> QED BY <1>2, <1>3, <1>4, <1>6, <1>8, <2>1, QuietStep
<1>9. CASE RemoveLineage(l, unpinned)
  <2>1. RemoveLineage(l, [lineages EXCEPT ![l] = p])
    BY <1>3, <1>9
  <2> QED BY <1>2, <1>4, <1>6, <2>1, RemoveStep
<1> QED BY <1>7, <1>8, <1>9

LEMMA CommitInitialStep ==
  ASSUME IInv, NEW l \in Lineages, NEW read \in BOOLEAN, NEW transferred \in BOOLEAN,
         NEW size \in Sizes, NEW slots \in 1 .. MaxPages, NEW bytes \in Reservations,
         CommitInitial(l, read, size, slots, bytes, transferred)
  PROVE  IInv'
<1> DEFINE charge == size + FixedBytes + bytes
           V == Victims(slots + 1, charge, l)
           p == [Free EXCEPT !.phase = "provisional", !.read = read, !.entries = <<size>>,
                             !.reservedSlots = slots, !.reservedBytes = bytes,
                             !.dynamicBytes = charge]
<1>1. /\ ArenaInv /\ OrderInv /\ ChargeInv /\ ReleaseInv
      /\ Sound(lineages[l]) /\ lineages[l] \in Place
      /\ lineages \in [Lineages -> Place]
  BY DEF IInv, ArenaInv
<1>2. /\ ~closed /\ lineages[l].phase = "none" /\ CanAdmit(slots + 1, charge, l)
      /\ MaxPages >= 2 /\ UNCHANGED <<closed, released>>
  BY DEF CommitInitial
<1>3. /\ size \in Nat /\ bytes \in Nat /\ slots \in Nat /\ FixedBytes \in Nat /\ charge \in Nat
      /\ MaxPages \in Nat /\ MaxEntries \in Nat /\ MaxBytes \in Nat
  BY RegistryAssumption
<1>4. lineages[l] = Free /\ SlotsOf(lineages[l]) = 0 /\ lineages[l].dynamicBytes = 0
  BY <1>1, <1>2, FreeIsSound DEF Sound
<1>5. IF transferred
      THEN /\ lineages' = [Evicted(V) EXCEPT ![l] = p] /\ lru' = <<l>> \o Without(V)
           /\ usedSlots' = usedSlots - Slots(V) + slots + 1
           /\ totalBytes' = totalBytes - Bytes(V) + charge
      ELSE /\ lineages' = Evicted(V) /\ lru' = Without(V)
           /\ usedSlots' = usedSlots - Slots(V) /\ totalBytes' = totalBytes - Bytes(V)
  BY DEF CommitInitial
<1>6. /\ V \in SUBSET (Occupied(lineages) \ {l})
      /\ \E n \in 0 .. Len(Idle(l)) : V = First(n, l) /\ Fits(slots + 1, charge, n, l)
  <2> HIDE DEF charge
  <2> QED BY <1>1, <1>2, VictimsFacts
<1>7. /\ usedSlots - Slots(V) + (slots + 1) <= MaxEntries
      /\ totalBytes - Bytes(V) + charge <= MaxBytes
  BY <1>6 DEF Fits
<1>8. V \in SUBSET Lineages /\ l \in Lineages \ V
  BY <1>6, OccupiedPlaces
<1>9. /\ usedSlots = Slots(Lineages) /\ usedSlots \in 0 .. MaxEntries
      /\ totalBytes = Bytes(Lineages) /\ totalBytes \in 0 .. MaxBytes
  BY <1>1 DEF ChargeInv
<1>10. /\ Sound(p) /\ SlotsOf(p) = slots + 1 /\ p.dynamicBytes = charge /\ p.phase = "provisional"
  <2>1. <<size>> \in Seq(Nat) /\ Len(<<size>>) = 1
    BY <1>3
  <2>2. FoldSeq(+, 0, <<size>>) = size
    BY <1>3, SumOfSingle
  <2> HIDE DEF charge
  <2>4. /\ p.phase = "provisional" /\ p.entries = <<size>> /\ p.reservedSlots = slots
        /\ p.reservedBytes = bytes /\ p.dynamicBytes = charge /\ p.pins = 0 /\ p.runtime = {}
    BY DEF Free
  <2>5. p \in Place
    BY <1>3, <2>1, FreeIsSound DEF Sound, Place, Free
  <2> HIDE DEF p
  <2>6. SlotsOf(p) = slots + 1
    BY <1>3, <2>1, <2>4 DEF SlotsOf
  <2>7. p.dynamicBytes = FoldSeq(+, 0, p.entries) + FixedBytes + p.reservedBytes
    BY <2>2, <2>4 DEF charge
  <2>8. p.pins = Cardinality(p.runtime)
    BY <2>4, FS_EmptySet
  <2>9. Len(p.entries) \in 1 .. MaxPages
    BY <1>2, <1>3, <2>1, <2>4
  <2> QED BY <2>4, <2>5, <2>6, <2>7, <2>8, <2>9 DEF Sound
<1>11. /\ Without(V) \in Seq(Lineages) /\ IsInjective(Without(V))
       /\ ToSet(Without(V)) = Occupied(lineages) \ V
  BY <1>1, WithoutFacts
<1>12. l \notin Occupied(lineages)
  BY <1>2 DEF Occupied
<1> HIDE DEF charge, V, p
<1>13. CASE transferred
  <2>1. /\ lineages' = [Evicted(V) EXCEPT ![l] = p] /\ lru' = <<l>> \o Without(V)
        /\ usedSlots' = usedSlots - Slots(V) + slots + 1
        /\ totalBytes' = totalBytes - Bytes(V) + charge
    BY <1>5, <1>13
  <2>2. /\ ArenaInv' /\ Occupied(lineages') = (Occupied(lineages) \ V) \cup {l}
        /\ Slots(V) \in Nat /\ Slots(Lineages)' \in Nat
        /\ Slots(Lineages)' = Slots(Lineages) - Slots(V) - SlotsOf(lineages[l]) + SlotsOf(p)
        /\ Bytes(V) \in Nat /\ Bytes(Lineages)' \in Nat
        /\ Bytes(Lineages)' = Bytes(Lineages) - Bytes(V) - lineages[l].dynamicBytes + p.dynamicBytes
    <3>1. ArenaInv /\ Sound(p) /\ p.phase # "none" /\ lineages' = [Evicted(V) EXCEPT ![l] = p]
      BY <1>1, <1>10, <2>1
    <3>2. ArenaNext(V, l, p)
      BY <1>8, <3>1, ArenaStep
    <3>3. Occupied(lineages') = (Occupied(lineages) \ V) \cup {l}
      BY <3>1, <3>2 DEF ArenaNext
    <3> QED BY <3>2, <3>3 DEF ArenaNext
  <2>3. OrderInv'
    <3>1. l \notin ToSet(Without(V))
      BY <1>11, <1>12
    <3>2. /\ <<l>> \o Without(V) \in Seq(Lineages) /\ IsInjective(<<l>> \o Without(V))
          /\ ToSet(<<l>> \o Without(V)) = {l} \cup ToSet(Without(V))
      BY <1>11, <3>1, ConsFacts
    <3> QED BY <1>11, <2>1, <2>2, <3>2 DEF OrderInv, OrderExact
  <2>4. ChargeInv'
    <3>1. usedSlots' = Slots(Lineages)' /\ usedSlots' <= MaxEntries
      <4>1. Slots(Lineages)' = usedSlots - Slots(V) - 0 + (slots + 1)
        BY <1>4, <1>9, <1>10, <2>2
      <4>2. /\ usedSlots \in Nat /\ Slots(V) \in Nat /\ slots \in Nat
            /\ usedSlots' = usedSlots - Slots(V) + slots + 1
        BY <1>3, <1>9, <2>1, <2>2
      <4> QED BY <1>3, <1>7, <4>1, <4>2
    <3>2. totalBytes' = Bytes(Lineages)' /\ totalBytes' <= MaxBytes
      <4>1. Bytes(Lineages)' = totalBytes - Bytes(V) - 0 + charge
        BY <1>4, <1>9, <1>10, <2>2
      <4>2. /\ totalBytes \in Nat /\ Bytes(V) \in Nat
            /\ totalBytes' = totalBytes - Bytes(V) + charge
        BY <1>3, <1>9, <2>1, <2>2
      <4> QED BY <1>3, <1>7, <4>1, <4>2
    <3> QED BY <1>3, <2>2, <3>1, <3>2 DEF ChargeInv
  <2>5. ReleaseInv'
    BY <1>1, <1>2 DEF ReleaseInv, StorageReleased
  <2> QED BY <2>2, <2>3, <2>4, <2>5 DEF IInv
<1>14. CASE ~transferred
  <2>1. /\ lineages' = Evicted(V) /\ lru' = Without(V)
        /\ usedSlots' = usedSlots - Slots(V) /\ totalBytes' = totalBytes - Bytes(V)
    BY <1>5, <1>14
  <2>2. lineages' = [Evicted(V) EXCEPT ![l] = lineages[l]]
    BY <1>8, <2>1 DEF Evicted
  <2>3. /\ ArenaInv' /\ Occupied(lineages') = Occupied(lineages) \ (V \cup {l})
        /\ Slots(V) \in Nat /\ Slots(Lineages)' \in Nat
        /\ Slots(Lineages)' = Slots(Lineages) - Slots(V) - SlotsOf(lineages[l]) + SlotsOf(lineages[l])
        /\ Bytes(V) \in Nat /\ Bytes(Lineages)' \in Nat
        /\ Bytes(Lineages)' = Bytes(Lineages) - Bytes(V) - lineages[l].dynamicBytes
                               + lineages[l].dynamicBytes
    <3>1. ArenaNext(V, l, lineages[l])
      BY <1>1, <1>8, <2>2, ArenaStep
    <3> QED BY <1>2, <3>1 DEF ArenaNext
  <2>4. OrderInv'
    BY <1>11, <1>12, <2>1, <2>3 DEF OrderInv, OrderExact
  <2>5. ChargeInv'
    <3>1. usedSlots' = Slots(Lineages)' /\ usedSlots' <= MaxEntries
      BY <1>3, <1>4, <1>9, <2>1, <2>3
    <3>2. totalBytes' = Bytes(Lineages)' /\ totalBytes' <= MaxBytes
      BY <1>3, <1>4, <1>9, <2>1, <2>3
    <3> QED BY <1>3, <2>3, <3>1, <3>2 DEF ChargeInv
  <2>6. ReleaseInv'
    BY <1>1, <1>2 DEF ReleaseInv, StorageReleased
  <2> QED BY <2>3, <2>4, <2>5, <2>6 DEF IInv
<1> QED BY <1>13, <1>14

LEMMA MaterializeReservedStep ==
  ASSUME IInv, NEW l \in Lineages, NEW size \in Sizes, MaterializeReserved(l, size)
  PROVE  IInv'
<1> DEFINE x == lineages[l]
           slack == IF x.reservedSlots = 1 /\ ~x.read THEN x.reservedBytes - size ELSE 0
           p == [x EXCEPT !.entries = Append(x.entries, size), !.reservedSlots = x.reservedSlots - 1,
                          !.reservedBytes = x.reservedBytes - size - slack,
                          !.dynamicBytes = x.dynamicBytes - slack, !.protected = TRUE]
<1>1. /\ ArenaInv /\ OrderInv /\ ChargeInv /\ ReleaseInv
      /\ Sound(x) /\ x \in Place /\ lineages \in [Lineages -> Place]
  BY DEF IInv, ArenaInv
<1>2. /\ x.entries \in Seq(Nat) /\ x.reservedSlots \in Nat /\ x.reservedBytes \in Nat
      /\ x.dynamicBytes \in Nat
  BY <1>1 DEF Place
<1>3. /\ x.phase # "none" /\ Len(x.entries) + 2 <= MaxPages /\ x.reservedSlots > 0
      /\ size <= x.reservedBytes
  BY DEF MaterializeReserved, MayExtend, Live
<1>4. /\ totalBytes' = totalBytes - slack /\ lru' = Touched(l, lru)
      /\ UNCHANGED <<usedSlots, closed, released>>
  BY DEF MaterializeReserved
<1>5. lineages' = [lineages EXCEPT ![l] = p]
  BY <1>1 DEF MaterializeReserved, Place
<1>6. size \in Nat /\ MaxPages \in Nat /\ MaxEntries \in Nat /\ MaxBytes \in Nat /\ FixedBytes \in Nat
  BY RegistryAssumption
<1>7. /\ Len(x.entries) \in 1 .. MaxPages
      /\ x.dynamicBytes = FoldSeq(+, 0, x.entries) + FixedBytes + x.reservedBytes
  BY <1>1, <1>3 DEF Sound
<1>8. /\ FoldSeq(+, 0, x.entries) \in Nat
      /\ FoldSeq(+, 0, Append(x.entries, size)) = FoldSeq(+, 0, x.entries) + size
  BY <1>2, <1>6, SumAppend
<1>9. /\ Append(x.entries, size) \in Seq(Nat)
      /\ Len(Append(x.entries, size)) = Len(x.entries) + 1 /\ Len(x.entries) \in Nat
  BY <1>2, <1>6
<1>10. slack \in Nat /\ slack <= x.reservedBytes - size
  BY <1>2, <1>3, <1>6
<1> HIDE DEF slack
<1>11. x.reservedSlots - 1 \in Nat /\ x.reservedBytes - size - slack \in Nat
       /\ x.dynamicBytes - slack \in Nat
  <2> DEFINE sum == FoldSeq(+, 0, x.entries)
  <2>1. x.dynamicBytes = sum + FixedBytes + x.reservedBytes /\ sum \in Nat
    BY <1>7, <1>8
  <2> DEFINE kept == x.reservedBytes
  <2> HIDE DEF sum, x
  <2>2. x.reservedSlots - 1 \in Nat
    BY <1>2, <1>3
  <2>3. kept \in Nat /\ size \in Nat /\ size <= kept /\ slack \in Nat /\ slack <= kept - size
        /\ FixedBytes \in Nat /\ x.dynamicBytes = sum + FixedBytes + kept
    BY <1>2, <1>3, <1>6, <1>10, <2>1
  <2> HIDE DEF kept
  <2>4. kept - size - slack \in Nat /\ x.dynamicBytes - slack \in Nat
    BY <2>1, <2>3
  <2> QED BY <2>2, <2>4 DEF kept
<1>12. /\ p.entries = Append(x.entries, size) /\ p.reservedSlots = x.reservedSlots - 1
       /\ p.reservedBytes = x.reservedBytes - size - slack
       /\ p.dynamicBytes = x.dynamicBytes - slack
       /\ p.phase = x.phase /\ p.pins = x.pins /\ p.runtime = x.runtime
  BY <1>1 DEF Place
<1>13. p \in Place
  <2>1. \A e \in Seq(Nat), a, b, c \in Nat :
          [x EXCEPT !.entries = e, !.reservedSlots = a, !.reservedBytes = b,
                    !.dynamicBytes = c, !.protected = TRUE] \in Place
    BY <1>1 DEF Place
  <2> HIDE DEF x
  <2> QED BY <1>9, <1>11, <2>1
<1> HIDE DEF p, x
<1>14. Sound(p) /\ SlotsOf(p) = SlotsOf(x)
  <2>1. Len(p.entries) \in 1 .. MaxPages
    BY <1>3, <1>6, <1>9, <1>12
  <2>2. p.dynamicBytes = FoldSeq(+, 0, p.entries) + FixedBytes + p.reservedBytes
    <3> DEFINE sum == FoldSeq(+, 0, x.entries)
               next == FoldSeq(+, 0, p.entries)
    <3>1. /\ x.dynamicBytes = sum + FixedBytes + x.reservedBytes /\ sum \in Nat
          /\ next = sum + size
      BY <1>7, <1>8, <1>12
    <3> HIDE DEF sum, next
    <3>2. p.dynamicBytes = next + FixedBytes + p.reservedBytes
      BY <1>2, <1>6, <1>10, <1>12, <3>1
    <3> QED BY <3>2 DEF next
  <2>3. p.pins = Cardinality(p.runtime)
    BY <1>1, <1>12 DEF Sound
  <2>4. SlotsOf(p) = SlotsOf(x)
    <3>1. Len(p.entries) = Len(x.entries) + 1
      BY <1>9, <1>12
    <3>2. p.reservedSlots = x.reservedSlots - 1 /\ x.reservedSlots \in Nat /\ Len(x.entries) \in Nat
      BY <1>2, <1>9, <1>12
    <3> QED BY <3>1, <3>2 DEF SlotsOf
  <2> QED BY <1>3, <1>12, <1>13, <2>1, <2>2, <2>3, <2>4 DEF Sound
<1>15. /\ ArenaInv'
       /\ Occupied(lineages') = IF p.phase = "none" THEN Occupied(lineages) \ {l}
                                ELSE Occupied(lineages) \cup {l}
       /\ Slots(Lineages)' \in Nat
       /\ Slots(Lineages)' = Slots(Lineages) - SlotsOf(x) + SlotsOf(p)
       /\ Bytes(Lineages)' \in Nat
       /\ Bytes(Lineages)' = Bytes(Lineages) - x.dynamicBytes + p.dynamicBytes
  BY <1>1, <1>5, <1>14, PlaceStep DEF x
<1>16. Occupied(lineages') = Occupied(lineages)
  BY <1>3, <1>12, <1>15 DEF Occupied, x
<1>17. OrderInv'
  <2>1. lru' \in Seq(Lineages) /\ IsInjective(lru') /\ ToSet(lru') = ToSet(lru)
    BY <1>3, <1>4, TouchKeeps DEF x
  <2> QED BY <1>1, <1>16, <2>1 DEF OrderInv, OrderExact
<1>18. ChargeInv'
  <2>1. /\ usedSlots = Slots(Lineages) /\ usedSlots \in 0 .. MaxEntries
        /\ totalBytes = Bytes(Lineages) /\ totalBytes \in 0 .. MaxBytes
    BY <1>1 DEF ChargeInv
  <2>2. usedSlots' = Slots(Lineages)'
    <3>1. SlotsOf(x) \in Nat
      BY <1>1, SoundSizes
    <3> QED BY <1>4, <1>14, <1>15, <2>1, <3>1
  <2>3. totalBytes' = Bytes(Lineages)' /\ totalBytes' <= totalBytes
    BY <1>2, <1>4, <1>10, <1>12, <1>15, <2>1
  <2> QED BY <1>4, <1>6, <1>15, <2>1, <2>2, <2>3 DEF ChargeInv
<1>19. ReleaseInv'
  BY <1>1, <1>4, <1>16 DEF ReleaseInv, StorageReleased
<1> QED BY <1>15, <1>17, <1>18, <1>19 DEF IInv

LEMMA MaterializeAdmittedStep ==
  ASSUME IInv, NEW l \in Lineages, NEW size \in Sizes, MaterializeAdmitted(l, size)
  PROVE  IInv'
<1> DEFINE x == lineages[l]
           V == Victims(1, size, l)
           p == [x EXCEPT !.entries = Append(x.entries, size), !.dynamicBytes = x.dynamicBytes + size,
                          !.protected = TRUE]
<1>1. /\ ArenaInv /\ OrderInv /\ ChargeInv /\ ReleaseInv
      /\ Sound(x) /\ x \in Place /\ lineages \in [Lineages -> Place]
  BY DEF IInv, ArenaInv
<1>2. /\ x.entries \in Seq(Nat) /\ x.reservedSlots \in Nat /\ x.reservedBytes \in Nat
      /\ x.dynamicBytes \in Nat
  BY <1>1 DEF Place
<1>3. /\ x.phase # "none" /\ Len(x.entries) + 2 <= MaxPages /\ CanAdmit(1, size, l)
  BY DEF MaterializeAdmitted, MayExtend, Live
<1>4. /\ usedSlots' = usedSlots - Slots(V) + 1 /\ totalBytes' = totalBytes - Bytes(V) + size
      /\ lru' = Touched(l, Without(V)) /\ UNCHANGED <<closed, released>>
  BY DEF MaterializeAdmitted
<1>5. /\ V \in SUBSET (Occupied(lineages) \ {l})
      /\ \E n \in 0 .. Len(Idle(l)) : V = First(n, l) /\ Fits(1, size, n, l)
  BY <1>1, <1>3, VictimsFacts
<1>6. usedSlots - Slots(V) + 1 <= MaxEntries /\ totalBytes - Bytes(V) + size <= MaxBytes
  BY <1>5 DEF Fits
<1>7. V \in SUBSET Lineages /\ l \in Lineages \ V
  BY <1>5, OccupiedPlaces
<1>8. size \in Nat /\ MaxPages \in Nat /\ MaxEntries \in Nat /\ MaxBytes \in Nat /\ FixedBytes \in Nat
  BY RegistryAssumption
<1>9. lineages' = [Evicted(V) EXCEPT ![l] = p]
  <2>1. /\ Evicted(V) \in [Lineages -> Place] /\ Evicted(V)[l] = x
    <3>1. Free \in Place
      BY FreeIsSound DEF Sound
    <3> HIDE DEF V
    <3> QED BY <1>1, <1>7, <3>1 DEF Evicted
  <2>2. lineages' = [Evicted(V) EXCEPT ![l].entries = Append(@, size), ![l].dynamicBytes = @ + size,
                                       ![l].protected = TRUE]
    BY DEF MaterializeAdmitted
  <2> HIDE DEF V, x
  <2> QED BY <1>1, <2>1, <2>2 DEF Place
<1>10. /\ Len(x.entries) \in 1 .. MaxPages
       /\ x.dynamicBytes = FoldSeq(+, 0, x.entries) + FixedBytes + x.reservedBytes
  BY <1>1, <1>3 DEF Sound
<1>11. /\ FoldSeq(+, 0, x.entries) \in Nat
       /\ FoldSeq(+, 0, Append(x.entries, size)) = FoldSeq(+, 0, x.entries) + size
  BY <1>2, <1>8, SumAppend
<1>12. /\ Append(x.entries, size) \in Seq(Nat)
       /\ Len(Append(x.entries, size)) = Len(x.entries) + 1 /\ Len(x.entries) \in Nat
  BY <1>2, <1>8
<1>13. /\ p.entries = Append(x.entries, size) /\ p.reservedSlots = x.reservedSlots
       /\ p.reservedBytes = x.reservedBytes /\ p.dynamicBytes = x.dynamicBytes + size
       /\ p.phase = x.phase /\ p.pins = x.pins /\ p.runtime = x.runtime
  BY <1>1 DEF Place
<1>14. p \in Place
  <2>1. \A e \in Seq(Nat), c \in Nat :
          [x EXCEPT !.entries = e, !.dynamicBytes = c, !.protected = TRUE] \in Place
    BY <1>1 DEF Place
  <2>2. x.dynamicBytes + size \in Nat
    BY <1>2, <1>8
  <2> HIDE DEF x
  <2> QED BY <1>12, <2>1, <2>2
<1> HIDE DEF p, x, V
<1>15. Sound(p) /\ SlotsOf(p) = SlotsOf(x) + 1
  <2>1. Len(p.entries) \in 1 .. MaxPages
    BY <1>3, <1>8, <1>12, <1>13
  <2>2. p.dynamicBytes = FoldSeq(+, 0, p.entries) + FixedBytes + p.reservedBytes
    <3> DEFINE sum == FoldSeq(+, 0, x.entries)
               next == FoldSeq(+, 0, p.entries)
    <3>1. /\ x.dynamicBytes = sum + FixedBytes + x.reservedBytes /\ sum \in Nat
          /\ next = sum + size
      BY <1>10, <1>11, <1>13
    <3> HIDE DEF sum, next
    <3>2. p.dynamicBytes = next + FixedBytes + p.reservedBytes
      BY <1>2, <1>8, <1>13, <3>1
    <3> QED BY <3>2 DEF next
  <2>3. p.pins = Cardinality(p.runtime)
    BY <1>1, <1>13 DEF Sound
  <2>4. SlotsOf(p) = SlotsOf(x) + 1
    <3>1. Len(p.entries) = Len(x.entries) + 1
      BY <1>12, <1>13
    <3>2. p.reservedSlots = x.reservedSlots /\ x.reservedSlots \in Nat /\ Len(x.entries) \in Nat
      BY <1>2, <1>12, <1>13
    <3> QED BY <3>1, <3>2 DEF SlotsOf
  <2> QED BY <1>3, <1>13, <1>14, <2>1, <2>2, <2>3, <2>4 DEF Sound
<1>16. ArenaNext(V, l, p)
  BY <1>1, <1>7, <1>9, <1>15, ArenaStep
<1>17. ArenaInv' /\ Occupied(lineages') = (Occupied(lineages) \ V) \cup {l}
  BY <1>3, <1>13, <1>16 DEF ArenaNext
<1>18. OrderInv'
  <2>1. /\ Without(V) \in Seq(Lineages) /\ IsInjective(Without(V))
        /\ ToSet(Without(V)) = Occupied(lineages) \ V
    BY <1>1, WithoutFacts
  <2>2. /\ Touched(l, Without(V)) \in Seq(Lineages) /\ IsInjective(Touched(l, Without(V)))
        /\ ToSet(Touched(l, Without(V))) = {l} \cup ToSet(Without(V))
    BY <2>1, TouchedFacts
  <2> QED BY <1>4, <1>17, <2>1, <2>2 DEF OrderInv, OrderExact
<1>19. ChargeInv'
  <2>1. /\ usedSlots = Slots(Lineages) /\ usedSlots \in 0 .. MaxEntries
        /\ totalBytes = Bytes(Lineages) /\ totalBytes \in 0 .. MaxBytes
    BY <1>1 DEF ChargeInv
  <2>2. /\ Slots(V) \in Nat /\ Slots(Lineages)' \in Nat /\ Bytes(V) \in Nat /\ Bytes(Lineages)' \in Nat
        /\ Slots(Lineages)' = Slots(Lineages) - Slots(V) - SlotsOf(x) + SlotsOf(p)
        /\ Bytes(Lineages)' = Bytes(Lineages) - Bytes(V) - x.dynamicBytes + p.dynamicBytes
    BY <1>16 DEF ArenaNext, x
  <2>3. usedSlots' = Slots(Lineages)' /\ usedSlots' <= MaxEntries
    <3>1. SlotsOf(x) \in Nat
      BY <1>1, SoundSizes
    <3>2. Slots(Lineages)' = usedSlots - Slots(V) - SlotsOf(x) + (SlotsOf(x) + 1)
      BY <1>15, <2>1, <2>2
    <3>3. usedSlots \in Nat /\ Slots(V) \in Nat
      BY <2>1, <2>2
    <3>4. Slots(Lineages)' = usedSlots - Slots(V) + 1
      BY <3>1, <3>2, <3>3
    <3> QED BY <1>4, <1>6, <3>4
  <2>4. totalBytes' = Bytes(Lineages)' /\ totalBytes' <= MaxBytes
    <3>1. Bytes(Lineages)' = totalBytes - Bytes(V) - x.dynamicBytes + (x.dynamicBytes + size)
      BY <1>13, <2>1, <2>2
    <3>2. totalBytes \in Nat /\ Bytes(V) \in Nat /\ x.dynamicBytes \in Nat /\ size \in Nat
      BY <1>2, <1>8, <2>1, <2>2
    <3>3. Bytes(Lineages)' = totalBytes - Bytes(V) + size
      BY <3>1, <3>2
    <3> QED BY <1>4, <1>6, <3>3
  <2> QED BY <1>8, <2>2, <2>3, <2>4 DEF ChargeInv
<1>20. ReleaseInv'
  <2>1. closed = FALSE
    BY <1>1 DEF MaterializeAdmitted, MayExtend, ReleaseInv
  <2> QED BY <1>1, <1>4, <2>1 DEF ReleaseInv, StorageReleased
<1> QED BY <1>17, <1>18, <1>19, <1>20 DEF IInv

LEMMA CloseStep ==
  ASSUME IInv, Close
  PROVE  IInv'
<1> DEFINE pinned == {l \in Lineages : lineages[l].pins # 0}
           V == Lineages \ pinned
           Marked(l) == [lineages[l] EXCEPT !.phase = "rollback"]
<1>1. /\ ArenaInv /\ OrderInv /\ ChargeInv /\ ReleaseInv
      /\ lineages \in [Lineages -> Place] /\ \A l \in Lineages : Sound(lineages[l])
  BY DEF IInv, ArenaInv
<1>2. /\ closed' = TRUE
      /\ lineages' = [l \in Lineages |-> IF l \in pinned THEN Marked(l) ELSE Free]
      /\ lru' = Without(V) /\ usedSlots' = usedSlots - Slots(V)
      /\ totalBytes' = totalBytes - Bytes(V) /\ released' = (pinned = {})
  BY DEF Close
<1>3. ASSUME NEW l \in pinned
      PROVE  /\ lineages[l].phase # "none" /\ Sound(Marked(l)) /\ Marked(l).phase = "rollback"
             /\ SlotsOf(Marked(l)) = SlotsOf(lineages[l])
             /\ Marked(l).dynamicBytes = lineages[l].dynamicBytes
  <2>1. Sound(lineages[l]) /\ lineages[l].pins # 0 /\ lineages[l] \in Place
    BY <1>1
  <2>2. lineages[l].phase # "none"
    <3>1. Free.pins = 0
      BY DEF Free
    <3> QED BY <2>1, <3>1 DEF Sound
  <2> DEFINE p == Marked(l)
  <2>3. /\ p \in Place /\ p.phase = "rollback" /\ p.pins = lineages[l].pins
        /\ p.runtime = lineages[l].runtime /\ p.entries = lineages[l].entries
        /\ p.reservedSlots = lineages[l].reservedSlots
        /\ p.reservedBytes = lineages[l].reservedBytes /\ p.dynamicBytes = lineages[l].dynamicBytes
    BY <2>1 DEF Place
  <2> HIDE DEF p
  <2>4. Sound(p)
    BY <2>1, <2>2, <2>3 DEF Sound
  <2>5. SlotsOf(p) = SlotsOf(lineages[l])
    BY <2>3 DEF SlotsOf
  <2> QED BY <2>2, <2>3, <2>4, <2>5 DEF p
<1> HIDE DEF Marked
<1>4. \A l \in Lineages : Sound(lineages'[l])
  BY <1>2, <1>3, FreeIsSound
<1>5. ArenaInv'
  <2>1. lineages' \in [Lineages -> Place]
    BY <1>2, <1>4 DEF Sound
  <2> QED BY <1>4, <2>1 DEF ArenaInv
<1>6. Occupied(lineages') = pinned /\ pinned \subseteq Occupied(lineages)
  BY <1>2, <1>3 DEF Occupied, Free
<1>7. OrderInv'
  <2>1. /\ Without(V) \in Seq(Lineages) /\ IsInjective(Without(V))
        /\ ToSet(Without(V)) = Occupied(lineages) \ V
    BY <1>1, WithoutFacts
  <2>2. Occupied(lineages) \ V = pinned
    BY <1>6, OccupiedPlaces
  <2> QED BY <1>2, <1>6, <2>1, <2>2 DEF OrderInv, OrderExact
<1>8. /\ Slots(V) \in Nat /\ Slots(Lineages)' \in Nat
      /\ Slots(Lineages)' = Slots(Lineages) - Slots(V)
      /\ Bytes(V) \in Nat /\ Bytes(Lineages)' \in Nat
      /\ Bytes(Lineages)' = Bytes(Lineages) - Bytes(V)
  <2> DEFINE sf == SlotSizes(lineages)
             sg == SlotSizes(lineages')
             bf == ByteSizes(lineages)
             bg == ByteSizes(lineages')
  <2>1. sf \in [Lineages -> Nat] /\ sg \in [Lineages -> Nat] /\ bf \in [Lineages -> Nat]
        /\ bg \in [Lineages -> Nat]
    BY <1>1, <1>4, SizesAreNumbers
  <2>2. /\ \A x \in V : sg[x] = 0 /\ bg[x] = 0
        /\ \A x \in Lineages \ V : sg[x] = sf[x] /\ bg[x] = bf[x]
    BY <1>2, <1>3, FreeIsSound DEF SlotSizes, ByteSizes
  <2>3. /\ Slots(V) = SumOver(sf, V) /\ Slots(Lineages) = SumOver(sf, Lineages)
        /\ Slots(Lineages)' = SumOver(sg, Lineages)
        /\ Bytes(V) = SumOver(bf, V) /\ Bytes(Lineages) = SumOver(bf, Lineages)
        /\ Bytes(Lineages)' = SumOver(bg, Lineages)
    BY TotalsAreSums, TotalsAreSumsNext
  <2> HIDE DEF sf, sg, bf, bg
  <2>4. V \in SUBSET Lineages
    OBVIOUS
  <2> HIDE DEF V
  <2>5. /\ SumOver(sg, Lineages) \in Nat /\ SumOver(sf, V) \in Nat
        /\ SumOver(sg, Lineages) = SumOver(sf, Lineages) - SumOver(sf, V)
    <3>1. (\A x \in V : sg[x] = 0) /\ \A x \in Lineages \ V : sg[x] = sf[x]
      BY <2>2
    <3> QED BY <2>1, <2>4, <3>1, Cleared
  <2>6. /\ SumOver(bg, Lineages) \in Nat /\ SumOver(bf, V) \in Nat
        /\ SumOver(bg, Lineages) = SumOver(bf, Lineages) - SumOver(bf, V)
    <3>1. (\A x \in V : bg[x] = 0) /\ \A x \in Lineages \ V : bg[x] = bf[x]
      BY <2>2
    <3> QED BY <2>1, <2>4, <3>1, Cleared
  <2> QED BY <2>3, <2>5, <2>6
<1>9. ChargeInv'
  <2>1. /\ usedSlots = Slots(Lineages) /\ usedSlots \in 0 .. MaxEntries
        /\ totalBytes = Bytes(Lineages) /\ totalBytes \in 0 .. MaxBytes
    BY <1>1 DEF ChargeInv
  <2>2. MaxEntries \in Nat /\ MaxBytes \in Nat
    BY RegistryAssumption
  <2> HIDE DEF V
  <2>3. usedSlots' = Slots(Lineages)' /\ usedSlots' <= MaxEntries
    BY <1>2, <1>8, <2>1, <2>2
  <2>4. totalBytes' = Bytes(Lineages)' /\ totalBytes' <= MaxBytes
    BY <1>2, <1>8, <2>1, <2>2
  <2> QED BY <1>8, <2>2, <2>3, <2>4 DEF ChargeInv
<1>10. ReleaseInv'
  <2> HIDE DEF pinned
  <2>1. released' \in BOOLEAN
    BY <1>2
  <2>2. released' <=> Occupied(lineages') = {}
    BY <1>2, <1>6
  <2> QED BY <1>2, <2>1, <2>2 DEF ReleaseInv, StorageReleased
<1> QED BY <1>5, <1>7, <1>9, <1>10 DEF IInv

LEMMA Unchanged ==
  ASSUME IInv, UNCHANGED vars
  PROVE  IInv'
<1>1. ArenaInv' /\ OrderInv' /\ ReleaseInv'
  BY DEF IInv, vars, ArenaInv, OrderInv, OrderExact, ReleaseInv, StorageReleased
<1>2. ChargeInv'
  BY TotalsAreSums, TotalsAreSumsNext DEF IInv, vars, ChargeInv
<1> QED BY <1>1, <1>2 DEF IInv

LEMMA NextInv == IInv /\ [Next]_vars => IInv'
<1> SUFFICES ASSUME IInv, [Next]_vars PROVE IInv'
  OBVIOUS
<1>1. ASSUME NEW l \in Lineages, Step(l) PROVE IInv'
  <2>1. CASE \E read, transferred \in BOOLEAN, size \in Sizes, slots \in 1 .. MaxPages,
                bytes \in Reservations : CommitInitial(l, read, size, slots, bytes, transferred)
    BY <2>1, CommitInitialStep
  <2>2. CASE Prepare(l) \/ Commit(l) \/ TimePasses(l) \/ Condemn(l)
    BY <2>2, PhaseStep
  <2>3. CASE Rollback(l)
    BY <2>3, RollbackStep
  <2>4. CASE Lookup(l)
    BY <2>4, LookupStep
  <2>5. CASE Start(l)
    BY <2>5, StartStep
  <2>6. CASE \E size \in Sizes : MaterializeReserved(l, size) \/ MaterializeAdmitted(l, size)
    BY <2>6, MaterializeReservedStep, MaterializeAdmittedStep
  <2>7. CASE \E i \in 1 .. MaxPages : Finish(l, i)
    BY <2>7, FinishStep
  <2> QED BY <1>1, <2>1, <2>2, <2>3, <2>4, <2>5, <2>6, <2>7 DEF Step
<1>2. CASE Close
  BY <1>2, CloseStep
<1>3. CASE UNCHANGED vars
  BY <1>3, Unchanged
<1>4. CASE Released
  BY <1>4, Unchanged DEF Released
<1> QED BY <1>1, <1>2, <1>3, <1>4 DEF Next

(* The invariant holds for every number of places and every limit.         *)
THEOREM Invariance == Spec => []IInv
BY InitInv, NextInv, PTL DEF Spec

-------------------------------------------------------------------------------
(* What is promised                                                        *)

LEMMA InvType == IInv => TypeOK
<1> SUFFICES ASSUME IInv PROVE TypeOK
  OBVIOUS
<1>1. lineages \in [Lineages -> Place] /\ lru \in Seq(Lineages)
  BY DEF IInv, ArenaInv, OrderInv
<1>2. usedSlots \in Nat /\ totalBytes \in Nat
  BY DEF IInv, ChargeInv
<1>3. closed \in BOOLEAN /\ released \in BOOLEAN
  BY DEF IInv, ReleaseInv
<1> QED BY <1>1, <1>2, <1>3 DEF TypeOK, Place

(* The registry's memory keeps its types: no total and no count of a       *)
(* lineage is ever negative (registry.go, successor.go, accounting.go).    *)
THEOREM TypeCorrect == Spec => []TypeOK
BY Invariance, InvType, PTL

LEMMA InvSlots == IInv => SlotsExact
<1> SUFFICES ASSUME IInv PROVE SlotsExact
  OBVIOUS
<1> DEFINE f == SlotSizes(lineages)
           O == Occupied(lineages)
<1>1. usedSlots = SumOver(f, Lineages) /\ usedSlots \in 0 .. MaxEntries
  BY TotalsAreSums DEF IInv, ChargeInv
<1>2. IsFiniteSet(Lineages) /\ O \in SUBSET Lineages /\ \A x \in Lineages : f[x] \in Nat
  BY RegistryAssumption, OccupiedPlaces, SizesAreNumbers DEF IInv, ArenaInv
<1>3. \A x \in Lineages \ O : f[x] = 0
  BY FreeIsSound DEF IInv, ArenaInv, Sound, Occupied, SlotSizes
<1>4. Slots(O) = SumOver(f, O)
  BY TotalsAreSums
<1> HIDE DEF f, O
<1>5. SumOver(f, Lineages) = SumOver(f, Lineages \ O) + SumOver(f, O)
  BY <1>2, SumParts
<1>6. IsFiniteSet(Lineages \ O) /\ IsFiniteSet(O)
  BY <1>2, FS_Subset
<1>7. SumOver(f, Lineages \ O) = 0
  BY <1>3, <1>6, SumZero
<1>8. SumOver(f, O) \in Nat
  <2>1. \A x \in O : f[x] \in Nat
    BY <1>2
  <2> QED BY <1>6, <2>1, SumFacts
<1>9. usedSlots = Slots(O) /\ usedSlots <= MaxEntries
  BY <1>1, <1>4, <1>5, <1>7, <1>8, RegistryAssumption
<1> QED BY <1>9 DEF SlotsExact, O

LEMMA InvBytes == IInv => BytesExact
<1> SUFFICES ASSUME IInv PROVE BytesExact
  OBVIOUS
<1> DEFINE f == ByteSizes(lineages)
           O == Occupied(lineages)
           kept == [l \in Lineages |->
                      FoldSeq(+, 0, lineages[l].entries) + FixedBytes + lineages[l].reservedBytes]
<1>1. totalBytes = SumOver(f, Lineages) /\ totalBytes \in 0 .. MaxBytes
  BY TotalsAreSums DEF IInv, ChargeInv
<1>2. IsFiniteSet(Lineages) /\ O \in SUBSET Lineages /\ \A x \in Lineages : f[x] \in Nat
  BY RegistryAssumption, OccupiedPlaces, SizesAreNumbers DEF IInv, ArenaInv
<1>3. \A x \in Lineages \ O : f[x] = 0
  BY FreeIsSound DEF IInv, ArenaInv, Sound, Occupied, ByteSizes
<1>4. \A x \in O : f[x] = kept[x]
  BY DEF IInv, ArenaInv, Sound, Occupied, ByteSizes
<1>5. BytesExact <=> totalBytes = SumOver(kept, O) /\ totalBytes <= MaxBytes
  BY DEF BytesExact, SumOver
<1> HIDE DEF f, O, kept
<1>6. SumOver(f, Lineages) = SumOver(f, Lineages \ O) + SumOver(f, O)
  BY <1>2, SumParts
<1>7. IsFiniteSet(Lineages \ O) /\ IsFiniteSet(O)
  BY <1>2, FS_Subset
<1>8. SumOver(f, Lineages \ O) = 0
  BY <1>3, <1>7, SumZero
<1>9. SumOver(f, O) \in Nat
  <2>1. \A x \in O : f[x] \in Nat
    BY <1>2
  <2> QED BY <1>7, <2>1, SumFacts
<1>10. SumOver(f, O) = SumOver(kept, O)
  BY <1>4, <1>7, SumSame
<1>11. totalBytes = SumOver(kept, O) /\ totalBytes <= MaxBytes
  BY <1>1, <1>6, <1>8, <1>9, <1>10, RegistryAssumption
<1> QED BY <1>5, <1>11

(* A reservation that is left is a slot that no entry has taken.           *)
LEMMA InvPlace == IInv => PlaceFree
<1> SUFFICES ASSUME IInv, NEW l \in Lineages, MayExtend(l)
             PROVE  FoldFunctionOnSet(+, 0, [k \in Lineages |-> Len(lineages[k].entries)], Lineages)
                      < MaxEntries
  BY DEF PlaceFree
<1> DEFINE f == SlotSizes(lineages)
           g == [k \in Lineages |-> Len(lineages[k].entries)]
<1>1. usedSlots = SumOver(f, Lineages) /\ usedSlots \in 0 .. MaxEntries
  BY TotalsAreSums DEF IInv, ChargeInv
<1>2. \A k \in Lineages : /\ lineages[k].reservedSlots \in Nat /\ Len(lineages[k].entries) \in Nat
                          /\ f[k] = Len(lineages[k].entries) + lineages[k].reservedSlots
                          /\ g[k] = Len(lineages[k].entries)
  <2> TAKE k \in Lineages
  <2>1. lineages[k] \in Place
    BY DEF IInv, ArenaInv
  <2>2. lineages[k].reservedSlots \in Nat /\ lineages[k].entries \in Seq(Nat)
    BY <2>1 DEF Place
  <2> QED BY <2>2 DEF SlotSizes, SlotsOf
<1>3. lineages[l].reservedSlots > 0
  BY DEF MayExtend
<1> HIDE DEF f, g
<1>4. g[l] < f[l] /\ \A k \in Lineages : g[k] \in Nat /\ f[k] \in Nat /\ g[k] <= f[k]
  BY <1>2, <1>3
<1>5. IsFiniteSet(Lineages)
  BY RegistryAssumption
<1>6. SumOver(g, Lineages) < SumOver(f, Lineages)
  BY <1>4, <1>5, SumLess
<1>7. SumOver(f, Lineages) \in Nat /\ SumOver(g, Lineages) \in Nat
  BY <1>4, <1>5, SumFacts
<1>8. SumOver(g, Lineages) < MaxEntries
  BY <1>1, <1>6, <1>7, RegistryAssumption
<1> QED BY <1>8 DEF SumOver, g

LEMMA InvStorage == IInv => StorageExact
<1> SUFFICES ASSUME IInv PROVE StorageExact
  OBVIOUS
<1>1. OrderExact /\ StorageReleased
  BY DEF IInv, OrderInv, ReleaseInv
<1>2. PinsExact
  BY DEF IInv, ArenaInv, Sound, PinsExact
<1> QED BY <1>1, <1>2, InvType, InvSlots, InvBytes, InvPlace DEF StorageExact

(* The totals are exact and within the limits, the order names every       *)
(* occupied place once, the pins count the computations, and the fixed     *)
(* containers go back once, when the last computation of a closed registry *)
(* ends; a page that may have a successor has a place for it.              *)
THEOREM StorageIsExact == Spec => []StorageExact
BY Invariance, InvStorage, PTL

-------------------------------------------------------------------------------
(* Who is evicted                                                          *)

LEMMA AtFacts ==
  ASSUME OrderInv, NEW i \in 1 .. Len(lru)
  PROVE  At(lru[i]) = i
<1>1. DOMAIN lru = 1 .. Len(lru) /\ \A a, b \in DOMAIN lru : lru[a] = lru[b] => a = b
  BY DEF OrderInv, OrderExact, IsInjective
<1> QED BY <1>1 DEF At

LEMMA IdleOrder ==
  ASSUME OrderInv, NEW l, NEW i \in 1 .. Len(Idle(l)), NEW j \in 1 .. Len(Idle(l)), i < j
  PROVE  At(Idle(l)[j]) < At(Idle(l)[i])
<1>1. PICK a \in 1 .. Len(lru), b \in 1 .. Len(lru) :
        b < a /\ Idle(l)[i] = lru[a] /\ Idle(l)[j] = lru[b]
  BY IdleFacts
<1>2. At(lru[a]) = a /\ At(lru[b]) = b
  BY AtFacts
<1> QED BY <1>1, <1>2

LEMMA AdmissionEvicts ==
  ASSUME IInv, NEW l \in Lineages, NEW slots \in Nat, NEW bytes \in Nat, CanAdmit(slots, bytes, l),
         Gone = Victims(slots, bytes, l),
         usedSlots' = usedSlots - Slots(Victims(slots, bytes, l)) + slots,
         totalBytes' = totalBytes - Bytes(Victims(slots, bytes, l)) + bytes,
         NEW v \in Gone
  PROVE  Spent(v) /\ Oldest(v, l) /\ Needed(v)
<1> DEFINE q == Idle(l)
<1>1. ArenaInv /\ OrderInv /\ ChargeInv
  BY DEF IInv
<1>2. /\ \A w \in Gone : Evictable(w)
      /\ \E n \in 0 .. Len(q) : /\ Gone = First(n, l) /\ Fits(slots, bytes, n, l)
                                /\ \A m \in 0 .. n - 1 : ~Fits(slots, bytes, m, l)
  BY <1>1, VictimsFacts
<1>3. PICK n \in 0 .. Len(q) : Gone = First(n, l) /\ \A m \in 0 .. n - 1 : ~Fits(slots, bytes, m, l)
  BY <1>2
<1>4. /\ q \in Seq(Lineages) /\ Len(q) \in Nat /\ DOMAIN q = 1 .. Len(q) /\ IsInjective(q)
      /\ ToSet(q) = {k \in Occupied(lineages) \ {l} : Evictable(k)}
  BY <1>1, IdleFacts
<1>5. Gone = {q[i] : i \in 1 .. n}
  BY <1>3 DEF First
<1>6. PICK j \in 1 .. n : v = q[j]
  BY <1>5
<1>7. \A a, b \in 1 .. Len(q) : a < b => At(q[b]) < At(q[a])
  BY <1>1, IdleOrder
<1>8. \A a \in 1 .. Len(q) : At(q[a]) \in Int
  <2> TAKE a \in 1 .. Len(q)
  <2>1. q[a] \in ToSet(lru)
    BY <1>1, <1>4 DEF ToSet, OrderInv, OrderExact
  <2>2. lru \in Seq(Lineages)
    BY <1>1 DEF OrderInv
  <2>3. PICK i \in 1 .. Len(lru) : q[a] = lru[i]
    BY <2>1, <2>2 DEF ToSet
  <2>4. At(lru[i]) = i
    BY <1>1, AtFacts
  <2> QED BY <2>3, <2>4
<1>9. Spent(v)
  <2>1. Evictable(v) /\ v \in Lineages
    BY <1>2 DEF Gone
  <2>2. lineages[v].pins = 0 /\ lineages[v].pins = Cardinality(lineages[v].runtime)
    BY <2>1, InvParts DEF Evictable
  <2>3. IsFiniteSet(lineages[v].runtime)
    <3>1. 1 \in Int /\ MaxPages \in Int
      BY RegistryAssumption
    <3>2. IsFiniteSet(1 .. MaxPages)
      BY <3>1, FS_Interval
    <3>3. lineages[v] \in Place
      BY <2>1, InvParts
    <3>4. lineages[v].runtime \in SUBSET (1 .. MaxPages)
      BY <3>3 DEF Place
    <3> QED BY <3>2, <3>4, FS_Subset
  <2>4. lineages[v].runtime = {}
    BY <2>2, <2>3, FS_EmptySet
  <2> QED BY <2>1, <2>4 DEF Evictable, Spent
<1>10. Oldest(v, l)
  <2> SUFFICES ASSUME NEW k \in Lineages \ (Gone \cup {l}), Evictable(k) PROVE At(k) < At(v)
    BY DEF Oldest
  <2>1. k \in Occupied(lineages)
    BY DEF Evictable, Occupied
  <2>2. PICK m \in 1 .. Len(q) : k = q[m]
    BY <1>4, <2>1 DEF ToSet
  <2>3. m \notin 1 .. n
    BY <1>5, <2>2
  <2>4. j \in 1 .. Len(q) /\ j < m
    BY <1>3, <1>4, <1>6, <2>2, <2>3
  <2> HIDE DEF q
  <2> QED BY <1>6, <1>7, <2>2, <2>4
<1>11. Needed(v)
  <2> SUFFICES ASSUME \A w \in Gone : At(v) <= At(w)
               PROVE  \/ usedSlots' + SlotsOf(lineages[v]) > MaxEntries
                      \/ totalBytes' + lineages[v].dynamicBytes > MaxBytes
    BY DEF Needed
  <2>1. n \in 1 .. Len(q) /\ j \in 1 .. Len(q) /\ n - 1 \in 0 .. n - 1
    BY <1>3, <1>4, <1>6
  <2>2. j = n
    <3> SUFFICES ASSUME j < n PROVE FALSE
      BY <1>6, <2>1
    <3>1. q[n] \in Gone
      BY <1>5, <2>1
    <3>2. At(v) <= At(q[n]) /\ At(q[n]) < At(q[j])
      BY <1>7, <2>1, <3>1
    <3>3. At(q[n]) \in Int /\ At(q[j]) \in Int
      BY <1>8, <2>1
    <3> HIDE DEF q
    <3> QED BY <1>6, <3>2, <3>3
  <2> DEFINE U == First(n - 1, l)
  <2>3. U = Gone \ {v} /\ v \in Lineages
    <3>1. U = {q[i] : i \in 1 .. n - 1}
      BY DEF First
    <3>2. \A i \in 1 .. n : i = n \/ i \in 1 .. n - 1
      BY <2>1
    <3>3. \A i \in 1 .. n - 1 : q[i] # q[n]
      BY <1>4, <2>1 DEF IsInjective
    <3> HIDE DEF q, U
    <3>4. \A i \in 1 .. n - 1 : i \in 1 .. n
      BY <2>1
    <3> QED BY <1>5, <1>6, <2>2, <3>1, <3>2, <3>3, <3>4 DEF Gone
  <2>4. ~Fits(slots, bytes, n - 1, l)
    BY <1>3, <2>1
  <2>5. \/ ~(usedSlots - Slots(U) + slots <= MaxEntries)
        \/ ~(totalBytes - Bytes(U) + bytes <= MaxBytes)
    BY <2>4 DEF Fits
  <2> HIDE DEF U
  <2>6. IsFiniteSet(Gone) /\ IsFiniteSet(U) /\ Gone \in SUBSET Lineages
    BY <2>3, RegistryAssumption, FS_Subset DEF Gone
  <2> DEFINE sf == SlotSizes(lineages)
             bf == ByteSizes(lineages)
  <2>7. sf \in [Lineages -> Nat] /\ bf \in [Lineages -> Nat]
        /\ sf[v] = SlotsOf(lineages[v]) /\ bf[v] = lineages[v].dynamicBytes
    BY <1>1, <2>3, SizesAreNumbers DEF ArenaInv, SlotSizes, ByteSizes
  <2>8. /\ Slots(Gone) = SumOver(sf, Gone) /\ Slots(U) = SumOver(sf, U)
        /\ Bytes(Gone) = SumOver(bf, Gone) /\ Bytes(U) = SumOver(bf, U)
    BY TotalsAreSums
  <2> HIDE DEF sf, bf
  <2>9. SumOver(sf, Gone) = sf[v] + SumOver(sf, U) /\ SumOver(sf, U) \in Nat
    <3>1. (\A x \in Gone : sf[x] \in Nat) /\ \A x \in U : sf[x] \in Nat
      BY <2>3, <2>6, <2>7
    <3> QED BY <2>3, <2>6, <3>1, SumFacts
  <2>10. SumOver(bf, Gone) = bf[v] + SumOver(bf, U) /\ SumOver(bf, U) \in Nat
    <3>1. (\A x \in Gone : bf[x] \in Nat) /\ \A x \in U : bf[x] \in Nat
      BY <2>3, <2>6, <2>7
    <3> QED BY <2>3, <2>6, <3>1, SumFacts
  <2>11. /\ usedSlots \in Nat /\ totalBytes \in Nat /\ MaxEntries \in Nat /\ MaxBytes \in Nat
         /\ sf[v] \in Nat /\ bf[v] \in Nat
    BY <1>1, <2>3, <2>7, RegistryAssumption DEF ChargeInv
  <2>12. usedSlots' = usedSlots - (sf[v] + Slots(U)) + slots
    BY <2>8, <2>9
  <2>13. totalBytes' = totalBytes - (bf[v] + Bytes(U)) + bytes
    BY <2>8, <2>10
  <2>14. Slots(U) \in Nat /\ Bytes(U) \in Nat
    BY <2>8, <2>9, <2>10
  <2>15. CASE ~(usedSlots - Slots(U) + slots <= MaxEntries)
    <3>1. usedSlots' + sf[v] = usedSlots - Slots(U) + slots
      BY <2>11, <2>12, <2>14
    <3>2. usedSlots' + sf[v] > MaxEntries
      BY <2>11, <2>14, <2>15, <3>1
    <3> QED BY <2>7, <3>2
  <2>16. CASE ~(totalBytes - Bytes(U) + bytes <= MaxBytes)
    <3>1. totalBytes' + bf[v] = totalBytes - Bytes(U) + bytes
      BY <2>11, <2>13, <2>14
    <3>2. totalBytes' + bf[v] > MaxBytes
      BY <2>11, <2>14, <2>16, <3>1
    <3> QED BY <2>7, <3>2
  <2> QED BY <2>5, <2>15, <2>16
<1> QED BY <1>9, <1>10, <1>11

(* The steps that admit nothing leave the entries of a place as they are,  *)
(* or clear it.                                                            *)
Shrinks(l) == lineages'[l].entries \in {lineages[l].entries, <<>>}

LEMMA RemoveShrinks ==
  ASSUME IInv, NEW k \in Lineages, NEW places \in [Lineages -> Place], RemoveLineage(k, places),
         \A l \in Lineages : places[l].entries = lineages[l].entries, NEW l \in Lineages
  PROVE  Shrinks(l)
<1>1. CASE places[k].pins # 0
  <2>1. lineages' = [places EXCEPT ![k] = [places[k] EXCEPT !.phase = "rollback"]]
    BY <1>1 DEF RemoveLineage
  <2>2. [places[k] EXCEPT !.phase = "rollback"].entries = places[k].entries
    BY DEF Place
  <2>3. lineages'[l].entries = places[l].entries
    BY <2>1, <2>2
  <2> QED BY <2>3 DEF Shrinks
<1>2. CASE places[k].pins = 0
  <2>1. lineages' = [places EXCEPT ![k] = Free]
    BY <1>2 DEF RemoveLineage
  <2>2. lineages'[l].entries = places[l].entries \/ lineages'[l].entries = <<>>
    BY <2>1 DEF Free
  <2> QED BY <2>2 DEF Shrinks
<1> QED BY <1>1, <1>2

LEMMA QuietShrinks ==
  ASSUME IInv, NEW l \in Lineages, NEW k \in Lineages,
         \/ Prepare(k) \/ Commit(k) \/ TimePasses(k) \/ Condemn(k) \/ Rollback(k)
         \/ Lookup(k) \/ Start(k) \/ \E i \in 1 .. MaxPages : Finish(k, i)
  PROVE  Shrinks(l)
<1>1. /\ lineages \in [Lineages -> Place] /\ lineages[k] \in Place /\ lineages[l] \in Place
  BY InvParts
<1>2. CASE Prepare(k) \/ Commit(k) \/ TimePasses(k) \/ Condemn(k) \/ Start(k)
  <2> SUFFICES lineages'[l].entries = lineages[l].entries
    BY DEF Shrinks
  <2>0. CASE l # k
    BY <1>1, <1>2, <2>0 DEF Prepare, Commit, TimePasses, Condemn, Start
  <2>1. CASE Prepare(k) /\ l = k
    BY <1>1, <2>1 DEF Prepare, Place
  <2>1a. CASE Commit(k) /\ l = k
    BY <1>1, <2>1a DEF Commit, Place
  <2>2. CASE TimePasses(k) /\ l = k
    <3>1. \/ lineages' = [lineages EXCEPT ![k].protected = FALSE]
          \/ lineages' = [lineages EXCEPT ![k].age = "stale"]
          \/ lineages' = [lineages EXCEPT ![k].age = "over"]
      BY <2>2 DEF TimePasses
    <3> QED BY <1>1, <2>2, <3>1 DEF Place
  <2>3. CASE Condemn(k)
    BY <1>1, <2>3 DEF Condemn, Place
  <2>4. CASE Start(k)
    BY <1>1, <2>4 DEF Start, Place
  <2> QED BY <1>2, <2>0, <2>1, <2>1a, <2>2, <2>3, <2>4
<1>3. CASE Rollback(k)
  <2>1. RemoveLineage(k, lineages)
    BY <1>3 DEF Rollback
  <2> QED BY <1>1, <2>1, RemoveShrinks
<1>4. CASE Lookup(k)
  <2>1. RemoveLineage(k, lineages) \/ lineages' = lineages
    BY <1>4 DEF Lookup
  <2>2. CASE lineages' = lineages
    BY <2>2 DEF Shrinks
  <2> QED BY <1>1, <2>1, <2>2, RemoveShrinks
<1>5. ASSUME NEW i \in 1 .. MaxPages, Finish(k, i) PROVE Shrinks(l)
  <2> DEFINE unpinned == [lineages EXCEPT ![k].runtime = @ \ {i}, ![k].pins = @ - 1]
             p == [lineages[k] EXCEPT !.runtime = lineages[k].runtime \ {i},
                                      !.pins = lineages[k].pins - 1]
  <2>1. RemoveLineage(k, unpinned) \/ lineages' = unpinned
    BY <1>5 DEF Finish
  <2>2. unpinned = [lineages EXCEPT ![k] = p]
    BY <1>1 DEF Place
  <2>3. p \in Place /\ p.entries = lineages[k].entries
    <3>1. i \in lineages[k].runtime
      BY <1>5 DEF Finish
    <3>2. lineages[k].pins - 1 \in Nat
      <4>1. lineages[k].pins = Cardinality(lineages[k].runtime)
        BY InvParts
      <4>2. IsFiniteSet(lineages[k].runtime)
        <5>1. 1 \in Int /\ MaxPages \in Int
          BY RegistryAssumption
        <5>2. IsFiniteSet(1 .. MaxPages)
          BY <5>1, FS_Interval
        <5>3. lineages[k].runtime \in SUBSET (1 .. MaxPages)
          BY <1>1 DEF Place
        <5> QED BY <5>2, <5>3, FS_Subset
      <4>3. Cardinality(lineages[k].runtime) # 0 /\ Cardinality(lineages[k].runtime) \in Nat
        BY <3>1, <4>2, FS_EmptySet, FS_CardinalityType
      <4> QED BY <4>1, <4>3
    <3> QED BY <1>1, <3>2 DEF Place
  <2> HIDE DEF p
  <2>4. unpinned \in [Lineages -> Place] /\ \A x \in Lineages : unpinned[x].entries = lineages[x].entries
    BY <1>1, <2>2, <2>3
  <2> HIDE DEF unpinned
  <2>5. CASE lineages' = unpinned
    BY <2>4, <2>5 DEF Shrinks
  <2>6. CASE RemoveLineage(k, unpinned)
    BY <2>4, <2>6, RemoveShrinks
  <2> QED BY <2>1, <2>5, <2>6
<1> QED BY <1>2, <1>3, <1>4, <1>5

LEMMA CloseShrinks ==
  ASSUME IInv, NEW l \in Lineages, Close
  PROVE  Shrinks(l)
<1>1. lineages[l] \in Place
  BY InvParts
<1>2. lineages'[l] = [lineages[l] EXCEPT !.phase = "rollback"] \/ lineages'[l] = Free
  BY DEF Close
<1>3. [lineages[l] EXCEPT !.phase = "rollback"].entries = lineages[l].entries
  BY <1>1 DEF Place
<1>4. Free.entries = <<>>
  BY DEF Free
<1>5. CASE lineages'[l] = Free
  BY <1>4, <1>5 DEF Shrinks
<1>6. CASE lineages'[l] = [lineages[l] EXCEPT !.phase = "rollback"]
  <2>1. lineages'[l].entries = [lineages[l] EXCEPT !.phase = "rollback"].entries
    BY <1>6
  <2> QED BY <1>3, <2>1 DEF Shrinks
<1> QED BY <1>2, <1>5, <1>6

LEMMA GrownDoesNotShrink ==
  ASSUME IInv, NEW l \in Grown
  PROVE  l \in Lineages /\ ~Shrinks(l)
<1>1. l \in Lineages /\ Len(lineages'[l].entries) > Len(lineages[l].entries)
  BY DEF Grown
<1>2. lineages[l] \in Place
  BY <1>1, InvParts
<1>3. lineages[l].entries \in Seq(Nat)
  BY <1>2 DEF Place
<1>4. Len(lineages[l].entries) \in Nat /\ Len(<<>>) = 0
  BY <1>3
<1> SUFFICES ASSUME Shrinks(l) PROVE FALSE
  BY <1>1
<1>5. CASE lineages'[l].entries = lineages[l].entries
  BY <1>1, <1>4, <1>5
<1>6. CASE lineages'[l].entries = <<>>
  BY <1>1, <1>4, <1>6
<1> QED BY <1>5, <1>6 DEF Shrinks

LEMMA InitialEvicts ==
  ASSUME IInv, NEW k \in Lineages, NEW read \in BOOLEAN, NEW transferred \in BOOLEAN,
         NEW size \in Sizes, NEW slots \in 1 .. MaxPages, NEW bytes \in Reservations,
         CommitInitial(k, read, size, slots, bytes, transferred), NEW l \in Grown, NEW v \in Gone
  PROVE  Spent(v) /\ Oldest(v, l) /\ Needed(v)
<1> DEFINE charge == size + FixedBytes + bytes
           V == Victims(slots + 1, charge, k)
           p == [Free EXCEPT !.phase = "provisional", !.read = read, !.entries = <<size>>,
                             !.reservedSlots = slots, !.reservedBytes = bytes,
                             !.dynamicBytes = charge]
<1>1. /\ lineages[k].phase = "none" /\ CanAdmit(slots + 1, charge, k)
      /\ IF transferred
         THEN /\ lineages' = [Evicted(V) EXCEPT ![k] = p]
              /\ usedSlots' = usedSlots - Slots(V) + slots + 1
              /\ totalBytes' = totalBytes - Bytes(V) + charge
         ELSE lineages' = Evicted(V)
  BY DEF CommitInitial
<1>2. /\ slots \in Nat /\ slots + 1 \in Nat /\ charge \in Nat /\ MaxPages \in Nat
  BY RegistryAssumption
<1>3. ArenaInv /\ OrderInv /\ ChargeInv /\ \A x \in Lineages : Sound(lineages[x])
  BY DEF IInv, ArenaInv
<1>4. V \in SUBSET (Occupied(lineages) \ {k})
  <2> HIDE DEF charge
  <2> QED BY <1>1, <1>3, VictimsFacts
<1>5. p.phase = "provisional" /\ Free.phase = "none" /\ Free.entries = <<>>
  BY DEF Free
<1> HIDE DEF charge, V, p
<1>6. \A x \in Lineages \ {k} : lineages'[x] = IF x \in V THEN Free ELSE lineages[x]
  BY <1>1 DEF Evicted
<1>7. l \in Lineages /\ ~Shrinks(l)
  BY GrownDoesNotShrink
<1>8. l = k
  BY <1>5, <1>6, <1>7 DEF Shrinks
<1>9. CASE ~transferred
  <2>1. lineages' = Evicted(V)
    BY <1>1, <1>9
  <2>2. lineages'[l] = Free \/ lineages'[l] = lineages[l]
    BY <1>7, <2>1 DEF Evicted
  <2> QED BY <1>5, <1>7, <2>2 DEF Shrinks
<1>10. CASE transferred
  <2>1. /\ lineages' = [Evicted(V) EXCEPT ![k] = p]
        /\ usedSlots' = usedSlots - Slots(V) + slots + 1
        /\ totalBytes' = totalBytes - Bytes(V) + charge
    BY <1>1, <1>10
  <2>2. Gone = V
    BY <1>1, <1>4, <1>5, <1>6 DEF Gone, Occupied
  <2>3. usedSlots' = usedSlots - Slots(V) + (slots + 1)
    <3>1. Slots(V) \in Nat /\ usedSlots \in Nat
      <4>1. \A x \in V : SlotSizes(lineages)[x] \in Nat
        BY <1>3, <1>4, SizesAreNumbers, OccupiedPlaces
      <4>2. IsFiniteSet(V)
        BY <1>4, OccupiedPlaces, RegistryAssumption, FS_Subset
      <4>3. SumOver(SlotSizes(lineages), V) \in Nat
        BY <4>1, <4>2, SumFacts
      <4> QED BY <1>3, <4>3, TotalsAreSums, RegistryAssumption DEF ChargeInv
    <3> QED BY <1>2, <2>1, <3>1
  <2> QED BY <1>1, <1>2, <1>8, <2>1, <2>2, <2>3, AdmissionEvicts DEF V
<1> QED BY <1>9, <1>10

LEMMA ReservedEvictsNobody ==
  ASSUME IInv, NEW k \in Lineages, NEW size \in Sizes, MaterializeReserved(k, size)
  PROVE  Gone = {}
<1>1. lineages \in [Lineages -> Place] /\ lineages[k] \in Place
  BY InvParts
<1>2. \A x \in Lineages : lineages'[x].phase = lineages[x].phase
  <2> TAKE x \in Lineages
  <2>1. CASE x # k
    BY <1>1, <2>1 DEF MaterializeReserved
  <2>2. CASE x = k
    BY <1>1, <2>2 DEF MaterializeReserved, Place
  <2> QED BY <2>1, <2>2
<1> QED BY <1>2 DEF Gone

LEMMA AdmittedEvicts ==
  ASSUME IInv, NEW k \in Lineages, NEW size \in Sizes, MaterializeAdmitted(k, size),
         NEW l \in Grown, NEW v \in Gone
  PROVE  Spent(v) /\ Oldest(v, l) /\ Needed(v)
<1> DEFINE V == Victims(1, size, k)
<1>1. /\ lineages[k].phase # "none" /\ CanAdmit(1, size, k)
      /\ usedSlots' = usedSlots - Slots(V) + 1 /\ totalBytes' = totalBytes - Bytes(V) + size
      /\ lineages' = [Evicted(V) EXCEPT ![k].entries = Append(@, size), ![k].dynamicBytes = @ + size,
                                        ![k].protected = TRUE]
  BY DEF MaterializeAdmitted, MayExtend, Live
<1>2. 1 \in Nat /\ size \in Nat
  BY RegistryAssumption
<1>3. ArenaInv /\ OrderInv /\ lineages[k] \in Place
  BY InvParts DEF IInv
<1>4. V \in SUBSET (Occupied(lineages) \ {k})
  BY <1>1, <1>3, VictimsFacts
<1>5. Free.phase = "none" /\ Free.entries = <<>>
  BY DEF Free
<1>6. Evicted(V)[k] = lineages[k]
  BY <1>4 DEF Evicted
<1> HIDE DEF V
<1>7. \A x \in Lineages \ {k} : lineages'[x] = IF x \in V THEN Free ELSE lineages[x]
  BY <1>1 DEF Evicted
<1>8. lineages'[k].phase = lineages[k].phase
  <2>1. lineages'[k] = [lineages[k] EXCEPT !.entries = Append(@, size), !.dynamicBytes = @ + size,
                                           !.protected = TRUE]
    BY <1>1, <1>6 DEF Evicted
  <2> QED BY <1>3, <2>1 DEF Place
<1>9. l \in Lineages /\ ~Shrinks(l)
  BY GrownDoesNotShrink
<1>10. l = k
  BY <1>5, <1>7, <1>9 DEF Shrinks
<1>11. Gone = V
  BY <1>1, <1>4, <1>5, <1>7, <1>8 DEF Gone, Occupied
<1> QED BY <1>1, <1>2, <1>10, <1>11, AdmissionEvicts DEF V

LEMMA EvictionRight ==
  IInv /\ [Next]_vars => [\A l \in Grown, v \in Gone : Spent(v) /\ Oldest(v, l) /\ Needed(v)]_vars
<1> SUFFICES ASSUME IInv, Next, NEW l \in Grown, NEW v \in Gone
             PROVE  Spent(v) /\ Oldest(v, l) /\ Needed(v)
  OBVIOUS
<1>1. l \in Lineages /\ ~Shrinks(l)
  BY GrownDoesNotShrink
<1>2. ~Close /\ ~Released
  BY <1>1, CloseShrinks DEF Released, vars, Shrinks
<1>3. PICK k \in Lineages : Step(k)
  BY <1>2 DEF Next
<1>4. ~ (\/ Prepare(k) \/ Commit(k) \/ TimePasses(k) \/ Condemn(k) \/ Rollback(k)
         \/ Lookup(k) \/ Start(k) \/ \E i \in 1 .. MaxPages : Finish(k, i))
  BY <1>1, QuietShrinks
<1>5. CASE \E read, transferred \in BOOLEAN, size \in Sizes, slots \in 1 .. MaxPages,
              bytes \in Reservations : CommitInitial(k, read, size, slots, bytes, transferred)
  BY <1>5, InitialEvicts
<1>6. CASE \E size \in Sizes : MaterializeReserved(k, size)
  BY <1>6, ReservedEvictsNobody
<1>7. CASE \E size \in Sizes : MaterializeAdmitted(k, size)
  BY <1>7, AdmittedEvicts
<1> QED BY <1>3, <1>4, <1>5, <1>6, <1>7 DEF Step

(* An admission for l removes only lineages that nobody computes for,      *)
(* whose cursor was handed over and had its time, the least recently used  *)
(* first and no more than it needs (canAdmitWithEvictionLocked,            *)
(* eligibleLRUTailLocked).                                                 *)
THEOREM EvictsOldestOnly == Spec => EvictsOldest
<1> DEFINE Right == \A l \in Grown, v \in Gone : Spent(v) /\ Oldest(v, l) /\ Needed(v)
<1>1. IInv /\ [Next]_vars => [Right]_vars
  BY EvictionRight
<1> HIDE DEF Right
<1>2. Spec => [][Right]_vars
  BY <1>1, Invariance, PTL DEF Spec
<1> QED BY <1>2 DEF EvictsOldest, Right

-------------------------------------------------------------------------------
(* The containers: sizes and powers of two                                 *)

(* Each power of two is the double of the one before.                      *)
LEMMA PowerFacts ==
  /\ PowerOfTwo[0] = 1
  /\ \A n \in 0 .. Width + 2 : PowerOfTwo[n] \in Nat \ {0}
  /\ \A n \in 1 .. Width + 2 : PowerOfTwo[n] = 2 * PowerOfTwo[n - 1]
<1> DEFINE L == Width + 2
           X == Nat \ {0}
           G == [p \in X \X (1 .. L) |-> 2 * p[1]]
           Powers(h) == h = [n \in 0 .. L |-> IF n = 0 THEN 1 ELSE 2 * h[n - 1]]
<1>1. L \in Nat
  BY IndexAssumption
<1>2. G \in [X \X (1 .. L) -> X]
  OBVIOUS
<1>3. PICK h \in [0 .. L -> X] : h[0] = 1 /\ \A k \in 1 .. L : h[k] = G[<<h[k - 1], k>>]
  <2>1. 1 \in X
    OBVIOUS
  <2> HIDE DEF G, L, X
  <2>2. \E h : Computes(L, X, 1, G, h)
    BY <1>1, <1>2, <2>1, Recursion
  <2> QED BY <2>2 DEF Computes
<1>4. \A k \in 1 .. L : h[k] = 2 * h[k - 1]
  <2> TAKE k \in 1 .. L
  <2>1. k - 1 \in 0 .. L
    BY <1>1
  <2>2. <<h[k - 1], k>> \in X \X (1 .. L)
    BY <2>1
  <2> QED BY <1>3, <2>2
<1>5. Powers(h)
  <2>1. \A n \in 0 .. L : h[n] = IF n = 0 THEN 1 ELSE 2 * h[n - 1]
    BY <1>1, <1>3, <1>4
  <2> HIDE DEF L, X
  <2> QED BY <2>1, <1>3
<1>6. PowerOfTwo = CHOOSE g : Powers(g)
  BY DEF PowerOfTwo
<1>7. Powers(PowerOfTwo)
  <2> HIDE DEF Powers
  <2> QED BY <1>5, <1>6
<1>8. /\ PowerOfTwo[0] = 1
      /\ \A n \in 1 .. L : PowerOfTwo[n] = 2 * PowerOfTwo[n - 1]
  BY <1>1, <1>7
<1>9. \A n \in 0 .. L : PowerOfTwo[n] = h[n]
  <2> DEFINE Bad == {n \in 0 .. L : PowerOfTwo[n] # h[n]}
  <2> SUFFICES ASSUME Bad # {} PROVE FALSE
    OBVIOUS
  <2>1. Min(Bad) \in Bad /\ \A y \in Bad : Min(Bad) <= y
    <3>1. Bad \in SUBSET Nat
      OBVIOUS
    <3> HIDE DEF Bad
    <3> QED BY <3>1, LeastNumber
  <2> DEFINE n == Min(Bad)
  <2>2. n \in 0 .. L /\ PowerOfTwo[n] # h[n]
    BY <2>1
  <2>3. n # 0
    BY <1>3, <1>8, <2>2
  <2>4. n \in 1 .. L /\ n - 1 \in 0 .. L /\ n - 1 \notin Bad
    BY <1>1, <2>1, <2>2, <2>3
  <2>5. PowerOfTwo[n - 1] = h[n - 1]
    BY <2>4
  <2> HIDE DEF n, G, L
  <2> QED BY <1>4, <1>8, <2>2, <2>4, <2>5
<1> QED BY <1>3, <1>8, <1>9

(* The table has twice as many slots as the arena has places.              *)
LEMMA SizeFacts ==
  /\ Cardinality(Places) \in Nat \ {0}
  /\ TableSize \in Nat /\ 2 * Cardinality(Places) <= TableSize
<1> DEFINE C == Cardinality(Places)
           v == C * 2
<1>1. C \in Nat
  BY IndexAssumption, FS_CardinalityType
<1>2. Width \in Nat \ {0} /\ PowerOfTwo[Width] \in Nat \ {0} /\ Top \in Nat
  BY IndexAssumption, PowerFacts DEF Top
<1>3. /\ C # 0 /\ ~ (C > Top \div 2) /\ NextPowerOfTwo(v) # Overflow
      /\ TableSize = NextPowerOfTwo(v)
  BY IndexAssumption DEF IndexSlots, TableSize
<1>4. v \in Nat /\ v # 0 /\ v < PowerOfTwo[Width]
  BY <1>1, <1>2, <1>3 DEF Top
<1>5. CASE \E n \in 0 .. Width : v = PowerOfTwo[n]
  BY <1>1, <1>3, <1>4, <1>5 DEF NextPowerOfTwo
<1>6. CASE ~ \E n \in 0 .. Width : v = PowerOfTwo[n]
  <2> DEFINE T == {n \in 0 .. Width : PowerOfTwo[n] > v}
  <2>1. Min(T) \in T /\ \A y \in T : Min(T) <= y
    <3>1. T \in SUBSET Nat /\ T # {}
      BY <1>2, <1>4
    <3> HIDE DEF T
    <3> QED BY <3>1, LeastNumber
  <2> DEFINE m == Min(T)
  <2>2. m \in 0 .. Width /\ PowerOfTwo[m] > v
    BY <2>1
  <2>3. m > 0 => PowerOfTwo[m - 1] <= v
    <3> SUFFICES ASSUME m > 0 PROVE PowerOfTwo[m - 1] <= v
      OBVIOUS
    <3>1. m - 1 \in 0 .. Width /\ m - 1 \notin T /\ PowerOfTwo[m - 1] \in Nat
      BY <1>2, <2>1, <2>2, PowerFacts
    <3> QED BY <1>4, <3>1
  <2>4. BitLength(v) \in 0 .. Width /\ PowerOfTwo[BitLength(v)] > v
    <3> HIDE DEF m
    <3> QED BY <2>2, <2>3 DEF BitLength
  <2>5. TableSize = PowerOfTwo[BitLength(v)]
    BY <1>3, <1>4, <1>6 DEF NextPowerOfTwo
  <2>6. PowerOfTwo[BitLength(v)] \in Nat
    BY <1>2, <2>4, PowerFacts
  <2> QED BY <1>1, <1>3, <1>4, <2>4, <2>5, <2>6
<1> QED BY <1>5, <1>6

-------------------------------------------------------------------------------
(* The table                                                               *)

Ring(a, b) == IF a <= b THEN b - a ELSE b - a + TableSize

(* Once around the table.                                                  *)
LEMMA Cycle ==
  \A a, b \in TableSlots :
    /\ Slot(a, b) \in TableSlots /\ Ring(a, Slot(a, b)) = b
    /\ Ring(a, b) \in TableSlots /\ Slot(a, Ring(a, b)) = b
    /\ CyclicDistance(a, b) = Ring(a, b)
<1>1. TableSize \in Nat \ {0}
  BY SizeFacts
<1>2. TAKE a, b \in TableSlots
<1>3. a \in Nat /\ b \in Nat /\ a < TableSize /\ b < TableSize
  BY <1>1 DEF TableSlots
<1>4. Slot(a, b) = IF a + b < TableSize THEN a + b ELSE a + b - TableSize
  BY <1>1, <1>3 DEF Slot
<1>5. CyclicDistance(a, b) = Ring(a, b)
  BY <1>1, <1>3 DEF CyclicDistance, Ring
<1>6. Slot(a, b) \in TableSlots /\ Ring(a, Slot(a, b)) = b /\ Ring(a, b) \in TableSlots
  BY <1>1, <1>3, <1>4 DEF Ring, TableSlots
<1>7. Slot(a, Ring(a, b)) = b
  BY <1>1, <1>3 DEF Slot, Ring
<1> QED BY <1>5, <1>6, <1>7

(* From anywhere each slot is met at its own distance.                     *)
LEMMA RingFacts ==
  ASSUME NEW a \in TableSlots, NEW b \in TableSlots, NEW c \in TableSlots
  PROVE  Ring(a, b) = Ring(a, c) => b = c
BY SizeFacts DEF Ring, TableSlots

(* Who passes the hole before the slot reaches the slot after the hole's   *)
(* end: o is the hole, w the end, s the slot, h its home.                  *)
LEMMA RingOrder ==
  ASSUME NEW a \in TableSlots, NEW h \in TableSlots, NEW o \in TableSlots, NEW w \in TableSlots,
         NEW s \in TableSlots, Ring(a, o) < Ring(a, w), Ring(h, o) < Ring(h, s),
         Ring(a, s) < Ring(a, o) \/ Ring(a, w) < Ring(a, s)
  PROVE  Ring(h, w) < Ring(h, s)
BY SizeFacts DEF Ring, TableSlots

Rows == {Vacant} \cup [key : Tokens, home : TableSlots, place : Places]

(* An entry is reached from its home over taken slots only, and the holes. *)
Chained(t, holes) ==
  \A s, x \in TableSlots :
    t[s] # Vacant /\ Ring(t[s].home, x) < Ring(t[s].home, s) => t[x] # Vacant \/ x \in holes

(* Rearranged: u has what t has but the row r, each row once.              *)
Lacks(t, r, u) ==
  /\ \A s \in TableSlots :
       u[s] # Vacant => u[s] # r /\ \E x \in TableSlots : t[x] = u[s]
  /\ \A x \in TableSlots :
       t[x] # Vacant /\ t[x] # r => \E s \in TableSlots : u[s] = t[x]
  /\ \A s, x \in TableSlots : u[s] # Vacant /\ u[s] = u[x] => s = x

LEMMA RowFacts ==
  /\ Vacant.key = NoToken /\ Vacant.place = NoPlace /\ NoPlace \notin Places
  /\ \A row \in Rows : row.key \in Tokens \cup {NoToken} /\ (row = Vacant <=> row.key = NoToken)
  /\ \A row \in Rows : row # Vacant => row.home \in TableSlots /\ row.place \in Places
<1>1. NoToken \notin Tokens /\ NoPlace \notin Places
  BY IndexAssumption, SizeFacts DEF NoPlace
<1>2. Vacant.key = NoToken /\ Vacant.place = NoPlace
  BY DEF Vacant
<1> QED BY <1>1, <1>2 DEF Rows

(* A probe ends at the first slot with the key or with none.               *)
LEMMA ProbedFacts ==
  ASSUME NEW key, NEW from \in TableSlots,
         \E s \in TableSlots : table[s].key \in {key, NoToken}
  PROVE  /\ Probed(key, from) \in TableSlots
         /\ table[Probed(key, from)].key \in {key, NoToken}
         /\ \A x \in TableSlots :
              Ring(from, x) < Ring(from, Probed(key, from)) => table[x].key \notin {key, NoToken}
<1> DEFINE T == { probe \in TableSlots : table[Slot(from, probe)].key \in {key, NoToken} }
           m == Min(T)
<1>1. T \in SUBSET Nat /\ T # {}
  <2>1. PICK s \in TableSlots : table[s].key \in {key, NoToken}
    OBVIOUS
  <2>2. Ring(from, s) \in T
    BY <2>1, Cycle
  <2> QED BY <2>2, SizeFacts DEF TableSlots
<1>2. m \in T /\ \A y \in T : m <= y
  <2> HIDE DEF T
  <2> QED BY <1>1, LeastNumber
<1>3. Probed(key, from) = Slot(from, m)
  BY DEF Probed
<1>4. m \in TableSlots /\ table[Slot(from, m)].key \in {key, NoToken}
  BY <1>2
<1> HIDE DEF m
<1>5. Slot(from, m) \in TableSlots /\ Ring(from, Slot(from, m)) = m
  BY <1>4, Cycle
<1>6. ASSUME NEW x \in TableSlots, Ring(from, x) < m
      PROVE  table[x].key \notin {key, NoToken}
  <2>1. Ring(from, x) \in TableSlots /\ Slot(from, Ring(from, x)) = x
    BY Cycle
  <2>2. Ring(from, x) \in Nat /\ m \in Nat
    BY <1>4, <2>1, SizeFacts DEF TableSlots
  <2>3. Ring(from, x) \notin T
    <3> HIDE DEF T
    <3> QED BY <1>2, <1>6, <2>2
  <2> QED BY <2>1, <2>3
<1> QED BY <1>3, <1>4, <1>5, <1>6

-------------------------------------------------------------------------------
(* Deletion                                                                *)

States == [table : [TableSlots -> Rows], hole : TableSlots, over : BOOLEAN]

(* The scan has passed p slots after start, and none of them needs the     *)
(* hole, which is one of them: the entries between the hole and the scan   *)
(* are reached without it.                                                 *)
Scanning(start, p, acc) ==
  /\ acc \in States /\ ~acc.over
  /\ Ring(start, acc.hole) <= p /\ acc.table[acc.hole] = Vacant
  /\ Chained(acc.table, {acc.hole})
  /\ Lacks(table, table[start], acc.table)
  /\ \A s \in TableSlots : Ring(start, s) > p => acc.table[s] = table[s]
  /\ \A s \in TableSlots :
       Ring(start, acc.hole) < Ring(start, s) /\ Ring(start, s) <= p =>
         /\ acc.table[s] # Vacant
         /\ ~ (Ring(acc.table[s].home, acc.hole) < Ring(acc.table[s].home, s))

LEMMA ShiftCases ==
  ASSUME NEW start \in TableSlots, NEW acc \in States, NEW probe \in TableSlots
  PROVE  LET slot == Slot(start, probe)
             entry == acc.table[slot]
         IN  /\ Shift(start, acc, probe) \in States
             /\ ~ (acc.over \/ entry = Vacant) =>
                  Shift(start, acc, probe) =
                    IF Ring(entry.home, acc.hole) < Ring(entry.home, slot)
                      THEN [table |-> [acc.table EXCEPT ![acc.hole] = entry, ![slot] = Vacant],
                            hole |-> slot, over |-> FALSE]
                    ELSE acc
<1> DEFINE slot == Slot(start, probe)
           entry == acc.table[slot]
<1>1. /\ slot \in TableSlots
      /\ acc.table \in [TableSlots -> Rows] /\ acc.hole \in TableSlots /\ acc.over \in BOOLEAN
      /\ Vacant \in Rows
  BY Cycle DEF States, Rows
<1>2. entry \in Rows /\ (entry # Vacant => entry.home \in TableSlots)
  BY <1>1, RowFacts
<1>3. CASE acc.over \/ entry = Vacant
  <2>1. Shift(start, acc, probe) = [acc EXCEPT !.over = TRUE]
    BY <1>3 DEF Shift
  <2>2. [acc EXCEPT !.over = TRUE] \in States
    BY DEF States
  <2> QED BY <1>3, <2>1, <2>2
<1>4. CASE ~ (acc.over \/ entry = Vacant)
  <2>1. /\ CyclicDistance(entry.home, acc.hole) = Ring(entry.home, acc.hole)
        /\ CyclicDistance(entry.home, slot) = Ring(entry.home, slot)
    BY <1>1, <1>2, <1>4, Cycle
  <2> DEFINE moved == [table |-> [acc.table EXCEPT ![acc.hole] = entry, ![slot] = Vacant],
                       hole |-> slot, over |-> FALSE]
  <2>2. Shift(start, acc, probe) =
          IF Ring(entry.home, acc.hole) < Ring(entry.home, slot) THEN moved ELSE acc
    BY <1>4, <2>1 DEF Shift
  <2>3. moved \in States
    <3>1. [acc.table EXCEPT ![acc.hole] = entry, ![slot] = Vacant] \in [TableSlots -> Rows]
      BY <1>1, <1>2
    <3> QED BY <1>1, <3>1 DEF States
  <2> HIDE DEF moved, slot, entry
  <2>4. Shift(start, acc, probe) \in States
    BY <2>2, <2>3
  <2> QED BY <1>4, <2>2, <2>4 DEF moved, slot, entry
<1> QED BY <1>3, <1>4

LEMMA ShiftStep ==
  ASSUME table \in [TableSlots -> Rows], NEW start \in TableSlots, NEW p \in Nat, p + 1 \in TableSlots,
         NEW acc, Scanning(start, p, acc), table[Slot(start, p + 1)] # Vacant
  PROVE  Scanning(start, p + 1, Shift(start, acc, p + 1))
<1> DEFINE slot == Slot(start, p + 1)
           t == acc.table
           hole == acc.hole
           entry == t[slot]
           next == Shift(start, acc, p + 1)
<1>1. slot \in TableSlots /\ Ring(start, slot) = p + 1
  BY Cycle
<1>2. acc \in States /\ t \in [TableSlots -> Rows] /\ hole \in TableSlots /\ ~acc.over
  BY DEF Scanning, States
<1>3. /\ Ring(start, hole) <= p /\ t[hole] = Vacant
      /\ entry = table[slot] /\ entry # Vacant /\ entry \in Rows /\ entry.home \in TableSlots
  BY <1>1, <1>2, RowFacts DEF Scanning
<1>4. \A x, y \in TableSlots : Ring(x, y) \in Nat /\ Ring(x, y) < TableSize
  BY SizeFacts DEF Ring, TableSlots
<1>5. slot # hole
  BY <1>1, <1>2, <1>3, <1>4
<1>6. \A s \in TableSlots : Ring(start, s) = p + 1 => s = slot
  BY <1>1, RingFacts
<1>7. CASE Ring(entry.home, hole) < Ring(entry.home, slot)
  <2> DEFINE u == [t EXCEPT ![hole] = entry, ![slot] = Vacant]
  <2>1. next = [table |-> u, hole |-> slot, over |-> FALSE] /\ next \in States
    BY <1>2, <1>3, <1>7, ShiftCases
  <2>2. next.table = u /\ next.hole = slot /\ ~next.over
    BY <2>1
  <2>3. \A s \in TableSlots :
          u[s] = IF s = slot THEN Vacant ELSE IF s = hole THEN entry ELSE t[s]
    BY <1>2, <1>5
  <2> HIDE DEF u, next
  <2>4. Chained(u, {slot})
    <3> SUFFICES ASSUME NEW s \in TableSlots, NEW x \in TableSlots, u[s] # Vacant,
                        Ring(u[s].home, x) < Ring(u[s].home, s), x # slot
                 PROVE  u[x] # Vacant
      BY DEF Chained
    <3>1. CASE x = hole
      BY <1>3, <1>5, <2>3, <3>1
    <3>2. CASE x # hole /\ s = hole
      <4>1. u[s] = entry
        BY <1>5, <2>3, <3>2
      <4>2. Ring(entry.home, x) < Ring(entry.home, slot)
        BY <1>1, <1>2, <1>3, <1>4, <1>7, <3>2, <4>1
      <4>3. t[x] # Vacant
        BY <1>1, <1>3, <3>2, <4>2 DEF Scanning, Chained
      <4> QED BY <2>3, <3>2, <4>3
    <3>3. CASE x # hole /\ s # hole
      <4>1. u[s] = t[s]
        BY <2>3, <3>3
      <4>2. t[x] # Vacant
        BY <3>3, <4>1 DEF Scanning, Chained
      <4> QED BY <2>3, <3>3, <4>2
    <3> QED BY <3>1, <3>2, <3>3
  <2>5. Lacks(table, table[start], u)
    <3>1. Lacks(table, table[start], t)
      BY DEF Scanning
    <3>2. ASSUME NEW s \in TableSlots, u[s] # Vacant
          PROVE  \E y \in TableSlots : t[y] = u[s] /\ (y = IF s = hole THEN slot ELSE s)
      BY <1>1, <1>5, <2>3, <3>2
    <3>3. ASSUME NEW y \in TableSlots, t[y] # Vacant
          PROVE  \E s \in TableSlots : u[s] = t[y]
      <4>1. CASE y = slot
        BY <1>2, <1>5, <2>3, <4>1
      <4>2. CASE y # slot
        BY <1>3, <2>3, <3>3, <4>2
      <4> QED BY <4>1, <4>2
    <3>4. \A s \in TableSlots :
            u[s] # Vacant => u[s] # table[start] /\ \E x \in TableSlots : table[x] = u[s]
      BY <3>1, <3>2 DEF Lacks
    <3>5. \A x \in TableSlots :
            table[x] # Vacant /\ table[x] # table[start] => \E s \in TableSlots : u[s] = table[x]
      BY <3>1, <3>3 DEF Lacks
    <3>6. ASSUME NEW s \in TableSlots, NEW x \in TableSlots, u[s] # Vacant, u[s] = u[x]
          PROVE  s = x
      <4>1. PICK y \in TableSlots : t[y] = u[s] /\ (y = IF s = hole THEN slot ELSE s)
        BY <3>2, <3>6
      <4>2. PICK z \in TableSlots : t[z] = u[s] /\ (z = IF x = hole THEN slot ELSE x)
        BY <3>2, <3>6
      <4>3. y = z
        BY <3>1, <3>6, <4>1, <4>2 DEF Lacks
      <4>4. s # slot /\ x # slot
        BY <1>1, <2>3, <3>6
      <4> QED BY <4>1, <4>2, <4>3, <4>4
    <3> QED BY <3>4, <3>5, <3>6 DEF Lacks
  <2>6. ASSUME NEW s \in TableSlots, Ring(start, s) > p + 1 PROVE u[s] = table[s]
    <3>1. s # slot /\ s # hole /\ Ring(start, s) > p
      BY <1>1, <1>2, <1>3, <1>4, <2>6
    <3> QED BY <2>3, <3>1 DEF Scanning
  <2>7. \A s \in TableSlots : ~ (Ring(start, slot) < Ring(start, s) /\ Ring(start, s) <= p + 1)
    BY <1>1, <1>4
  <2>8. u[slot] = Vacant /\ Ring(start, slot) <= p + 1
    BY <1>1, <2>3
  <2>9. Scanning(start, p + 1, next)
    BY <2>1, <2>2, <2>4, <2>5, <2>6, <2>7, <2>8 DEF Scanning
  <2> QED BY <2>9 DEF next
<1>8. CASE ~ (Ring(entry.home, hole) < Ring(entry.home, slot))
  <2>1. next = acc
    BY <1>2, <1>3, <1>8, ShiftCases
  <2>2. Ring(start, hole) <= p + 1
    BY <1>2, <1>3, <1>4
  <2>3. \A s \in TableSlots : Ring(start, s) > p + 1 => t[s] = table[s]
    BY <1>4 DEF Scanning
  <2>4. ASSUME NEW s \in TableSlots, Ring(start, hole) < Ring(start, s), Ring(start, s) <= p + 1
        PROVE  t[s] # Vacant /\ ~ (Ring(t[s].home, hole) < Ring(t[s].home, s))
    <3>1. CASE Ring(start, s) = p + 1
      BY <1>3, <1>6, <1>8, <3>1
    <3>2. CASE Ring(start, s) # p + 1
      <4>1. Ring(start, s) <= p
        BY <1>4, <2>4, <3>2
      <4> QED BY <2>4, <4>1 DEF Scanning
    <3> QED BY <3>1, <3>2
  <2>5. /\ acc \in States /\ ~acc.over /\ t[hole] = Vacant
        /\ Chained(t, {hole}) /\ Lacks(table, table[start], t)
    BY DEF Scanning
  <2> HIDE DEF next
  <2>6. Scanning(start, p + 1, next)
    BY <2>1, <2>2, <2>3, <2>4, <2>5 DEF Scanning
  <2> QED BY <2>6 DEF next
<1> QED BY <1>7, <1>8

(* The vacant slot that ends the scan lies behind the hole: nobody is      *)
(* reached across both.                                                    *)
LEMMA ScanEnds ==
  ASSUME table \in [TableSlots -> Rows], NEW start \in TableSlots, NEW p \in Nat, p + 1 \in TableSlots,
         NEW acc, Scanning(start, p, acc), table[Slot(start, p + 1)] = Vacant
  PROVE  Chained(acc.table, {})
<1> DEFINE t == acc.table
           hole == acc.hole
           w == Slot(start, p + 1)
<1>1. w \in TableSlots /\ Ring(start, w) = p + 1
  BY Cycle
<1>2. t \in [TableSlots -> Rows] /\ hole \in TableSlots /\ Ring(start, hole) <= p
  BY DEF Scanning, States
<1>3. \A x, y \in TableSlots : Ring(x, y) \in Nat
  BY SizeFacts DEF Ring, TableSlots
<1>4. t[w] = Vacant /\ w # hole
  <2>1. Ring(start, w) > p
    BY <1>1
  <2> QED BY <1>1, <1>2, <1>3, <2>1 DEF Scanning
<1> SUFFICES ASSUME NEW s \in TableSlots, NEW x \in TableSlots, t[s] # Vacant,
                    Ring(t[s].home, x) < Ring(t[s].home, s)
             PROVE  t[x] # Vacant
  BY DEF Chained
<1>5. t[s].home \in TableSlots
  BY <1>2, RowFacts
<1>6. t[x] # Vacant \/ x = hole
  BY DEF Scanning, Chained
<1>7. CASE x = hole
  <2>1. Ring(start, s) # Ring(start, hole) /\ Ring(start, s) # Ring(start, w)
    <3>1. s # hole /\ s # w
      BY <1>4 DEF Scanning
    <3> QED BY <1>1, <1>2, <3>1, RingFacts
  <2>2. ~ (Ring(start, hole) < Ring(start, s) /\ Ring(start, s) <= p)
    BY <1>7 DEF Scanning
  <2>3. /\ Ring(start, hole) < Ring(start, w)
        /\ Ring(start, s) < Ring(start, hole) \/ Ring(start, w) < Ring(start, s)
    BY <1>1, <1>2, <1>3, <2>1, <2>2
  <2>4. Ring(t[s].home, w) < Ring(t[s].home, s)
    BY <1>1, <1>2, <1>5, <1>7, <2>3, RingOrder
  <2> QED BY <1>1, <1>4, <2>4 DEF Scanning, Chained
<1> QED BY <1>6, <1>7

Emptied(start) == [table |-> [table EXCEPT ![start] = Vacant], hole |-> start, over |-> FALSE]

Scans(start, h) ==
  h = [probe \in 0 .. TableSize - 1 |->
         IF probe = 0 THEN Emptied(start) ELSE Shift(start, h[probe - 1], probe)]

LEMMA DeletedDef ==
  \A key, from : Deleted(key, from)
    = (CHOOSE h : Scans(Probed(key, from), h))[TableSize - 1].table
BY DEF Deleted, Scans, Emptied

LEMMA ScanSteps ==
  ASSUME table \in [TableSlots -> Rows], NEW start \in TableSlots
  PROVE  LET scan == CHOOSE h : Scans(start, h)
         IN  /\ scan[0] = Emptied(start)
             /\ \A p \in 1 .. TableSize - 1 : scan[p] = Shift(start, scan[p - 1], p)
             /\ \A p \in 0 .. TableSize - 1 : scan[p] \in States
<1> DEFINE L == TableSize - 1
           G == [a \in States \X (1 .. L) |-> Shift(start, a[1], a[2])]
           base == Emptied(start)
           scan == CHOOSE h : Scans(start, h)
<1>1. L \in Nat /\ \A p \in 1 .. L : p \in TableSlots /\ p - 1 \in 0 .. L
  BY SizeFacts DEF TableSlots
<1>2. base \in States
  BY DEF States, Emptied, Rows
<1>3. G \in [States \X (1 .. L) -> States]
  <2>1. \A a \in States \X (1 .. L) : Shift(start, a[1], a[2]) \in States
    BY <1>1, ShiftCases
  <2> QED BY <2>1
<1>4. PICK h : Computes(L, States, base, G, h)
  <2> HIDE DEF L, G, base
  <2> QED BY <1>1, <1>2, <1>3, Recursion
<1>5. h \in [0 .. L -> States] /\ h[0] = base
  BY <1>4 DEF Computes
<1>6. \A p \in 1 .. L : h[p] = Shift(start, h[p - 1], p)
  <2> TAKE p \in 1 .. L
  <2>1. <<h[p - 1], p>> \in States \X (1 .. L)
    BY <1>1, <1>5
  <2>2. h[p] = G[<<h[p - 1], p>>]
    BY <1>4 DEF Computes
  <2> QED BY <2>1, <2>2
<1>7. Scans(start, h)
  <2>1. \A p \in 0 .. L : h[p] = IF p = 0 THEN base ELSE Shift(start, h[p - 1], p)
    BY <1>1, <1>5, <1>6
  <2> HIDE DEF base
  <2>2. h = [p \in 0 .. L |-> IF p = 0 THEN base ELSE Shift(start, h[p - 1], p)]
    BY <1>5, <2>1
  <2> QED BY <2>2 DEF Scans, base
<1>8. Scans(start, scan)
  <2> HIDE DEF Scans
  <2> QED BY <1>7
<1>9. /\ scan[0] = base
      /\ \A p \in 1 .. L : scan[p] = Shift(start, scan[p - 1], p)
  <2> HIDE DEF scan
  <2> QED BY <1>1, <1>8 DEF Scans
<1>10. \A p \in 0 .. L : scan[p] \in States
  <2> HIDE DEF scan, base, L
  <2> DEFINE Bad == {p \in 0 .. L : scan[p] \notin States}
  <2> SUFFICES ASSUME Bad # {} PROVE FALSE
    OBVIOUS
  <2>1. Min(Bad) \in Bad /\ \A y \in Bad : Min(Bad) <= y
    <3>1. Bad \in SUBSET Nat
      BY <1>1
    <3> HIDE DEF Bad
    <3> QED BY <3>1, LeastNumber
  <2> DEFINE n == Min(Bad)
  <2>2. n \in 0 .. L /\ scan[n] \notin States
    BY <2>1
  <2>3. n # 0
    BY <1>2, <1>9, <2>2
  <2>4. n \in 1 .. L /\ n - 1 \in 0 .. L /\ ~ (n <= n - 1)
    BY <1>1, <2>2, <2>3
  <2>5. n - 1 \notin Bad
    BY <2>1, <2>4
  <2> HIDE DEF n
  <2>6. scan[n - 1] \in States
    BY <2>4, <2>5
  <2>7. Shift(start, scan[n - 1], n) \in States
    BY <1>1, <2>4, <2>6, ShiftCases
  <2> QED BY <1>9, <2>2, <2>4, <2>7
<1> QED BY <1>9, <1>10

(* A deletion leaves the other rows, each within reach of its home.        *)
LEMMA DeletedFacts ==
  ASSUME table \in [TableSlots -> Rows], Chained(table, {}),
         \A s, x \in TableSlots : table[s] # Vacant /\ table[s] = table[x] => s = x,
         NEW key, NEW from, Probed(key, from) \in TableSlots, table[Probed(key, from)] # Vacant,
         \E v \in TableSlots : table[v] = Vacant
  PROVE  /\ Deleted(key, from) \in [TableSlots -> Rows]
         /\ Chained(Deleted(key, from), {})
         /\ Lacks(table, table[Probed(key, from)], Deleted(key, from))
<1> DEFINE start == Probed(key, from)
           L == TableSize - 1
           scan == CHOOSE h : Scans(start, h)
           T == {p \in 1 .. L : table[Slot(start, p)] = Vacant}
           e == Min(T)
<1> HIDE DEF start
<1>0. /\ start \in TableSlots /\ table[start] # Vacant
      /\ Deleted(key, from) = scan[L].table
  BY DeletedDef DEF start
<1>1. L \in Nat /\ \A p \in 0 .. L : p \in TableSlots
  BY SizeFacts DEF TableSlots
<1>2. e \in T /\ \A p \in T : e <= p
  <2>1. PICK v \in TableSlots : table[v] = Vacant
    OBVIOUS
  <2>2. Ring(start, v) \in TableSlots /\ Slot(start, Ring(start, v)) = v
    BY <1>0, Cycle
  <2>3. Ring(start, v) # 0
    BY <1>0, <2>1, SizeFacts DEF Ring, TableSlots
  <2>4. Ring(start, v) \in 1 .. L
    BY <2>2, <2>3, SizeFacts DEF TableSlots
  <2>5. T \in SUBSET Nat /\ T # {}
    BY <2>1, <2>2, <2>4
  <2> HIDE DEF T
  <2> QED BY <2>5, LeastNumber
<1>3. e \in 1 .. L /\ table[Slot(start, e)] = Vacant
  BY <1>2
<1>4. \A p \in 1 .. L : p < e => table[Slot(start, p)] # Vacant
  <2> SUFFICES ASSUME NEW p \in 1 .. L, p < e PROVE p \notin T
    OBVIOUS
  <2>1. ~ (e <= p)
    BY <1>1, <1>3
  <2> HIDE DEF T, e
  <2> QED BY <1>2, <2>1
<1> HIDE DEF e, T
<1>5. /\ scan[0] = Emptied(start)
      /\ \A p \in 1 .. L : scan[p] = Shift(start, scan[p - 1], p)
      /\ \A p \in 0 .. L : scan[p] \in States
  BY <1>0, ScanSteps
<1> HIDE DEF scan
<1>6. Scanning(start, 0, scan[0])
  <2> DEFINE t == [table EXCEPT ![start] = Vacant]
  <2>1. /\ scan[0].table = t /\ scan[0].hole = start /\ ~scan[0].over
        /\ 0 \in 0 .. L /\ scan[0] \in States
    BY <1>1, <1>5 DEF Emptied
  <2>2. \A s \in TableSlots : t[s] = IF s = start THEN Vacant ELSE table[s]
    BY <1>0
  <2> HIDE DEF t
  <2>3. Ring(start, start) = 0 /\ \A s \in TableSlots : Ring(start, s) \in Nat
    BY <1>0, SizeFacts DEF Ring, TableSlots
  <2>4. Chained(t, {start})
    BY <2>2 DEF Chained
  <2>5. Lacks(table, table[start], t)
    BY <1>0, <2>2 DEF Lacks
  <2>6. \A s \in TableSlots : Ring(start, s) > 0 => t[s] = table[s]
    BY <2>2, <2>3
  <2>7. \A s \in TableSlots : ~ (Ring(start, start) < Ring(start, s) /\ Ring(start, s) <= 0)
    BY <2>3
  <2> QED BY <1>0, <2>1, <2>2, <2>3, <2>4, <2>5, <2>6, <2>7 DEF Scanning
<1>7. Scanning(start, e - 1, scan[e - 1])
  <2> DEFINE Bad == {p \in 0 .. e - 1 : ~Scanning(start, p, scan[p])}
  <2>0. e - 1 \in 0 .. e - 1
    BY <1>1, <1>3
  <2> SUFFICES ASSUME Bad # {} PROVE FALSE
    BY <2>0
  <2>1. Min(Bad) \in Bad /\ \A y \in Bad : Min(Bad) <= y
    <3>1. Bad \in SUBSET Nat
      BY <1>1, <1>3
    <3> HIDE DEF Bad
    <3> QED BY <3>1, LeastNumber
  <2> DEFINE n == Min(Bad)
  <2>2. n \in 0 .. e - 1 /\ ~Scanning(start, n, scan[n])
    BY <2>1
  <2>3. n # 0
    BY <1>6, <2>2
  <2>4. /\ n \in 1 .. L /\ n < e /\ n \in TableSlots
        /\ n - 1 \in 0 .. e - 1 /\ n - 1 \in Nat /\ ~ (n <= n - 1) /\ (n - 1) + 1 = n
    BY <1>1, <1>3, <2>2, <2>3
  <2>5. n - 1 \notin Bad
    BY <2>1, <2>4
  <2> HIDE DEF n
  <2>6. Scanning(start, n - 1, scan[n - 1])
    BY <2>4, <2>5
  <2>7. table[Slot(start, n)] # Vacant
    BY <1>4, <2>4
  <2>8. Scanning(start, n, Shift(start, scan[n - 1], n))
    BY <1>0, <2>4, <2>6, <2>7, ShiftStep
  <2> QED BY <1>5, <2>2, <2>4, <2>8
<1> DEFINE u == scan[e - 1].table
<1>8. e - 1 \in Nat /\ (e - 1) + 1 = e /\ e \in TableSlots /\ e - 1 \in 0 .. L
  BY <1>1, <1>3
<1>9. \A p \in e .. L : scan[p].over /\ scan[p].table = u
  <2> DEFINE Bad == {p \in e .. L : ~ (scan[p].over /\ scan[p].table = u)}
  <2> SUFFICES ASSUME Bad # {} PROVE FALSE
    OBVIOUS
  <2>1. Min(Bad) \in Bad /\ \A y \in Bad : Min(Bad) <= y
    <3>1. Bad \in SUBSET Nat
      BY <1>1, <1>3
    <3> HIDE DEF Bad
    <3> QED BY <3>1, LeastNumber
  <2> DEFINE n == Min(Bad)
  <2>2. n \in e .. L /\ ~ (scan[n].over /\ scan[n].table = u)
    BY <2>1
  <2>3. n \in 1 .. L /\ n \in TableSlots /\ n - 1 \in 0 .. L /\ scan[n - 1] \in States
    BY <1>1, <1>3, <1>5, <2>2
  <2>4. scan[n - 1].over \/ scan[n - 1].table[Slot(start, n)] = Vacant
    <3>1. CASE n = e
      <4>1. Slot(start, e) \in TableSlots /\ Ring(start, Slot(start, e)) = e /\ e > e - 1
        BY <1>0, <1>8, Cycle
      <4>2. scan[e - 1].table[Slot(start, e)] = table[Slot(start, e)]
        BY <1>7, <4>1 DEF Scanning
      <4> QED BY <1>3, <3>1, <4>2
    <3>2. CASE n # e
      <4>1. n - 1 \in e .. L /\ ~ (n <= n - 1)
        BY <1>1, <1>3, <2>2, <3>2
      <4>2. n - 1 \notin Bad
        BY <2>1, <4>1
      <4> HIDE DEF n
      <4> QED BY <4>1, <4>2
    <3> QED BY <3>1, <3>2
  <2>5. scan[n - 1].table = u
    <3>1. CASE n = e
      BY <3>1
    <3>2. CASE n # e
      <4>1. n - 1 \in e .. L /\ ~ (n <= n - 1)
        BY <1>1, <1>3, <2>2, <3>2
      <4>2. n - 1 \notin Bad
        BY <2>1, <4>1
      <4> HIDE DEF n
      <4> QED BY <4>1, <4>2
    <3> QED BY <3>1, <3>2
  <2> HIDE DEF n
  <2>6. scan[n] = [scan[n - 1] EXCEPT !.over = TRUE]
    <3> DEFINE acc == scan[n - 1]
    <3>1. acc \in States /\ (acc.over \/ acc.table[Slot(start, n)] = Vacant)
      BY <2>3, <2>4
    <3> HIDE DEF acc
    <3>2. Shift(start, acc, n) = [acc EXCEPT !.over = TRUE]
      BY <3>1 DEF Shift
    <3>3. scan[n] = Shift(start, acc, n)
      BY <1>5, <2>3 DEF acc
    <3> QED BY <3>2, <3>3 DEF acc
  <2>7. scan[n].over /\ scan[n].table = scan[n - 1].table
    BY <2>3, <2>6 DEF States
  <2> QED BY <2>2, <2>5, <2>7
<1>10. Deleted(key, from) = u
  <2>1. L \in e .. L
    BY <1>1, <1>3
  <2> QED BY <1>0, <1>9, <2>1
<1>11. Chained(u, {})
  BY <1>0, <1>3, <1>7, <1>8, ScanEnds
<1>12. u \in [TableSlots -> Rows] /\ Lacks(table, table[start], u)
  BY <1>7 DEF Scanning, States
<1> HIDE DEF u
<1> QED BY <1>10, <1>11, <1>12 DEF start

-------------------------------------------------------------------------------
(* The invariant of the containers                                         *)

Refs == [place : Places, generation : 1 .. MaxGeneration]

IndexTypeOK ==
  /\ home \in [Tokens -> TableSlots] /\ table \in [TableSlots -> Rows]
  /\ arena \in [free : Seq(Places), occupied : SUBSET Places,
                generation : [Places -> 1 .. MaxGeneration]]
  /\ held \in [Tokens -> {NoRef} \cup Refs] /\ stale \subseteq Refs

Row(key) == [key |-> key, home |-> home[key], place |-> held[key].place]

(* The rows are those of the live tokens, once each, and within reach.     *)
TableInv ==
  /\ \A s \in TableSlots :
       table[s] # Vacant => held[table[s].key] # NoRef /\ table[s] = Row(table[s].key)
  /\ \A key \in Tokens : held[key] # NoRef => \E s \in TableSlots : table[s] = Row(key)
  /\ \A s, x \in TableSlots : table[s] # Vacant /\ table[s].key = table[x].key => s = x
  /\ Chained(table, {})

(* A place is free, or one token's, or used up; what was given up is older *)
(* than what its place would be given out with.                            *)
PlacesInv ==
  /\ IsInjective(arena.free) /\ ToSet(arena.free) = Places \ arena.occupied
  /\ \A key \in Tokens : held[key] # NoRef => ValidRef(held[key])
  /\ \A key, other \in Tokens :
       held[key] # NoRef /\ held[other] # NoRef /\ held[key].place = held[other].place => key = other
  /\ \A ref \in stale :
       ref.generation < arena.generation[ref.place] \/ ref.generation = MaxGeneration

IndexInv == IndexTypeOK /\ TableInv /\ PlacesInv

LEMMA HalfFull ==
  ASSUME IndexInv
  PROVE  /\ 2 * Cardinality({ slot \in TableSlots : table[slot] # Vacant }) <= TableSize
         /\ \E v \in TableSlots : table[v] = Vacant
<1> DEFINE full == { slot \in TableSlots : table[slot] # Vacant }
           f == [slot \in full |-> table[slot].place]
<1>1. table \in [TableSlots -> Rows] /\ \A s \in full : table[s] \in Rows /\ table[s].key \in Tokens
  BY RowFacts DEF IndexInv, IndexTypeOK
<1>2. f \in [full -> Places]
  BY <1>1, RowFacts
<1>3. \A s, x \in full : f[s] = f[x] => s = x
  <2> SUFFICES ASSUME NEW s \in full, NEW x \in full, table[s].place = table[x].place PROVE s = x
    OBVIOUS
  <2>1. /\ held[table[s].key] # NoRef /\ table[s].place = held[table[s].key].place
        /\ held[table[x].key] # NoRef /\ table[x].place = held[table[x].key].place
    <3> SUFFICES ASSUME NEW y \in full
                 PROVE  held[table[y].key] # NoRef /\ table[y].place = held[table[y].key].place
      OBVIOUS
    <3>1. held[table[y].key] # NoRef /\ table[y] = Row(table[y].key)
      BY DEF IndexInv, TableInv
    <3> QED BY <3>1 DEF Row
  <2>2. table[s].key = table[x].key
    BY <1>1, <2>1 DEF IndexInv, PlacesInv
  <2> QED BY <2>2 DEF IndexInv, TableInv
<1>4. f \in Injection(full, Places)
  <2> HIDE DEF f, full
  <2> QED BY <1>2, <1>3 DEF Injection, IsInjective
<1>5. IsFiniteSet(Places) /\ Cardinality(Places) \in Nat \ {0}
  BY IndexAssumption, SizeFacts
<1>6. IsFiniteSet(full) /\ Cardinality(full) <= Cardinality(Places) /\ Cardinality(full) \in Nat
  <2> HIDE DEF f, full
  <2>1. IsFiniteSet(full) /\ Cardinality(full) <= Cardinality(Places)
    BY <1>4, <1>5, FS_Injection
  <2> QED BY <2>1, FS_CardinalityType
<1>7. 2 * Cardinality(full) <= TableSize
  BY <1>5, <1>6, SizeFacts
<1>8. Cardinality(TableSlots) = TableSize
  BY FS_Interval, SizeFacts DEF TableSlots
<1>9. full # TableSlots
  <2> HIDE DEF full
  <2> QED BY <1>5, <1>6, <1>8, SizeFacts
<1> QED BY <1>7, <1>9

(* A probe ends at the row of a live token, and at a vacant slot for        *)
(* another.                                                                *)
LEMMA ProbedRight ==
  ASSUME IndexInv, NEW key \in Tokens
  PROVE  /\ Probed(key, home[key]) \in TableSlots
         /\ table[Probed(key, home[key])] = IF held[key] = NoRef THEN Vacant ELSE Row(key)
         /\ \A x \in TableSlots :
              Ring(home[key], x) < Ring(home[key], Probed(key, home[key])) => table[x] # Vacant
<1> DEFINE at == Probed(key, home[key])
<1>1. /\ home[key] \in TableSlots /\ key # NoToken
      /\ table \in [TableSlots -> Rows]
  BY IndexAssumption DEF IndexInv, IndexTypeOK
<1>2. PICK v \in TableSlots : table[v] = Vacant
  BY HalfFull
<1>3. table[v].key \in {key, NoToken}
  BY <1>2, RowFacts
<1>4. /\ at \in TableSlots /\ table[at].key \in {key, NoToken}
      /\ \A x \in TableSlots : Ring(home[key], x) < Ring(home[key], at) => table[x].key \notin {key, NoToken}
  <2> HIDE DEF at
  <2>1. \E s \in TableSlots : table[s].key \in {key, NoToken}
    BY <1>3
  <2> QED BY <1>1, <2>1, ProbedFacts DEF at
<1> HIDE DEF at
<1>5. \A x \in TableSlots : Ring(home[key], x) < Ring(home[key], at) => table[x] # Vacant
  BY <1>4, RowFacts
<1>6. CASE held[key] = NoRef
  <2>1. table[at] = Vacant
    <3> SUFFICES ASSUME table[at] # Vacant PROVE FALSE
      OBVIOUS
    <3>1. table[at].key = key
      BY <1>1, <1>4, RowFacts
    <3> QED BY <1>4, <1>6, <3>1 DEF IndexInv, TableInv
  <2> QED BY <1>4, <1>5, <1>6, <2>1 DEF at
<1>7. CASE held[key] # NoRef
  <2>1. PICK s \in TableSlots : table[s] = Row(key)
    BY <1>7 DEF IndexInv, TableInv
  <2>2. table[s].key = key /\ table[s].home = home[key] /\ table[s] # Vacant
    BY <1>1, <2>1, RowFacts DEF Row
  <2>3. \A x, y \in TableSlots : Ring(x, y) \in Nat
    BY SizeFacts DEF Ring, TableSlots
  <2>4. ~ (Ring(home[key], s) < Ring(home[key], at))
    BY <1>4, <2>2
  <2>5. s = at
    <3> SUFFICES ASSUME s # at PROVE FALSE
      OBVIOUS
    <3>1. Ring(home[key], at) < Ring(home[key], s)
      BY <1>1, <1>4, <2>3, <2>4, RingFacts
    <3>2. table[at] # Vacant
      BY <1>4, <2>2, <3>1 DEF IndexInv, TableInv, Chained
    <3>3. table[at].key = key
      BY <1>1, <1>4, <3>2, RowFacts
    <3> QED BY <1>4, <2>2, <3>3 DEF IndexInv, TableInv
  <2> QED BY <1>4, <1>5, <1>7, <2>1, <2>5 DEF at
<1> QED BY <1>6, <1>7

(* A lookup gives the place of a live token, and none for another.         *)
LEMMA LookupRight ==
  ASSUME IndexInv, NEW key \in Tokens
  PROVE  LookupToken(key) = held[key].place
<1>1. PICK v \in TableSlots : table[v] = Vacant
  BY HalfFull
<1>2. table[v].key \in {key, NoToken}
  BY <1>1, RowFacts
<1>3. LookupToken(key) = table[Probed(key, home[key])].place
  BY <1>2 DEF LookupToken
<1>4. table[Probed(key, home[key])] = IF held[key] = NoRef THEN Vacant ELSE Row(key)
  BY ProbedRight
<1> QED BY <1>3, <1>4, RowFacts DEF NoRef, Row

LEMMA InvTokens == IndexInv => TokensFound
BY HalfFull, LookupRight DEF TokensFound

LEMMA InvRefs == IndexInv => RefsExact
<1> SUFFICES ASSUME IndexInv PROVE RefsExact
  OBVIOUS
<1>1. ASSUME NEW ref \in stale, ValidRef(ref) PROVE ref.generation = MaxGeneration
  <2>1. ref.generation \in 1 .. MaxGeneration /\ arena.generation[ref.place] = ref.generation
    BY <1>1 DEF IndexInv, IndexTypeOK, Refs, ValidRef
  <2> QED BY <2>1, IndexAssumption DEF IndexInv, PlacesInv
<1> QED BY <1>1 DEF RefsExact, IndexInv, PlacesInv

LEMMA IndexInitInv == IndexInit => IndexInv
<1> SUFFICES ASSUME IndexInit PROVE IndexInv
  OBVIOUS
<1> DEFINE C == Cardinality(Places)
<1>1. C \in Nat /\ Places = 1 .. C /\ MaxGeneration \in Nat \ {0} /\ Homes \subseteq TableSlots
  BY IndexAssumption, SizeFacts
<1>2. /\ arena.free = [i \in 1 .. C |-> i] /\ arena.occupied = {}
      /\ arena.generation = [p \in Places |-> 1]
      /\ arena = [free |-> arena.free, occupied |-> arena.occupied, generation |-> arena.generation]
  BY DEF IndexInit, NewArena
<1> HIDE DEF C
<1>3. arena.free \in Seq(Places) /\ IsInjective(arena.free) /\ ToSet(arena.free) = Places
  <2>1. arena.free \in [1 .. C -> Places]
    BY <1>1, <1>2
  <2>2. arena.free \in Seq(Places) /\ DOMAIN arena.free = 1 .. C
    BY <1>1, <2>1, SeqDef
  <2> QED BY <1>1, <1>2, <2>2 DEF IsInjective, ToSet
<1>4. arena \in [free : Seq(Places), occupied : SUBSET Places,
                  generation : [Places -> 1 .. MaxGeneration]]
  <2>1. arena.generation \in [Places -> 1 .. MaxGeneration]
    BY <1>1, <1>2
  <2> QED BY <1>2, <1>3, <2>1
<1>5. IndexTypeOK
  BY <1>1, <1>4 DEF IndexTypeOK, IndexInit, NewTable, Rows
<1>6. TableInv
  BY DEF TableInv, IndexInit, NewTable, Chained
<1>7. PlacesInv
  BY <1>2, <1>3 DEF PlacesInv, IndexInit
<1> QED BY <1>5, <1>6, <1>7 DEF IndexInv

LEMMA InstallInv ==
  ASSUME IndexInv, NEW key \in Tokens, Install(key)
  PROVE  IndexInv'
<1> DEFINE at == Probed(key, home[key])
           p == Head(arena.free)
           row == [key |-> key, home |-> home[key], place |-> p]
<1>1. /\ home \in [Tokens -> TableSlots] /\ table \in [TableSlots -> Rows]
      /\ arena.free \in Seq(Places) /\ arena.occupied \in SUBSET Places
      /\ arena.generation \in [Places -> 1 .. MaxGeneration]
      /\ held \in [Tokens -> {NoRef} \cup Refs] /\ stale \subseteq Refs /\ key # NoToken
  BY IndexAssumption DEF IndexInv, IndexTypeOK
<1>2. held[key] = NoRef
  <2>1. held[key].place = NoPlace
    BY LookupRight DEF Install
  <2> QED BY <1>1, <2>1, RowFacts DEF Refs
<1>3. /\ at \in TableSlots /\ table[at] = Vacant
      /\ \A x \in TableSlots : Ring(home[key], x) < Ring(home[key], at) => table[x] # Vacant
  BY <1>2, ProbedRight
<1>4. /\ p \in Places /\ p \notin arena.occupied
      /\ Tail(arena.free) \in Seq(Places) /\ IsInjective(Tail(arena.free))
      /\ ToSet(Tail(arena.free)) = Places \ (arena.occupied \cup {p})
  <2>1. arena.free # <<>> /\ IsInjective(arena.free) /\ ToSet(arena.free) = Places \ arena.occupied
    BY DEF Install, IndexInv, PlacesInv
  <2> QED BY <1>1, <2>1, TailFacts
<1> HIDE DEF at, p
<1>5. /\ arena' = [free |-> Tail(arena.free), occupied |-> arena.occupied \cup {p},
                   generation |-> arena.generation]
      /\ home' = home /\ stale' = stale
  BY DEF Install, Claimed, p, IndexInv, IndexTypeOK
<1>6. /\ \A s \in TableSlots : table'[s] = IF s = at THEN row ELSE table[s]
      /\ \A k \in Tokens : held'[k] = IF k = key THEN [place |-> p, generation |-> arena.generation[p]]
                                      ELSE held[k]
      /\ row \in Rows /\ row # Vacant /\ row.key = key /\ row.home = home[key]
      /\ table' \in [TableSlots -> Rows] /\ held' \in [Tokens -> {NoRef} \cup Refs]
  <2>1. table' = [table EXCEPT ![at] = row]
    BY DEF Install, Inserted, at, p
  <2>2. held' = [held EXCEPT ![key] = [place |-> p, generation |-> arena.generation[p]]]
    BY DEF Install, p
  <2>3. [place |-> p, generation |-> arena.generation[p]] \in Refs
    BY <1>1, <1>4 DEF Refs
  <2>4. row \in Rows /\ row # Vacant
    BY <1>1, <1>4, RowFacts DEF Rows
  <2> HIDE DEF row
  <2>5. row.key = key /\ row.home = home[key]
    BY DEF row
  <2> QED BY <1>1, <2>1, <2>2, <2>3, <2>4, <2>5
<1> HIDE DEF row
<1>7. IndexTypeOK'
  <2>1. arena' \in [free : Seq(Places), occupied : SUBSET Places,
                    generation : [Places -> 1 .. MaxGeneration]]
    BY <1>1, <1>4, <1>5
  <2> QED BY <1>1, <1>5, <1>6, <2>1 DEF IndexTypeOK
<1>8. TableInv'
  <2> DEFINE NewRow(k) == [key |-> k, home |-> home'[k], place |-> held'[k].place]
  <2>1. held'[key] # NoRef /\ held'[key].place = p /\ NewRow(key) = row
    <3>1. held'[key] = [place |-> p, generation |-> arena.generation[p]]
      BY <1>6
    <3>2. held'[key].place = p
      BY <3>1
    <3>3. held'[key] # NoRef
      BY <1>4, <3>2, RowFacts DEF NoRef
    <3> QED BY <1>5, <3>2, <3>3 DEF Row, row
  <2>2. \A k \in Tokens : k # key => held'[k] = held[k] /\ NewRow(k) = Row(k)
    BY <1>5, <1>6 DEF Row
  <2> HIDE DEF NewRow
  <2>3. \A s \in TableSlots : table[s] # Vacant => table[s].key \in Tokens /\ table[s].key # key
    BY <1>1, <1>2, RowFacts DEF IndexInv, TableInv
  <2>4. ASSUME NEW s \in TableSlots, table'[s] # Vacant
        PROVE  held'[table'[s].key] # NoRef /\ table'[s] = NewRow(table'[s].key)
    <3>1. CASE s = at
      <4>1. table'[s] = row /\ row.key = key
        BY <1>6, <3>1
      <4> QED BY <2>1, <4>1
    <3>2. CASE s # at
      <4>1. table'[s] = table[s] /\ table[s].key \in Tokens /\ table[s].key # key
        BY <1>6, <2>3, <2>4, <3>2
      <4>2. held[table[s].key] # NoRef /\ table[s] = Row(table[s].key)
        BY <2>4, <4>1 DEF IndexInv, TableInv
      <4> QED BY <2>2, <4>1, <4>2
    <3> QED BY <3>1, <3>2
  <2>5. ASSUME NEW k \in Tokens, held'[k] # NoRef
        PROVE  \E s \in TableSlots : table'[s] = NewRow(k)
    <3>1. CASE k = key
      BY <1>3, <1>6, <2>1, <3>1
    <3>2. CASE k # key
      <4>1. PICK s \in TableSlots : table[s] = Row(k)
        BY <2>2, <2>5, <3>2 DEF IndexInv, TableInv
      <4>2. s # at
        <5>1. Row(k).key = k /\ k # NoToken
          BY IndexAssumption DEF Row
        <5> QED BY <1>3, <4>1, <5>1, RowFacts
      <4> QED BY <1>6, <2>2, <3>2, <4>1, <4>2
    <3> QED BY <3>1, <3>2
  <2>6. ASSUME NEW s \in TableSlots, NEW x \in TableSlots, table'[s] # Vacant,
               table'[s].key = table'[x].key
        PROVE  s = x
    <3>1. table'[x] # Vacant
      BY <1>6, <2>6, RowFacts
    <3> QED BY <1>6, <2>3, <2>6, <3>1 DEF IndexInv, TableInv
  <2>7. Chained(table', {})
    <3> SUFFICES ASSUME NEW s \in TableSlots, NEW x \in TableSlots, table'[s] # Vacant,
                        Ring(table'[s].home, x) < Ring(table'[s].home, s)
                 PROVE  table'[x] # Vacant
      BY DEF Chained
    <3>1. CASE s = at
      BY <1>3, <1>6, <3>1
    <3>2. CASE s # at
      BY <1>6, <3>2 DEF IndexInv, TableInv, Chained
    <3> QED BY <3>1, <3>2
  <2> QED BY <2>4, <2>5, <2>6, <2>7 DEF TableInv, Chained, Row, NewRow
<1>9. PlacesInv'
  <2>1. /\ arena'.free = Tail(arena.free) /\ arena'.occupied = arena.occupied \cup {p}
        /\ arena'.generation = arena.generation
    BY <1>5
  <2>2. \A k \in Tokens : k # key /\ held[k] # NoRef =>
          held[k].place \in arena.occupied /\ arena.generation[held[k].place] = held[k].generation
    BY DEF IndexInv, PlacesInv, ValidRef
  <2>3. \A k \in Tokens : held'[k] # NoRef => ValidRef(held[k])'
    BY <1>6, <2>1, <2>2 DEF ValidRef
  <2>4. \A k, l \in Tokens :
          held'[k] # NoRef /\ held'[l] # NoRef /\ held'[k].place = held'[l].place => k = l
    <3>1. \A k \in Tokens : k # key /\ held[k] # NoRef => held[k].place # p
      BY <1>4, <2>2
    <3>2. held'[key].place = p
      BY <1>6
    <3> QED BY <1>6, <3>1, <3>2 DEF IndexInv, PlacesInv
  <2>5. \A ref \in stale' :
          ref.generation < arena'.generation[ref.place] \/ ref.generation = MaxGeneration
    BY <1>5, <2>1 DEF IndexInv, PlacesInv
  <2> QED BY <1>4, <2>1, <2>3, <2>4, <2>5 DEF PlacesInv
<1> QED BY <1>7, <1>8, <1>9 DEF IndexInv

LEMMA RemoveEntryInv ==
  ASSUME IndexInv, NEW key \in Tokens, RemoveEntry(key)
  PROVE  IndexInv'
<1> DEFINE at == Probed(key, home[key])
           ref == held[key]
           p == held[key].place
<1>1. /\ home \in [Tokens -> TableSlots] /\ table \in [TableSlots -> Rows]
      /\ arena.free \in Seq(Places) /\ arena.occupied \in SUBSET Places
      /\ arena.generation \in [Places -> 1 .. MaxGeneration]
      /\ held \in [Tokens -> {NoRef} \cup Refs] /\ stale \subseteq Refs /\ key # NoToken
      /\ IsInjective(arena.free) /\ ToSet(arena.free) = Places \ arena.occupied
  BY IndexAssumption DEF IndexInv, IndexTypeOK, PlacesInv
<1>2. /\ ref # NoRef /\ ref \in Refs /\ p \in Places /\ p \in arena.occupied
      /\ ref.generation \in 1 .. MaxGeneration /\ arena.generation[p] = ref.generation
  <2>1. ref # NoRef /\ ref \in Refs
    BY <1>1 DEF RemoveEntry
  <2>2. ValidRef(ref)
    BY <2>1 DEF IndexInv, PlacesInv
  <2> QED BY <2>1, <2>2 DEF ValidRef, Refs
<1>3. at \in TableSlots /\ table[at] = Row(key) /\ table[at] # Vacant
  <2>1. at \in TableSlots /\ table[at] = Row(key)
    BY <1>2, ProbedRight
  <2> QED BY <1>1, <2>1, RowFacts DEF Row
<1>4. table' = Deleted(key, home[key])
  <2> DEFINE slots == { slot \in TableSlots : table[slot] # Vacant /\ table[slot].place = held[key].place }
  <2>1. at \in slots
    BY <1>3 DEF Row
  <2>2. ASSUME NEW s \in slots PROVE s = at
    <3>1. held[table[s].key] # NoRef /\ table[s] = Row(table[s].key) /\ table[s].key \in Tokens
      BY <1>1, RowFacts DEF IndexInv, TableInv
    <3>2. table[s].place = held[table[s].key].place
      BY <3>1 DEF Row
    <3>3. table[s].key = key
      BY <1>2, <3>1, <3>2 DEF IndexInv, PlacesInv
    <3> QED BY <1>3, <3>1, <3>3 DEF IndexInv, TableInv
  <2>3. slots = {at} /\ slots # {}
    BY <2>1, <2>2
  <2> HIDE DEF slots, at
  <2>4. Min(slots) = at
    <3>1. slots \in SUBSET Nat
      BY <1>3, <2>3, SizeFacts DEF TableSlots
    <3> QED BY <2>3, <3>1, LeastNumber
  <2>5. table' = Deleted(table[Min(slots)].key, table[Min(slots)].home)
    BY <2>3 DEF RemoveEntry, slots
  <2>6. table[at].key = key /\ table[at].home = home[key]
    BY <1>3 DEF Row
  <2> QED BY <2>4, <2>5, <2>6
<1> HIDE DEF at
<1>5. /\ table' \in [TableSlots -> Rows] /\ Chained(table', {})
      /\ Lacks(table, Row(key), table')
  <2>1. \A s, x \in TableSlots : table[s] # Vacant /\ table[s] = table[x] => s = x
    BY DEF IndexInv, TableInv
  <2>2. Chained(table, {})
    BY DEF IndexInv, TableInv
  <2>3. \E v \in TableSlots : table[v] = Vacant
    BY HalfFull
  <2> QED BY <1>1, <1>3, <1>4, <2>1, <2>2, <2>3, DeletedFacts DEF at
<1>6. /\ home' = home /\ stale' = stale \cup {ref} /\ arena' = ReleasedPlace(p)
      /\ \A k \in Tokens : held'[k] = IF k = key THEN NoRef ELSE held[k]
      /\ held' \in [Tokens -> {NoRef} \cup Refs]
  BY <1>1 DEF RemoveEntry
<1>7. \/ arena' = arena /\ ref.generation = MaxGeneration
      \/ /\ ref.generation # MaxGeneration
         /\ arena' = [free |-> <<p>> \o arena.free, occupied |-> arena.occupied \ {p},
                      generation |-> [arena.generation EXCEPT ![p] = @ + 1]]
  BY <1>2, <1>6 DEF ReleasedPlace
<1>8. /\ <<p>> \o arena.free \in Seq(Places) /\ IsInjective(<<p>> \o arena.free)
      /\ ToSet(<<p>> \o arena.free) = Places \ (arena.occupied \ {p})
  <2>1. p \notin ToSet(arena.free)
    BY <1>1, <1>2
  <2> QED BY <1>1, <1>2, <2>1, ConsFacts
<1>9. /\ arena' \in [free : Seq(Places), occupied : SUBSET Places,
                     generation : [Places -> 1 .. MaxGeneration]]
      /\ IsInjective(arena'.free) /\ ToSet(arena'.free) = Places \ arena'.occupied
      /\ arena.occupied \ {p} \subseteq arena'.occupied
      /\ \A q \in Places : q # p => arena'.generation[q] = arena.generation[q]
      /\ arena.generation[p] <= arena'.generation[p]
      /\ ref.generation # MaxGeneration => ref.generation < arena'.generation[p]
  <2>1. CASE arena' = arena /\ ref.generation = MaxGeneration
    BY <1>1, <1>2, <2>1 DEF IndexInv, IndexTypeOK
  <2>2. CASE /\ ref.generation # MaxGeneration
             /\ arena' = [free |-> <<p>> \o arena.free, occupied |-> arena.occupied \ {p},
                          generation |-> [arena.generation EXCEPT ![p] = @ + 1]]
    <3> DEFINE g == [arena.generation EXCEPT ![p] = @ + 1]
    <3>1. /\ arena'.free = <<p>> \o arena.free /\ arena'.occupied = arena.occupied \ {p}
          /\ arena'.generation = g
      BY <2>2
    <3>2. MaxGeneration \in Nat /\ ref.generation + 1 \in 1 .. MaxGeneration
      BY <1>2, <2>2, IndexAssumption
    <3>3. g \in [Places -> 1 .. MaxGeneration] /\ g[p] = ref.generation + 1
          /\ \A q \in Places : q # p => g[q] = arena.generation[q]
      BY <1>1, <1>2, <3>2
    <3> HIDE DEF g
    <3>4. arena' \in [free : Seq(Places), occupied : SUBSET Places,
                      generation : [Places -> 1 .. MaxGeneration]]
      BY <1>1, <1>8, <2>2, <3>3 DEF g
    <3>5. arena.generation[p] <= g[p] /\ ref.generation < g[p]
      BY <1>2, <3>2, <3>3
    <3> QED BY <1>8, <3>1, <3>3, <3>4, <3>5
  <2> QED BY <1>7, <2>1, <2>2
<1>10. IndexTypeOK'
  BY <1>1, <1>2, <1>5, <1>6, <1>9 DEF IndexTypeOK
<1>11. TableInv'
  <2> DEFINE NewRow(k) == [key |-> k, home |-> home'[k], place |-> held'[k].place]
  <2>1. \A k \in Tokens : k # key => held'[k] = held[k] /\ NewRow(k) = Row(k)
    BY <1>6 DEF Row
  <2> HIDE DEF NewRow
  <2>2. ASSUME NEW s \in TableSlots, table'[s] # Vacant
        PROVE  /\ table'[s].key \in Tokens /\ held'[table'[s].key] # NoRef
               /\ table'[s] = NewRow(table'[s].key)
    <3>1. PICK x \in TableSlots : table[x] = table'[s] /\ table[x] # Row(key)
      BY <1>5, <2>2 DEF Lacks
    <3>2. /\ held[table[x].key] # NoRef /\ table[x] = Row(table[x].key)
          /\ table[x].key \in Tokens
      BY <1>1, <2>2, <3>1, RowFacts DEF IndexInv, TableInv
    <3>3. table[x].key # key
      BY <3>1, <3>2
    <3> QED BY <2>1, <3>1, <3>2, <3>3
  <2>3. ASSUME NEW k \in Tokens, held'[k] # NoRef
        PROVE  \E s \in TableSlots : table'[s] = NewRow(k)
    <3>1. k # key
      BY <1>6, <2>3
    <3>2. PICK x \in TableSlots : table[x] = Row(k)
      BY <2>1, <2>3, <3>1 DEF IndexInv, TableInv
    <3>3. Row(k).key = k /\ Row(key).key = key /\ k # NoToken
      BY IndexAssumption DEF Row
    <3>4. table[x] # Vacant /\ table[x] # Row(key)
      BY <3>1, <3>2, <3>3, RowFacts
    <3> QED BY <1>5, <2>1, <3>1, <3>2, <3>4 DEF Lacks
  <2>4. ASSUME NEW s \in TableSlots, NEW x \in TableSlots, table'[s] # Vacant,
               table'[s].key = table'[x].key
        PROVE  s = x
    <3>1. table'[x] # Vacant
      BY <1>5, <2>4, RowFacts
    <3>2. table'[s] = table'[x]
      BY <2>2, <2>4, <3>1
    <3> QED BY <1>5, <2>4, <3>2 DEF Lacks
  <2> QED BY <1>5, <2>2, <2>3, <2>4 DEF TableInv, Chained, Row, NewRow
<1>12. PlacesInv'
  <2>1. ASSUME NEW k \in Tokens, held'[k] # NoRef PROVE ValidRef(held[k])'
    <3>1. k # key /\ held'[k] = held[k] /\ held[k] \in Refs
      BY <1>1, <1>6, <2>1
    <3>2. /\ held[k].place \in arena.occupied
          /\ arena.generation[held[k].place] = held[k].generation
      BY <2>1, <3>1 DEF IndexInv, PlacesInv, ValidRef
    <3>3. held[k].place # p /\ held[k].place \in Places
      BY <1>2, <2>1, <3>1 DEF IndexInv, PlacesInv, Refs
    <3>4. /\ held[k].place \in arena'.occupied
          /\ arena'.generation[held[k].place] = held[k].generation
      BY <1>9, <3>2, <3>3
    <3> QED BY <3>1, <3>4 DEF ValidRef
  <2>2. \A k, l \in Tokens :
          held'[k] # NoRef /\ held'[l] # NoRef /\ held'[k].place = held'[l].place => k = l
    BY <1>6 DEF IndexInv, PlacesInv
  <2>3. ASSUME NEW old \in stale'
        PROVE  old.generation < arena'.generation[old.place] \/ old.generation = MaxGeneration
    <3>1. CASE old = ref
      BY <1>9, <3>1
    <3>2. CASE old \in stale
      <4>1. /\ old.place \in Places /\ old.generation \in 1 .. MaxGeneration
            /\ old.generation < arena.generation[old.place] \/ old.generation = MaxGeneration
        BY <1>1, <3>2 DEF IndexInv, PlacesInv, Refs
      <4>2. arena.generation[p] \in Nat /\ arena'.generation[p] \in Nat /\ old.generation \in Nat
        BY <1>1, <1>2, <1>9, <4>1, IndexAssumption
      <4>3. arena.generation[old.place] \in Nat /\ arena'.generation[old.place] \in Nat
        BY <1>1, <1>9, <4>1, IndexAssumption
      <4>4. arena.generation[old.place] <= arena'.generation[old.place]
        <5> HIDE DEF p
        <5>1. CASE old.place = p
          BY <1>9, <5>1
        <5>2. CASE old.place # p
          BY <1>9, <4>1, <4>3, <5>2
        <5> QED BY <5>1, <5>2
      <4> HIDE DEF ref, p
      <4> QED BY <4>1, <4>2, <4>3, <4>4
    <3> QED BY <1>6, <2>3, <3>1, <3>2
  <2> QED BY <1>9, <2>1, <2>2, <2>3 DEF PlacesInv
<1> QED BY <1>10, <1>11, <1>12 DEF IndexInv

LEMMA IndexNextInv == IndexInv /\ [IndexNext]_indexVars => IndexInv'
<1> SUFFICES ASSUME IndexInv, [IndexNext]_indexVars PROVE IndexInv'
  OBVIOUS
<1>1. CASE IndexNext
  BY <1>1, InstallInv, RemoveEntryInv DEF IndexNext
<1>2. CASE UNCHANGED indexVars
  BY <1>2 DEF indexVars, IndexInv, IndexTypeOK, TableInv, PlacesInv, Chained, Row, ValidRef
<1> QED BY <1>1, <1>2

(* After any installs and removals a live token is found and gives its     *)
(* entry, another is not found, and each probe meets a vacant slot.        *)
THEOREM TokensAreFound == IndexSpec => []TokensFound
BY IndexInitInv, IndexNextInv, InvTokens, PTL DEF IndexSpec

(* A reference to an entry is valid as long as its token is live, and      *)
(* never again, however often the place is given out.                      *)
THEOREM RefsAreExact == IndexSpec => []RefsExact
BY IndexInitInv, IndexNextInv, InvRefs, PTL DEF IndexSpec

-------------------------------------------------------------------------------
(* Sizes                                                                   *)

Sizes64 == Nat \cup {Overflow}

LEMMA AddFacts ==
  ASSUME NEW left \in Sizes64, NEW right \in Sizes64
  PROVE  /\ CheckedAdd(left, right) \in Sizes64
         /\ CheckedAdd(left, right) =
              IF left = Overflow \/ right = Overflow THEN Overflow
              ELSE IF left + right > Top THEN Overflow ELSE left + right
<1>1. Top \in Nat
  BY PowerFacts, IndexAssumption DEF Top
<1> QED BY <1>1 DEF CheckedAdd, Sizes64, Overflow

LEMMA AddedUpSteps ==
  ASSUME NEW parts \in Seq(Sizes64)
  PROVE  \E total \in [0 .. Len(parts) -> Sizes64] :
           /\ AddedUp(parts) = total[Len(parts)]
           /\ total[0] = 0
           /\ \A k \in 1 .. Len(parts) : total[k] = CheckedAdd(total[k - 1], parts[k])
<1> DEFINE L == Len(parts)
           G == [p \in Sizes64 \X (1 .. L) |-> CheckedAdd(p[1], parts[p[2]])]
           Totals(h) == h = [n \in 0 .. L |-> IF n = 0 THEN 0 ELSE CheckedAdd(h[n - 1], parts[n])]
           total == CHOOSE h : Totals(h)
<1>1. L \in Nat /\ \A k \in 1 .. L : parts[k] \in Sizes64 /\ k - 1 \in 0 .. L
  OBVIOUS
<1>2. G \in [Sizes64 \X (1 .. L) -> Sizes64]
  <2>1. \A p \in Sizes64 \X (1 .. L) : CheckedAdd(p[1], parts[p[2]]) \in Sizes64
    BY <1>1, AddFacts
  <2> QED BY <2>1
<1>3. PICK h : Computes(L, Sizes64, 0, G, h)
  <2>1. 0 \in Sizes64
    BY DEF Sizes64
  <2> HIDE DEF L, G
  <2> QED BY <1>1, <1>2, <2>1, Recursion
<1>4. h \in [0 .. L -> Sizes64] /\ h[0] = 0
  BY <1>3 DEF Computes
<1>5. \A k \in 1 .. L : h[k] = CheckedAdd(h[k - 1], parts[k])
  <2> TAKE k \in 1 .. L
  <2>1. <<h[k - 1], k>> \in Sizes64 \X (1 .. L)
    BY <1>1, <1>4
  <2>2. h[k] = G[<<h[k - 1], k>>]
    BY <1>3 DEF Computes
  <2> QED BY <2>1, <2>2
<1>6. Totals(h)
  <2>1. \A n \in 0 .. L : h[n] = IF n = 0 THEN 0 ELSE CheckedAdd(h[n - 1], parts[n])
    BY <1>1, <1>4, <1>5
  <2> HIDE DEF L
  <2> QED BY <1>4, <2>1
<1>7. AddedUp(parts) = total[L]
  BY DEF AddedUp
<1>8. Totals(total)
  <2> HIDE DEF Totals
  <2> QED BY <1>6
<1> HIDE DEF total
<1>9. /\ total[0] = 0
      /\ \A k \in 1 .. L : total[k] = CheckedAdd(total[k - 1], parts[k])
      /\ total = [n \in 0 .. L |-> total[n]]
  BY <1>1, <1>8
<1>10. \A n \in 0 .. L : total[n] \in Sizes64
  <2> DEFINE Bad == {n \in 0 .. L : total[n] \notin Sizes64}
  <2> SUFFICES ASSUME Bad # {} PROVE FALSE
    OBVIOUS
  <2>1. Min(Bad) \in Bad /\ \A y \in Bad : Min(Bad) <= y
    <3>1. Bad \in SUBSET Nat
      BY <1>1
    <3> HIDE DEF Bad
    <3> QED BY <3>1, LeastNumber
  <2> DEFINE n == Min(Bad)
  <2>2. n \in 0 .. L /\ total[n] \notin Sizes64
    BY <2>1
  <2>3. n # 0
    BY <1>9, <2>2 DEF Sizes64
  <2>4. n \in 1 .. L /\ n - 1 \in 0 .. L /\ ~ (n <= n - 1)
    BY <1>1, <2>2, <2>3
  <2>5. n - 1 \notin Bad
    BY <2>1, <2>4
  <2> HIDE DEF n
  <2>6. total[n - 1] \in Sizes64
    BY <2>4, <2>5
  <2> QED BY <1>1, <1>9, <2>2, <2>4, <2>6, AddFacts
<1>11. total \in [0 .. L -> Sizes64]
  <2> HIDE DEF L
  <2> QED BY <1>9, <1>10
<1> QED BY <1>7, <1>9, <1>11

(* Added up one after the other, with an overflow that stays one.          *)
LEMMA AddedUpRight ==
  ASSUME NEW parts \in Seq(Nat)
  PROVE  /\ FoldSeq(+, 0, parts) \in Nat
         /\ AddedUp(parts) = IF FoldSeq(+, 0, parts) > Top THEN Overflow ELSE FoldSeq(+, 0, parts)
<1> DEFINE L == Len(parts)
           Sum(k) == FoldSeq(+, 0, SubSeq(parts, 1, k))
           Right(v, k) == v = IF Sum(k) > Top THEN Overflow ELSE Sum(k)
<1>1. L \in Nat /\ parts \in Seq(Sizes64) /\ Top \in Nat
  BY PowerFacts, IndexAssumption DEF Top, Sizes64
<1>2. PICK total \in [0 .. L -> Sizes64] :
        /\ AddedUp(parts) = total[L]
        /\ total[0] = 0
        /\ \A k \in 1 .. L : total[k] = CheckedAdd(total[k - 1], parts[k])
  BY <1>1, AddedUpSteps
<1>3. Sum(0) = 0
  <2>1. SubSeq(parts, 1, 0) = <<>>
    OBVIOUS
  <2>2. FoldSeq(+, 0, <<>>) = SumOver(<<>>, DOMAIN <<>>)
    BY DEF FoldSeq, FoldFunction, SumOver
  <2>3. DOMAIN <<>> = {}
    OBVIOUS
  <2>4. SumOver(<<>>, DOMAIN <<>>) = 0
    BY <2>3, FS_EmptySet, SumUnfolds
  <2> QED BY <2>1, <2>2, <2>4
<1>4. ASSUME NEW k \in 1 .. L, Sum(k - 1) \in Nat
      PROVE  Sum(k) \in Nat /\ Sum(k) = Sum(k - 1) + parts[k]
  <2>1. SubSeq(parts, 1, k - 1) \in Seq(Nat) /\ parts[k] \in Nat
    OBVIOUS
  <2>2. SubSeq(parts, 1, k) = Append(SubSeq(parts, 1, k - 1), parts[k])
    BY <1>1
  <2>3. Sum(k) = Sum(k - 1) + parts[k]
    BY <2>1, <2>2, SumAppend
  <2> HIDE DEF Sum
  <2> QED BY <1>4, <2>1, <2>3
<1> HIDE DEF Sum
<1>5. \A k \in 0 .. L : Sum(k) \in Nat /\ Right(total[k], k)
  <2> DEFINE Bad == {k \in 0 .. L : ~ (Sum(k) \in Nat /\ Right(total[k], k))}
  <2> SUFFICES ASSUME Bad # {} PROVE FALSE
    OBVIOUS
  <2>1. Min(Bad) \in Bad /\ \A y \in Bad : Min(Bad) <= y
    <3>1. Bad \in SUBSET Nat
      BY <1>1
    <3> HIDE DEF Bad
    <3> QED BY <3>1, LeastNumber
  <2> DEFINE n == Min(Bad)
  <2>2. n \in 0 .. L /\ ~ (Sum(n) \in Nat /\ Right(total[n], n))
    BY <2>1
  <2>3. n # 0
    BY <1>1, <1>2, <1>3, <2>2
  <2>4. n \in 1 .. L /\ n - 1 \in 0 .. L /\ ~ (n <= n - 1)
    BY <1>1, <2>2, <2>3
  <2>5. n - 1 \notin Bad
    BY <2>1, <2>4
  <2> HIDE DEF n
  <2>6. Sum(n - 1) \in Nat /\ Right(total[n - 1], n - 1)
    BY <2>4, <2>5
  <2>7. Sum(n) \in Nat /\ Sum(n) = Sum(n - 1) + parts[n] /\ parts[n] \in Nat
    BY <1>4, <2>4, <2>6
  <2>8. total[n - 1] \in Sizes64 /\ parts[n] \in Sizes64
    BY <1>1, <1>2, <2>4
  <2>9. total[n] = IF total[n - 1] = Overflow \/ parts[n] = Overflow THEN Overflow
                   ELSE IF total[n - 1] + parts[n] > Top THEN Overflow ELSE total[n - 1] + parts[n]
    BY <1>2, <2>4, <2>8, AddFacts
  <2>10. Overflow = -1
    BY DEF Overflow
  <2> QED BY <1>1, <2>2, <2>6, <2>7, <2>9, <2>10
<1>6. L \in 0 .. L /\ SubSeq(parts, 1, L) = parts
  BY <1>1
<1> QED BY <1>2, <1>5, <1>6 DEF Sum

LEMMA PowerGrows ==
  ASSUME NEW i \in 0 .. Width + 2, NEW j \in 0 .. Width + 2, i < j
  PROVE  2 * PowerOfTwo[i] <= PowerOfTwo[j]
<1> DEFINE Bad == {n \in i + 1 .. j : ~ (2 * PowerOfTwo[i] <= PowerOfTwo[n])}
<1>0. Width \in Nat /\ j \in i + 1 .. j
  BY IndexAssumption
<1> SUFFICES ASSUME Bad # {} PROVE FALSE
  BY <1>0
<1>1. Min(Bad) \in Bad /\ \A y \in Bad : Min(Bad) <= y
  <2>1. Bad \in SUBSET Nat
    BY <1>0
  <2> HIDE DEF Bad
  <2> QED BY <2>1, LeastNumber
<1> DEFINE n == Min(Bad)
<1>2. n \in i + 1 .. j /\ ~ (2 * PowerOfTwo[i] <= PowerOfTwo[n])
  BY <1>1
<1>3. /\ n \in 1 .. Width + 2 /\ n - 1 \in 0 .. Width + 2 /\ n \in 0 .. Width + 2
      /\ ~ (n <= n - 1) /\ (n - 1 = i \/ n - 1 \in i + 1 .. j)
  BY <1>0, <1>2
<1>4. n - 1 \notin Bad
  BY <1>1, <1>3
<1> HIDE DEF n
<1>5. PowerOfTwo[n] = 2 * PowerOfTwo[n - 1] /\ PowerOfTwo[n - 1] \in Nat /\ PowerOfTwo[i] \in Nat
  BY <1>3, PowerFacts
<1>6. CASE n - 1 = i
  BY <1>2, <1>5, <1>6
<1>7. CASE n - 1 \in i + 1 .. j
  <2>1. 2 * PowerOfTwo[i] <= PowerOfTwo[n - 1]
    BY <1>4, <1>7
  <2> QED BY <1>2, <1>5, <2>1
<1> QED BY <1>3, <1>6, <1>7

Powers == { PowerOfTwo[k] : k \in 0 .. Width + 2 }

(* The slots of an index: the power of two from twice the entries on.      *)
TrueSlots(entries) == CHOOSE n \in Powers : 2 * entries <= n /\ n < 4 * entries

LEMMA OnePower ==
  ASSUME NEW entries \in Nat, NEW i \in 0 .. Width + 2,
         2 * entries <= PowerOfTwo[i], PowerOfTwo[i] < 4 * entries
  PROVE  TrueSlots(entries) = PowerOfTwo[i]
<1>1. PowerOfTwo[i] \in Powers
  BY DEF Powers
<1>2. ASSUME NEW n \in Powers, 2 * entries <= n, n < 4 * entries
      PROVE  n = PowerOfTwo[i]
  <2>1. PICK j \in 0 .. Width + 2 : n = PowerOfTwo[j]
    BY DEF Powers
  <2>2. PowerOfTwo[j] \in Nat /\ PowerOfTwo[i] \in Nat /\ Width \in Nat
    BY PowerFacts, IndexAssumption
  <2>3. CASE i < j
    <3>1. 2 * PowerOfTwo[i] <= PowerOfTwo[j]
      BY <2>3, PowerGrows
    <3> QED BY <1>2, <2>1, <2>2, <3>1
  <2>4. CASE j < i
    <3>1. 2 * PowerOfTwo[j] <= PowerOfTwo[i]
      BY <2>4, PowerGrows
    <3> QED BY <1>2, <2>1, <2>2, <3>1
  <2>5. CASE i = j
    BY <2>1, <2>5
  <2> QED BY <2>2, <2>3, <2>4, <2>5
<1> QED BY <1>1, <1>2 DEF TrueSlots

(* The power of two that is found by the length of the number.             *)
LEMMA PowerFound ==
  ASSUME NEW value \in Nat \ {0}, value < PowerOfTwo[Width]
  PROVE  /\ BitLength(value) \in 1 .. Width
         /\ PowerOfTwo[BitLength(value)] > value /\ PowerOfTwo[BitLength(value) - 1] <= value
<1> DEFINE T == {n \in 0 .. Width : PowerOfTwo[n] > value}
<1>1. Width \in Nat \ {0} /\ PowerOfTwo[Width] \in Nat
  BY IndexAssumption, PowerFacts
<1>2. Min(T) \in T /\ \A y \in T : Min(T) <= y
  <2>1. T \in SUBSET Nat /\ T # {}
    BY <1>1
  <2> HIDE DEF T
  <2> QED BY <2>1, LeastNumber
<1> DEFINE m == Min(T)
<1>3. m \in 0 .. Width /\ PowerOfTwo[m] > value
  BY <1>2
<1>4. m > 0 => PowerOfTwo[m - 1] <= value
  <2> SUFFICES ASSUME m > 0 PROVE PowerOfTwo[m - 1] <= value
    OBVIOUS
  <2>1. m - 1 \in 0 .. Width /\ ~ (m <= m - 1)
    BY <1>1, <1>3
  <2>2. m - 1 \notin T /\ PowerOfTwo[m - 1] \in Nat
    BY <1>1, <1>2, <2>1, PowerFacts
  <2> QED BY <2>1, <2>2
<1> HIDE DEF m
<1>5. /\ BitLength(value) \in 0 .. Width /\ PowerOfTwo[BitLength(value)] > value
      /\ BitLength(value) > 0 => PowerOfTwo[BitLength(value) - 1] <= value
  BY <1>3, <1>4 DEF BitLength
<1>6. BitLength(value) # 0
  BY <1>5, PowerFacts
<1> QED BY <1>1, <1>5, <1>6

LEMMA SlotsRight ==
  ASSUME NEW entries \in 1 .. Top
  PROVE  /\ TrueSlots(entries) \in Nat /\ 2 * entries <= TrueSlots(entries)
         /\ IndexSlots(entries) = IF TrueSlots(entries) > MaxInt THEN Overflow ELSE TrueSlots(entries)
<1> DEFINE v == entries * 2
           slots == TrueSlots(entries)
<1>1. /\ Width \in Nat \ {0} /\ PowerOfTwo[Width] \in Nat \ {0}
      /\ PowerOfTwo[Width - 1] \in Nat \ {0} /\ PowerOfTwo[Width] = 2 * PowerOfTwo[Width - 1]
      /\ PowerOfTwo[Width + 1] = 2 * PowerOfTwo[Width]
      /\ Top = PowerOfTwo[Width] - 1 /\ MaxInt = PowerOfTwo[Width - 1] - 1
      /\ Top \in Nat /\ MaxInt \in Nat
  <2>1. /\ Width \in Nat \ {0} /\ Width \in 1 .. Width + 2 /\ Width + 1 \in 1 .. Width + 2
        /\ Width - 1 \in 0 .. Width + 2 /\ Width \in 0 .. Width + 2 /\ (Width + 1) - 1 = Width
    BY IndexAssumption
  <2>2. /\ PowerOfTwo[Width] \in Nat \ {0} /\ PowerOfTwo[Width - 1] \in Nat \ {0}
        /\ PowerOfTwo[Width] = 2 * PowerOfTwo[Width - 1]
    BY <2>1, PowerFacts
  <2>3. PowerOfTwo[Width + 1] = 2 * PowerOfTwo[(Width + 1) - 1]
    BY <2>1, PowerFacts
  <2> QED BY <2>1, <2>2, <2>3 DEF Top, MaxInt
<1>2. entries \in Nat \ {0} /\ entries <= Top
  BY <1>1
<1>3. CASE v > Top
  <2>1. /\ 2 * entries >= PowerOfTwo[Width] /\ 2 * entries < PowerOfTwo[Width + 1]
        /\ 2 * entries <= PowerOfTwo[Width + 1] /\ PowerOfTwo[Width + 1] \in Nat
    BY <1>1, <1>2, <1>3
  <2>2. slots \in Nat /\ slots >= 2 * entries
    <3>1. CASE 2 * entries = PowerOfTwo[Width]
      <4>1. PowerOfTwo[Width] < 4 * entries /\ Width \in 0 .. Width + 2
        BY <1>1, <1>2, <3>1
      <4>2. slots = PowerOfTwo[Width]
        BY <1>2, <3>1, <4>1, OnePower
      <4> QED BY <1>1, <3>1, <4>2
    <3>2. CASE 2 * entries # PowerOfTwo[Width]
      <4>0. Width + 1 \in 0 .. Width + 2
        BY IndexAssumption
      <4>1. PowerOfTwo[Width + 1] < 4 * entries
        <5> DEFINE P == PowerOfTwo[Width]
                   Q == PowerOfTwo[Width + 1]
        <5>1. P \in Nat /\ Q = 2 * P /\ 2 * entries >= P /\ 2 * entries # P
          BY <1>1, <2>1, <3>2
        <5> HIDE DEF P, Q
        <5>2. Q < 4 * entries
          BY <1>2, <5>1
        <5> QED BY <5>2 DEF Q
      <4>2. slots = PowerOfTwo[Width + 1]
        BY <1>2, <2>1, <4>0, <4>1, OnePower
      <4> QED BY <1>1, <2>1, <4>2
    <3> QED BY <3>1, <3>2
  <2>3. entries > Top \div 2
    BY <1>1, <1>2, <1>3
  <2>4. IndexSlots(entries) = Overflow
    BY <2>3 DEF IndexSlots
  <2>5. slots > MaxInt
    BY <1>1, <1>2, <1>3, <2>2
  <2> HIDE DEF slots
  <2>6. IndexSlots(entries) = IF slots > MaxInt THEN Overflow ELSE slots
    BY <2>4, <2>5
  <2> QED BY <2>2, <2>6 DEF slots
<1>4. CASE ~ (v > Top)
  <2>1. v \in Nat \ {0} /\ v < PowerOfTwo[Width] /\ ~ (entries > Top \div 2)
    BY <1>1, <1>2, <1>4
  <2>2. IndexSlots(entries) =
          IF entries > MaxInt THEN Overflow
          ELSE IF NextPowerOfTwo(v) > MaxInt THEN Overflow ELSE NextPowerOfTwo(v)
    BY <1>2, <2>1 DEF IndexSlots
  <2>3. CASE \E n \in 0 .. Width : v = PowerOfTwo[n]
    <3>1. PICK n \in 0 .. Width : v = PowerOfTwo[n]
      BY <2>3
    <3>2. n \in 0 .. Width + 2 /\ 2 * entries <= PowerOfTwo[n] /\ PowerOfTwo[n] < 4 * entries
      BY <1>1, <1>2, <3>1
    <3>3. slots = v
      BY <1>2, <3>1, <3>2, OnePower
    <3>4. NextPowerOfTwo(v) = v
      BY <2>1, <2>3 DEF NextPowerOfTwo
    <3> HIDE DEF slots
    <3>5. IndexSlots(entries) = IF slots > MaxInt THEN Overflow ELSE slots
      BY <1>1, <1>2, <2>2, <3>3, <3>4
    <3> QED BY <1>2, <3>3, <3>5 DEF slots
  <2>4. CASE ~ \E n \in 0 .. Width : v = PowerOfTwo[n]
    <3> DEFINE m == BitLength(v)
    <3>1. m \in 1 .. Width /\ PowerOfTwo[m] > v /\ PowerOfTwo[m - 1] <= v
      BY <2>1, PowerFound
    <3> HIDE DEF m
    <3>2. /\ m \in 0 .. Width + 2 /\ m - 1 \in 0 .. Width
          /\ PowerOfTwo[m] = 2 * PowerOfTwo[m - 1] /\ PowerOfTwo[m - 1] \in Nat
      BY <1>1, <3>1, PowerFacts
    <3>3. PowerOfTwo[m - 1] # v
      BY <2>4, <3>2
    <3>4. 2 * entries <= PowerOfTwo[m] /\ PowerOfTwo[m] < 4 * entries
      BY <1>2, <3>1, <3>2, <3>3
    <3>5. slots = PowerOfTwo[m]
      BY <1>2, <3>2, <3>4, OnePower
    <3>6. NextPowerOfTwo(v) = IF m >= Width THEN Overflow ELSE PowerOfTwo[m]
      BY <2>1, <2>4 DEF NextPowerOfTwo, m
    <3> HIDE DEF slots
    <3>7. CASE m = Width
      <4>1. NextPowerOfTwo(v) = Overflow /\ ~ (Overflow > MaxInt)
        BY <1>1, <3>6, <3>7 DEF Overflow
      <4>2. slots > MaxInt
        BY <1>1, <3>5, <3>7
      <4>3. IndexSlots(entries) = Overflow
        BY <2>2, <4>1
      <4> QED BY <1>1, <1>2, <3>4, <3>5, <3>2, <4>2, <4>3 DEF slots
    <3>8. CASE m # Width
      <4>1. NextPowerOfTwo(v) = slots
        BY <1>1, <3>1, <3>5, <3>6, <3>8
      <4>2. slots \in Nat /\ slots > entries
        BY <1>2, <3>2, <3>4, <3>5
      <4>3. IndexSlots(entries) = IF slots > MaxInt THEN Overflow ELSE slots
        BY <1>1, <1>2, <2>2, <4>1, <4>2
      <4> QED BY <3>4, <3>5, <4>2, <4>3 DEF slots
    <3> QED BY <3>7, <3>8
  <2> QED BY <2>3, <2>4
<1> QED BY <1>3, <1>4

(* A product with the bytes of a field is refused just when it is too long. *)
LEMMA ProductRight ==
  ASSUME NEW count \in Nat
  PROVE  /\ CheckedMul(count, 25) = IF 25 * count > Top THEN Overflow ELSE 25 * count
         /\ CheckedMul(count, 17) = IF 17 * count > Top THEN Overflow ELSE 17 * count
         /\ CheckedMul(count, 84) = IF 84 * count > Top THEN Overflow ELSE 84 * count
         /\ CheckedMul(count, 131) = IF 131 * count > Top THEN Overflow ELSE 131 * count
<1>1. Top \in Nat
  BY PowerFacts, IndexAssumption DEF Top
<1>2. ASSUME NEW a \in Nat, count # 0
      PROVE  /\ 25 > a \div count <=> 25 * count > a
             /\ 17 > a \div count <=> 17 * count > a
             /\ 84 > a \div count <=> 84 * count > a
             /\ 131 > a \div count <=> 131 * count > a
  <2>1. 25 > a \div count <=> 25 * count > a
    BY <1>2
  <2>2. 17 > a \div count <=> 17 * count > a
    BY <1>2
  <2>3. 84 > a \div count <=> 84 * count > a
    BY <1>2
  <2>4. 131 > a \div count <=> 131 * count > a
    BY <1>2
  <2> QED BY <2>1, <2>2, <2>3, <2>4
<1>3. CASE count = 0
  BY <1>1, <1>3 DEF CheckedMul
<1>4. CASE count # 0
  <2>1. CheckedMul(count, 25) = IF 25 > Top \div count THEN Overflow ELSE 25 * count
    BY <1>4 DEF CheckedMul
  <2>2. CheckedMul(count, 17) = IF 17 > Top \div count THEN Overflow ELSE 17 * count
    BY <1>4 DEF CheckedMul
  <2>3. CheckedMul(count, 84) = IF 84 > Top \div count THEN Overflow ELSE 84 * count
    BY <1>4 DEF CheckedMul
  <2>4. CheckedMul(count, 131) = IF 131 > Top \div count THEN Overflow ELSE 131 * count
    BY <1>4 DEF CheckedMul
  <2> QED BY <1>1, <1>2, <1>4, <2>1, <2>2, <2>3, <2>4
<1> QED BY <1>3, <1>4

LEMMA FixedPartIs == FixedPart = 1448 /\ 43 * 3 * WordBytes = 1032
  BY DEF FixedPart, RoundUp, WordBytes

(* The layout of so many entries is exact or refused.                      *)
LEMMA LayoutRight ==
  ASSUME NEW entries \in 1 .. Top
  PROVE  LET slots == TrueSlots(entries)
             layout == slots * IndexBytes + entries * ArenaBytes + FixedPart
         IN  ContainerLayout(entries) = IF layout > Top \/ slots > MaxInt THEN Overflow ELSE layout
<1> DEFINE slots == TrueSlots(entries)
           layout == slots * IndexBytes + entries * ArenaBytes + FixedPart
           part(k) == CASE k = 1 -> 25 * slots [] k = 2 -> 17 * slots [] k = 3 -> 84 * entries
                        [] k = 4 -> 131 * entries [] k = 5 -> 1032 [] k = 6 -> 416
           sizes == << CheckedMul(slots, 25), CheckedMul(slots, 17), CheckedMul(entries, 84),
                       CheckedMul(entries, 131), 1032, 416 >>
<1>1. /\ Top \in Nat /\ entries \in Nat /\ slots \in Nat
      /\ IndexSlots(entries) = IF slots > MaxInt THEN Overflow ELSE slots
  BY SlotsRight, PowerFacts, IndexAssumption DEF Top
<1>2. layout = 25 * slots + 17 * slots + 84 * entries + 131 * entries + 1032 + 416
  <2> HIDE DEF slots
  <2> QED BY <1>1, FixedPartIs DEF IndexBytes, ArenaBytes, WordBytes
<1>3. CASE slots > MaxInt
  <2>1. ContainerLayout(entries) = Overflow
    BY <1>1, <1>3 DEF ContainerLayout
  <2> QED BY <1>3, <2>1
<1>4. CASE ~ (slots > MaxInt)
  <2> HIDE DEF slots
  <2>1. IndexSlots(entries) = slots /\ slots # Overflow
    BY <1>1, <1>4 DEF Overflow
  <2>2. ContainerLayout(entries) = AddedUp(sizes)
    <3>1. 44 + 5 * WordBytes = 84 /\ 107 + 3 * WordBytes = 131
      BY DEF WordBytes
    <3> QED BY <2>1, <3>1, FixedPartIs DEF ContainerLayout
  <2>3. /\ CheckedMul(slots, 25) = IF 25 * slots > Top THEN Overflow ELSE 25 * slots
        /\ CheckedMul(slots, 17) = IF 17 * slots > Top THEN Overflow ELSE 17 * slots
        /\ CheckedMul(entries, 84) = IF 84 * entries > Top THEN Overflow ELSE 84 * entries
        /\ CheckedMul(entries, 131) = IF 131 * entries > Top THEN Overflow ELSE 131 * entries
    BY <1>1, ProductRight
  <2> DEFINE a == CheckedMul(slots, 25)
             b == CheckedMul(slots, 17)
             c == CheckedMul(entries, 84)
             d == CheckedMul(entries, 131)
  <2> HIDE DEF a, b, c, d
  <2>4. /\ a = IF 25 * slots > Top THEN Overflow ELSE 25 * slots
        /\ b = IF 17 * slots > Top THEN Overflow ELSE 17 * slots
        /\ c = IF 84 * entries > Top THEN Overflow ELSE 84 * entries
        /\ d = IF 131 * entries > Top THEN Overflow ELSE 131 * entries
    BY <2>3 DEF a, b, c, d
  <2>5. a \in Sizes64 /\ b \in Sizes64 /\ c \in Sizes64 /\ d \in Sizes64
    BY <1>1, <2>4 DEF Sizes64
  <2>6. 1032 \in Sizes64 /\ 416 \in Sizes64 /\ 0 \in Sizes64
    BY DEF Sizes64
  <2> DEFINE six == << a, b, c, d, 1032, 416 >>
  <2>7. six \in Seq(Sizes64) /\ Len(six) = 6
    BY <2>5, <2>6
  <2>8. PICK total \in [0 .. 6 -> Sizes64] :
          /\ AddedUp(six) = total[6] /\ total[0] = 0
          /\ \A k \in 1 .. 6 : total[k] = CheckedAdd(total[k - 1], six[k])
    <3> HIDE DEF six
    <3> QED BY <2>7, AddedUpSteps
  <2>9. /\ total[1] = CheckedAdd(total[0], a) /\ total[2] = CheckedAdd(total[1], b)
        /\ total[3] = CheckedAdd(total[2], c) /\ total[4] = CheckedAdd(total[3], d)
        /\ total[5] = CheckedAdd(total[4], 1032) /\ total[6] = CheckedAdd(total[5], 416)
    <3>1. /\ six[1] = a /\ six[2] = b /\ six[3] = c /\ six[4] = d /\ six[5] = 1032 /\ six[6] = 416
      OBVIOUS
    <3> HIDE DEF six
    <3> QED BY <2>8, <3>1
  <2>10. \A k \in 0 .. 6 : total[k] \in Sizes64
    BY <2>8
  <2>11. total[1] = a
    BY <1>1, <2>4, <2>5, <2>6, <2>8, <2>9, AddFacts DEF Overflow
  <2>12. total[2] = IF 25 * slots + 17 * slots > Top THEN Overflow ELSE 25 * slots + 17 * slots
    BY <1>1, <2>4, <2>5, <2>9, <2>11, AddFacts DEF Overflow
  <2> DEFINE e == 25 * slots + 17 * slots + 84 * entries
  <2>13. total[3] = IF e > Top THEN Overflow ELSE e
    BY <1>1, <2>4, <2>5, <2>9, <2>10, <2>12, AddFacts DEF Overflow
  <2>14. total[4] = IF e + 131 * entries > Top THEN Overflow ELSE e + 131 * entries
    <3>1. e \in Nat
      BY <1>1
    <3> HIDE DEF e
    <3> QED BY <1>1, <2>4, <2>5, <2>9, <2>10, <2>13, <3>1, AddFacts DEF Overflow
  <2> DEFINE f == e + 131 * entries
  <2>15. f \in Nat
    BY <1>1
  <2> HIDE DEF f
  <2>16. total[5] = IF f + 1032 > Top THEN Overflow ELSE f + 1032
    BY <1>1, <2>6, <2>9, <2>10, <2>14, <2>15, AddFacts DEF Overflow, f
  <2>17. total[6] = IF f + 1448 > Top THEN Overflow ELSE f + 1448
    BY <1>1, <2>6, <2>9, <2>10, <2>15, <2>16, AddFacts DEF Overflow
  <2>18. layout = f + 1448
    BY <1>1, <1>2 DEF f
  <2>19. ContainerLayout(entries) = AddedUp(six)
    BY <2>2 DEF a, b, c, d
  <2> HIDE DEF layout, six
  <2>20. ContainerLayout(entries) = IF layout > Top THEN Overflow ELSE layout
    BY <2>8, <2>17, <2>18, <2>19
  <2>21. ContainerLayout(entries) = IF layout > Top \/ slots > MaxInt THEN Overflow ELSE layout
    BY <1>4, <2>20
  <2> QED BY <2>21 DEF layout, slots
<1> QED BY <1>3, <1>4

(* A size is refused just when it does not fit.                            *)
LEMMA FiguresRight ==
  ASSUME figures \in Seq(0 .. Top), figures # <<>>
  PROVE  FiguresExact
<1> DEFINE sum == FoldSeq(+, 0, figures)
           entries == figures[1]
<1>1. Top \in Nat /\ figures \in Seq(Nat) /\ entries \in 0 .. Top
  BY PowerFacts, IndexAssumption DEF Top
<1>2. LineageBytes(figures) = IF sum > Top THEN Overflow ELSE sum
  BY <1>1, AddedUpRight DEF LineageBytes
<1>3. ASSUME entries = 0
      PROVE  ContainerLayout(entries) = Overflow
  <2>1. IndexSlots(0) = Overflow
    BY DEF IndexSlots
  <2> QED BY <1>3, <2>1 DEF ContainerLayout
<1>4. ASSUME entries > 0
      PROVE  LET slots == TrueSlots(entries)
                 layout == slots * IndexBytes + entries * ArenaBytes + FixedPart
             IN  ContainerLayout(entries) = IF layout > Top \/ slots > MaxInt THEN Overflow ELSE layout
  BY <1>1, <1>4, LayoutRight
<1> QED BY <1>2, <1>3, <1>4 DEF FiguresExact, TrueSlots, Powers

-------------------------------------------------------------------------------
(* The store                                                               *)

StoreInv ==
  /\ IInv
  /\ held = <<>> \/ (IndexInv /\ figures = <<>>)
  /\ figures = <<>> \/ figures \in Seq(0 .. Top)

LEMMA GoneInv == RegistryGone => IInv
<1> SUFFICES ASSUME RegistryGone PROVE IInv
  OBVIOUS
<1>1. ArenaInv
  BY FreeIsSound DEF RegistryGone, ArenaInv, Sound
<1>2. lru = <<>> /\ Occupied(lineages) = {}
  BY DEF RegistryGone, Occupied, Free
<1>3. OrderInv
  BY <1>2 DEF OrderInv, OrderExact, IsInjective, ToSet
<1>4. SumOver(SlotSizes(lineages), Lineages) = 0 /\ SumOver(ByteSizes(lineages), Lineages) = 0
  <2>1. \A l \in Lineages : SlotSizes(lineages)[l] = 0 /\ ByteSizes(lineages)[l] = 0
    BY FreeIsSound DEF RegistryGone, SlotSizes, ByteSizes
  <2> QED BY <2>1, SumZero, RegistryAssumption
<1>5. ChargeInv
  BY <1>4, TotalsAreSums, RegistryAssumption DEF ChargeInv, RegistryGone
<1>6. ReleaseInv
  BY <1>2 DEF ReleaseInv, RegistryGone, StorageReleased
<1> QED BY <1>1, <1>3, <1>5, <1>6 DEF IInv

LEMMA StoreInitInv == StoreInit => StoreInv
<1> SUFFICES ASSUME StoreInit PROVE StoreInv
  OBVIOUS
<1>1. IInv
  BY InitInv, GoneInv DEF StoreInit
<1>2. CASE IndexAtRest
  BY <1>1, <1>2 DEF IndexAtRest, StoreInv
<1>3. CASE IndexInit
  BY <1>1, <1>3, IndexInitInv DEF IndexInit, StoreInv
<1>4. CASE FiguresInit
  BY <1>1, <1>4, FiguresAssumption DEF FiguresInit, StoreInv
<1> QED BY <1>2, <1>3, <1>4 DEF StoreInit

LEMMA StoreNextInv == StoreInv /\ [StoreNext]_storeVars => StoreInv'
<1> SUFFICES ASSUME StoreInv, [StoreNext]_storeVars PROVE StoreInv'
  OBVIOUS
<1>1. [Next]_vars /\ (UNCHANGED indexVars \/ (held # <<>> /\ IndexNext))
  BY DEF StoreNext, storeVars
<1>2. IInv'
  BY <1>1, NextInv DEF StoreInv
<1>3. CASE UNCHANGED indexVars
  <2>1. IndexInv => IndexInv'
    BY <1>3, IndexNextInv
  <2>2. held' = held /\ figures' = figures
    BY <1>3 DEF indexVars
  <2> QED BY <1>2, <2>1, <2>2 DEF StoreInv
<1>4. CASE held # <<>> /\ IndexNext
  <2>1. IndexInv' /\ figures = <<>>
    BY <1>4, IndexNextInv DEF StoreInv
  <2>2. figures' = figures
    BY <1>4 DEF IndexNext, Install, RemoveEntry
  <2> QED BY <1>2, <2>1, <2>2 DEF StoreInv
<1> QED BY <1>1, <1>3, <1>4

THEOREM StoreInvariance == StoreSpec => []StoreInv
BY StoreInitInv, StoreNextInv, PTL DEF StoreSpec

(* The registry's accounts are exact and its storage goes back once, also  *)
(* beside its containers.                                                  *)
THEOREM StoreKeepsStorage == StoreSpec => []StorageExact
<1>1. StoreInv => StorageExact
  BY InvStorage DEF StoreInv
<1> QED BY <1>1, StoreInvariance, PTL

(* And an admission evicts the oldest only, no more than it needs.         *)
THEOREM StoreEvictsOldest == StoreSpec => EvictsOldest
<1> DEFINE Right == \A l \in Grown, v \in Gone : Spent(v) /\ Oldest(v, l) /\ Needed(v)
<1>1. StoreInv /\ [StoreNext]_storeVars => [Right]_vars
  <2> SUFFICES ASSUME StoreInv, [StoreNext]_storeVars PROVE [Right]_vars
    OBVIOUS
  <2>1. IInv /\ [Next]_vars
    BY DEF StoreInv, StoreNext, storeVars
  <2> QED BY <2>1, EvictionRight
<1> HIDE DEF Right
<1>2. StoreSpec => [][Right]_vars
  BY <1>1, StoreInvariance, PTL DEF StoreSpec
<1> QED BY <1>2 DEF EvictsOldest, Right

(* In the containers a live token is found after any deletion and a        *)
(* removed one is not, an old reference stays invalid when its place is    *)
(* used again, and a size is refused just when it overflows (storage.go,   *)
(* accounting.go).                                                         *)
THEOREM TablesAreExact == StoreSpec => []TablesExact
<1>1. StoreInv => TablesExact
  <2> SUFFICES ASSUME StoreInv PROVE TablesExact
    OBVIOUS
  <2>1. ASSUME held # <<>> PROVE TokensFound /\ RefsExact
    BY <2>1, InvTokens, InvRefs DEF StoreInv
  <2>2. ASSUME figures # <<>> PROVE FiguresExact
    BY <2>2, FiguresRight DEF StoreInv
  <2> QED BY <2>1, <2>2 DEF TablesExact
<1> QED BY <1>1, StoreInvariance, PTL
===============================================================================
