--------------------------- MODULE CollectionLemmas ---------------------------
(***************************************************************************)
(* Lemmas about the collections the models are built from: a line is a     *)
(* sequence without duplicates, as the coordinator's queue and the         *)
(* limiter's waiters are (container/list with a node kept in each waiting  *)
(* request); a sum over a finite set is what an arena or a store is        *)
(* charged.                                                                *)
(***************************************************************************)
EXTENDS Integers, SequencesExt, SequenceTheorems, FiniteSetsExt, FiniteSetTheorems,
        WellFoundedInduction, TLAPS

-------------------------------------------------------------------------------
(* Lines                                                                   *)

(* Taking a member out of the middle keeps the others, once each.          *)
LEMMA RemoveAtFacts ==
  ASSUME NEW S, NEW q \in Seq(S), IsInjective(q), NEW k \in DOMAIN q
  PROVE  /\ RemoveAt(q, k) \in Seq(S)
         /\ Len(RemoveAt(q, k)) = Len(q) - 1
         /\ IsInjective(RemoveAt(q, k))
         /\ ToSet(RemoveAt(q, k)) = ToSet(q) \ {q[k]}
<1> DEFINE n == Len(q)
           p == SubSeq(q, 1, k - 1)
           t == SubSeq(q, k + 1, n)
           w == RemoveAt(q, k)
<1>1. n \in Nat /\ DOMAIN q = 1 .. n /\ k \in 1 .. n
  BY LenProperties
<1>2. /\ p \in Seq(S) /\ Len(p) = k - 1
      /\ \A i \in 1 .. k - 1 : p[i] = q[i]
  BY <1>1, SubSeqProperties
<1>3. /\ t \in Seq(S) /\ Len(t) = n - k
      /\ \A i \in 1 .. n - k : t[i] = q[k + i]
  BY <1>1, SubSeqProperties
<1>4. w = p \o t
  BY DEF RemoveAt
<1>5. /\ w \in Seq(S) /\ Len(w) = n - 1
      /\ DOMAIN w = 1 .. n - 1
      /\ \A i \in 1 .. n - 1 : w[i] = IF i < k THEN q[i] ELSE q[i + 1]
  <2>1. w \in Seq(S) /\ Len(w) = n - 1
    BY <1>1, <1>2, <1>3, <1>4, ConcatProperties
  <2>2. ASSUME NEW i \in 1 .. n - 1
        PROVE  w[i] = IF i < k THEN q[i] ELSE q[i + 1]
    <3>1. w[i] = IF i <= k - 1 THEN p[i] ELSE t[i - (k - 1)]
      <4>1. \A j \in 1 .. Len(p) + Len(t) :
              (p \o t)[j] = IF j <= Len(p) THEN p[j] ELSE t[j - Len(p)]
        BY <1>2, <1>3, ConcatProperties
      <4>2. i \in 1 .. Len(p) + Len(t)
        BY <1>1, <1>2, <1>3
      <4>3. w[i] = (p \o t)[i]
        BY <1>4
      <4> HIDE DEF p, t, w
      <4> QED BY <1>2, <4>1, <4>2, <4>3
    <3>2. CASE i < k
      BY <1>1, <1>2, <3>1, <3>2
    <3>3. CASE i >= k
      <4>1. i - (k - 1) \in 1 .. n - k /\ k + (i - (k - 1)) = i + 1
        BY <1>1, <3>3
      <4> QED BY <1>1, <1>3, <3>1, <3>3, <4>1
    <3> QED BY <1>1, <3>2, <3>3
  <2> QED BY <2>1, <2>2, LenProperties
<1>6. IsInjective(w)
  <2> SUFFICES ASSUME NEW a \in 1 .. n - 1, NEW b \in 1 .. n - 1, w[a] = w[b]
               PROVE  a = b
    BY <1>5 DEF IsInjective
  <2>1. \A i, j \in 1 .. n : q[i] = q[j] => i = j
    BY <1>1 DEF IsInjective
  <2>2. \A i \in 1 .. n - 1 : w[i] = IF i < k THEN q[i] ELSE q[i + 1]
    BY <1>5
  <2>3. n \in Nat /\ k \in 1 .. n
    BY <1>1
  <2> HIDE DEF n, p, t, w
  <2>4. CASE a < k /\ b < k
    BY <2>1, <2>2, <2>3, <2>4
  <2>5. CASE a < k /\ b >= k
    BY <2>1, <2>2, <2>3, <2>5
  <2>6. CASE a >= k /\ b < k
    BY <2>1, <2>2, <2>3, <2>6
  <2>7. CASE a >= k /\ b >= k
    BY <2>1, <2>2, <2>3, <2>7
  <2> QED BY <2>3, <2>4, <2>5, <2>6, <2>7
<1>7. ToSet(w) = ToSet(q) \ {q[k]}
  <2>1. ASSUME NEW x \in ToSet(w) PROVE x \in ToSet(q) \ {q[k]}
    BY <1>1, <1>5 DEF ToSet, IsInjective
  <2>2. ASSUME NEW x \in ToSet(q) \ {q[k]} PROVE x \in ToSet(w)
    <3>1. PICK i \in 1 .. n : q[i] = x /\ i # k
      BY <1>1 DEF ToSet
    <3>2. CASE i < k
      BY <1>1, <1>5, <3>1, <3>2 DEF ToSet
    <3>3. CASE i > k
      <4>1. i - 1 \in 1 .. n - 1 /\ w[i - 1] = q[i]
        BY <1>1, <1>5, <3>1, <3>3
      <4> QED BY <1>5, <3>1, <4>1 DEF ToSet
    <3> QED BY <1>1, <3>1, <3>2, <3>3
  <2> QED BY <2>1, <2>2
<1> QED BY <1>5, <1>6, <1>7

(* PushBack of somebody who is not in line.                                *)
LEMMA AppendFacts ==
  ASSUME NEW S, NEW q \in Seq(S), NEW x \in S, IsInjective(q), x \notin ToSet(q)
  PROVE  /\ Append(q, x) \in Seq(S) /\ Len(Append(q, x)) = Len(q) + 1
         /\ IsInjective(Append(q, x))
         /\ ToSet(Append(q, x)) = ToSet(q) \cup {x}
<1> DEFINE w == Append(q, x)
<1>1. /\ w \in Seq(S) /\ Len(w) = Len(q) + 1 /\ Len(q) \in Nat
      /\ DOMAIN w = 1 .. Len(q) + 1 /\ DOMAIN q = 1 .. Len(q)
      /\ \A i \in 1 .. Len(q) : w[i] = q[i]
      /\ w[Len(q) + 1] = x
  BY AppendProperties, LenProperties
<1>2. IsInjective(w)
  BY <1>1 DEF IsInjective, ToSet
<1>3. ToSet(w) = ToSet(q) \cup {x}
  BY <1>1 DEF ToSet
<1> QED BY <1>1, <1>2, <1>3

(* PushFront of somebody who is not in line.                               *)
LEMMA ConsFacts ==
  ASSUME NEW S, NEW q \in Seq(S), NEW x \in S, IsInjective(q), x \notin ToSet(q)
  PROVE  /\ <<x>> \o q \in Seq(S)
         /\ IsInjective(<<x>> \o q)
         /\ ToSet(<<x>> \o q) = {x} \cup ToSet(q)
<1> DEFINE w == <<x>> \o q
<1>1. /\ w \in Seq(S) /\ Len(q) \in Nat
      /\ DOMAIN w = 1 .. Len(q) + 1 /\ DOMAIN q = 1 .. Len(q)
      /\ w[1] = x
      /\ \A i \in 1 .. Len(q) : w[i + 1] = q[i]
  OBVIOUS
<1> HIDE DEF w
<1>2. \A i \in 1 .. Len(q) + 1 : i = 1 \/ (i - 1 \in 1 .. Len(q) /\ w[i] = q[i - 1])
  BY <1>1
<1>3. \A i \in 1 .. Len(q) : q[i] # x
  BY <1>1 DEF ToSet
<1>4. IsInjective(w)
  <2> SUFFICES ASSUME NEW i \in 1 .. Len(q) + 1, NEW j \in 1 .. Len(q) + 1, w[i] = w[j]
               PROVE  i = j
    BY <1>1 DEF IsInjective
  <2>1. \A a, b \in 1 .. Len(q) : q[a] = q[b] => a = b
    BY <1>1 DEF IsInjective
  <2>2. CASE i = 1
    BY <1>1, <1>2, <1>3, <2>2
  <2>3. CASE j = 1
    BY <1>1, <1>2, <1>3, <2>3
  <2>4. CASE i # 1 /\ j # 1
    <3>1. i - 1 \in 1 .. Len(q) /\ j - 1 \in 1 .. Len(q) /\ q[i - 1] = q[j - 1]
      BY <1>2, <2>4
    <3> QED BY <2>1, <3>1
  <2> QED BY <2>2, <2>3, <2>4
<1>5. ToSet(w) = {x} \cup ToSet(q)
  <2>1. \A y \in ToSet(w) : y = x \/ y \in ToSet(q)
    BY <1>1, <1>2 DEF ToSet
  <2>2. x \in ToSet(w) /\ \A y \in ToSet(q) : y \in ToSet(w)
    <3>1. 1 \in DOMAIN w /\ \A i \in DOMAIN q : i + 1 \in DOMAIN w /\ w[i + 1] = q[i]
      BY <1>1
    <3> QED BY <1>1, <3>1 DEF ToSet
  <2> QED BY <2>1, <2>2
<1> QED BY <1>1, <1>4, <1>5 DEF w

(* Taking the head off the line.                                           *)
LEMMA TailFacts ==
  ASSUME NEW S, NEW q \in Seq(S), IsInjective(q), q # <<>>
  PROVE  /\ Head(q) \in S /\ Head(q) \in ToSet(q)
         /\ Tail(q) \in Seq(S) /\ Len(Tail(q)) = Len(q) - 1
         /\ IsInjective(Tail(q))
         /\ ToSet(Tail(q)) = ToSet(q) \ {Head(q)}
<1> DEFINE w == Tail(q)
<1>1. /\ Len(q) \in Nat \ {0} /\ DOMAIN q = 1 .. Len(q)
      /\ w \in Seq(S) /\ Len(w) = Len(q) - 1 /\ DOMAIN w = 1 .. Len(q) - 1
      /\ \A i \in 1 .. Len(q) - 1 : w[i] = q[i + 1]
      /\ Head(q) = q[1] /\ Head(q) \in S
  BY HeadTailProperties, LenProperties, EmptySeq
<1>2. IsInjective(w)
  BY <1>1 DEF IsInjective
<1>3. ASSUME NEW x \in ToSet(w) PROVE x \in ToSet(q) \ {Head(q)}
  BY <1>1 DEF ToSet, IsInjective
<1>4. ASSUME NEW x \in ToSet(q) \ {Head(q)} PROVE x \in ToSet(w)
  <2>1. PICK i \in 2 .. Len(q) : q[i] = x
    BY <1>1 DEF ToSet
  <2>2. i - 1 \in 1 .. Len(q) - 1 /\ w[i - 1] = x
    BY <1>1, <2>1
  <2> QED BY <1>1, <2>2 DEF ToSet
<1>5. Head(q) \in ToSet(q)
  BY <1>1 DEF ToSet
<1> QED BY <1>1, <1>2, <1>3, <1>4, <1>5

(* Taking the first m off the line.                                        *)
LEMMA DropFacts ==
  ASSUME NEW S, NEW q \in Seq(S), IsInjective(q), NEW m \in 0 .. Len(q)
  PROVE  /\ SubSeq(q, m + 1, Len(q)) \in Seq(S)
         /\ Len(SubSeq(q, m + 1, Len(q))) = Len(q) - m
         /\ IsInjective(SubSeq(q, m + 1, Len(q)))
         /\ ToSet(SubSeq(q, m + 1, Len(q))) = ToSet(q) \ {q[i] : i \in 1 .. m}
<1> DEFINE n == Len(q)
           t == SubSeq(q, m + 1, n)
<1>1. n \in Nat /\ DOMAIN q = 1 .. n /\ m \in 0 .. n
  BY LenProperties
<1>2. /\ t \in Seq(S) /\ Len(t) = n - m /\ DOMAIN t = 1 .. n - m
      /\ \A i \in 1 .. n - m : t[i] = q[m + i]
  <2>1. m + 1 \in Int /\ n \in Int /\ \A i \in m + 1 .. n : q[i] \in S
    BY <1>1
  <2>2. /\ t \in Seq(S) /\ Len(t) = IF m + 1 <= n THEN n - (m + 1) + 1 ELSE 0
        /\ \A i \in 1 .. n - (m + 1) + 1 : t[i] = q[m + 1 + i - 1]
    BY <2>1, SubSeqProperties
  <2>3. /\ (IF m + 1 <= n THEN n - (m + 1) + 1 ELSE 0) = n - m
        /\ n - (m + 1) + 1 = n - m
        /\ \A i \in 1 .. n - m : m + 1 + i - 1 = m + i
    <3> HIDE DEF n
    <3> QED BY <1>1
  <2> QED BY <2>1, <2>2, <2>3, LenProperties
<1>3. \A i, j \in 1 .. n : q[i] = q[j] => i = j
  BY <1>1 DEF IsInjective
<1> HIDE DEF t, n
<1>4. IsInjective(t)
  BY <1>1, <1>2, <1>3 DEF IsInjective
<1>5. ASSUME NEW x \in ToSet(t) PROVE x \in ToSet(q) \ {q[i] : i \in 1 .. m}
  <2>1. PICK i \in 1 .. n - m : x = q[m + i]
    BY <1>2, <1>5 DEF ToSet
  <2>2. m + i \in 1 .. n /\ \A j \in 1 .. m : j \in 1 .. n /\ j # m + i
    BY <1>1
  <2> QED BY <1>1, <1>3, <2>1, <2>2 DEF ToSet
<1>6. ASSUME NEW x \in ToSet(q) \ {q[i] : i \in 1 .. m} PROVE x \in ToSet(t)
  <2>1. PICK i \in 1 .. n : x = q[i] /\ i \notin 1 .. m
    BY <1>1, <1>6 DEF ToSet
  <2>2. i - m \in 1 .. n - m /\ t[i - m] = x
    BY <1>1, <1>2, <2>1
  <2> QED BY <1>2, <2>2 DEF ToSet
<1>7. ToSet(t) = ToSet(q) \ {q[i] : i \in 1 .. m}
  BY <1>5, <1>6
<1> QED BY <1>2, <1>4, <1>7 DEF n, t

(* The same for every number of dropped elements at once.                  *)
LEMMA DropAnyFacts ==
  ASSUME NEW S, NEW q \in Seq(S), IsInjective(q)
  PROVE  \A m \in 0 .. Len(q) :
           /\ SubSeq(q, m + 1, Len(q)) \in Seq(S)
           /\ IsInjective(SubSeq(q, m + 1, Len(q)))
           /\ ToSet(SubSeq(q, m + 1, Len(q))) = ToSet(q) \ {q[i] : i \in 1 .. m}
BY DropFacts

-------------------------------------------------------------------------------
(* Sums                                                                    *)

(* The sum of f over a finite set, and the function its fold iterates.     *)
SumOver(f, S) == FoldFunctionOnSet(+, 0, f, S)

SomeOf(s) == CHOOSE x \in s : TRUE

Iterate(f, S, h) ==
  h = [s \in SUBSET S |-> IF s = {} THEN 0 ELSE f[SomeOf(s)] + h[s \ {SomeOf(s)}]]

Iterated(f, S) == CHOOSE h : Iterate(f, S, h)

LEMMA SumDef == \A f, S : SumOver(f, S) = Iterated(f, S)[S]
BY DEF SumOver, FoldFunctionOnSet, MapThenFoldSet, Iterate, SomeOf, Iterated

(* A set of subsets of a finite set has a member with no other below it.   *)
LEMMA LeastSubset ==
  ASSUME NEW S, IsFiniteSet(S), NEW T \in SUBSET (SUBSET S), T # {}
  PROVE  \E x \in T : \A y \in T : y \subseteq x => y = x
<1>1. IsWellFoundedOn(StrictSubsetOrdering(S), SUBSET S)
  BY FS_StrictSubsetOrderingWellFounded, FS_FiniteSubsetsOfFinite
<1>2. PICK x \in T : \A y \in T : ~ (<<y, x>> \in StrictSubsetOrdering(S))
  BY <1>1, WFMin
<1> QED BY <1>2 DEF StrictSubsetOrdering

Steps(f, S, h) ==
  \A s \in SUBSET S :
    /\ s = {} => h[s] = 0
    /\ s # {} => SomeOf(s) \in s /\ h[s] = f[SomeOf(s)] + h[s \ {SomeOf(s)}]

LEMMA IterateStep == \A f, S, h : Iterate(f, S, h) => Steps(f, S, h)
<1> SUFFICES ASSUME NEW f, NEW S, NEW h, Iterate(f, S, h), NEW s \in SUBSET S
             PROVE  /\ s = {} => h[s] = 0
                    /\ s # {} => /\ SomeOf(s) \in s
                                 /\ h[s] = f[SomeOf(s)] + h[s \ {SomeOf(s)}]
  BY DEF Steps
<1>1. s # {} => SomeOf(s) \in s
  BY DEF SomeOf
<1> QED BY <1>1 DEF Iterate

LEMMA IterateAgree ==
  ASSUME NEW S, IsFiniteSet(S), NEW f, NEW A \in SUBSET S, NEW B \in SUBSET S,
         NEW g, NEW h, Iterate(f, A, g), Iterate(f, B, h), NEW s, s \subseteq A, s \subseteq B
  PROVE  g[s] = h[s]
<1> DEFINE Bad == {t \in SUBSET S : t \subseteq A /\ t \subseteq B /\ g[t] # h[t]}
<1> SUFFICES ASSUME Bad # {} PROVE FALSE
  OBVIOUS
<1>0. Bad \in SUBSET (SUBSET S) /\ Bad # {}
  OBVIOUS
<1> HIDE DEF Bad
<1>1. PICK t \in Bad : \A u \in Bad : u \subseteq t => u = t
  BY <1>0, LeastSubset
<1> USE DEF Bad
<1>2. t \in SUBSET A /\ t \in SUBSET B /\ g[t] # h[t]
  BY <1>1
<1>3. Steps(f, A, g) /\ Steps(f, B, h)
  BY IterateStep
<1>4. /\ SomeOf(t) \in t
      /\ g[t] = f[SomeOf(t)] + g[t \ {SomeOf(t)}]
      /\ h[t] = f[SomeOf(t)] + h[t \ {SomeOf(t)}]
  BY <1>2, <1>3 DEF Steps
<1>5. t \ {SomeOf(t)} \notin Bad
  BY <1>1, <1>4
<1> QED BY <1>1, <1>4, <1>5

LEMMA IterateExists ==
  ASSUME NEW S, IsFiniteSet(S), NEW f
  PROVE  \E h : Iterate(f, S, h)
<1> DEFINE Bad == {T \in SUBSET S : \A h : ~Iterate(f, T, h)}
<1> SUFFICES ASSUME Bad # {} PROVE FALSE
  OBVIOUS
<1>0. Bad \in SUBSET (SUBSET S) /\ Bad # {}
  OBVIOUS
<1> HIDE DEF Bad
<1>1. PICK T \in Bad : \A U \in Bad : U \subseteq T => U = T
  BY <1>0, LeastSubset
<1> USE DEF Bad
<1> DEFINE Val(s) == IF s = {} THEN 0 ELSE f[SomeOf(s)] + Iterated(f, s \ {SomeOf(s)})[s \ {SomeOf(s)}]
           g == [s \in SUBSET T |-> Val(s)]
<1>2. ASSUME NEW U \in SUBSET T, U # T PROVE Iterate(f, U, Iterated(f, U))
  <2>1. \E h : Iterate(f, U, h)
    BY <1>1, <1>2
  <2> QED BY <2>1 DEF Iterated
<1>2a. ASSUME NEW u \in SUBSET T, u # T, NEW v \in SUBSET u
      PROVE  Iterated(f, u)[v] = Iterated(f, v)[v]
  <2>1. Iterate(f, u, Iterated(f, u)) /\ Iterate(f, v, Iterated(f, v))
    BY <1>2, <1>2a
  <2>2. u \in SUBSET S /\ v \in SUBSET S
    BY <1>2a
  <2> QED BY <2>1, <2>2, IterateAgree
<1>2b. ASSUME NEW u \in SUBSET T, u # T
      PROVE  Iterated(f, u)[u] = Val(u)
  <2>1. Iterate(f, u, Iterated(f, u))
    BY <1>2, <1>2b
  <2>2. Steps(f, u, Iterated(f, u))
    BY <2>1, IterateStep
  <2>3. Iterated(f, u)[u \ {SomeOf(u)}] = Iterated(f, u \ {SomeOf(u)})[u \ {SomeOf(u)}]
    BY <1>2a, <1>2b
  <2>4. u \in SUBSET u
    OBVIOUS
  <2>5. /\ u = {} => Iterated(f, u)[u] = 0
        /\ u # {} => Iterated(f, u)[u] = f[SomeOf(u)] + Iterated(f, u)[u \ {SomeOf(u)}]
    BY <2>2, <2>4 DEF Steps
  <2> QED BY <2>3, <2>5
<1>3. ASSUME NEW s \in SUBSET T, s # {}
      PROVE  g[s \ {SomeOf(s)}] = Iterated(f, s \ {SomeOf(s)})[s \ {SomeOf(s)}]
  <2>1. SomeOf(s) \in s
    BY <1>3 DEF SomeOf
  <2>2. s \ {SomeOf(s)} \in SUBSET T /\ s \ {SomeOf(s)} # T
    BY <2>1
  <2> HIDE DEF Val
  <2>3. g[s \ {SomeOf(s)}] = Val(s \ {SomeOf(s)})
    BY <2>2
  <2> QED BY <2>2, <2>3, <1>2b
<1>4. g = [s \in SUBSET T |-> IF s = {} THEN 0 ELSE f[SomeOf(s)] + g[s \ {SomeOf(s)}]]
  <2>1. \A s \in SUBSET T : Val(s) = IF s = {} THEN 0 ELSE f[SomeOf(s)] + g[s \ {SomeOf(s)}]
    <3> TAKE s \in SUBSET T
    <3> HIDE DEF g
    <3> QED BY <1>3
  <2> HIDE DEF Val
  <2>2. g = [s \in SUBSET T |-> Val(s)]
    OBVIOUS
  <2> HIDE DEF g
  <2> QED BY <2>1, <2>2
<1>5. Iterate(f, T, g)
  BY <1>4 DEF Iterate
<1> QED BY <1>1, <1>5

(* The sum takes the elements of a finite set one by one ...               *)
LEMMA SumUnfolds ==
  ASSUME NEW f, NEW S, IsFiniteSet(S)
  PROVE  /\ S = {} => SumOver(f, S) = 0
         /\ S # {} => /\ SomeOf(S) \in S
                      /\ SumOver(f, S) = f[SomeOf(S)] + SumOver(f, S \ {SomeOf(S)})
<1>1. ASSUME NEW U \in SUBSET S PROVE Iterate(f, U, Iterated(f, U)) /\ SumOver(f, U) = Iterated(f, U)[U]
  <2>1. IsFiniteSet(U)
    BY FS_Subset
  <2>2. \E h : Iterate(f, U, h)
    BY <2>1, IterateExists
  <2> QED BY <2>2, SumDef DEF Iterated
<1>2. Iterate(f, S, Iterated(f, S)) /\ SumOver(f, S) = Iterated(f, S)[S]
  BY <1>1
<1> S \in SUBSET S
  OBVIOUS
<1> Steps(f, S, Iterated(f, S))
  BY <1>2, IterateStep
<1>3. CASE S = {}
  BY <1>2, <1>3 DEF Steps
<1>4. CASE S # {}
  <2> DEFINE u == S \ {SomeOf(S)}
  <2>1. SomeOf(S) \in S /\ Iterated(f, S)[S] = f[SomeOf(S)] + Iterated(f, S)[u]
    BY <1>2, <1>4 DEF Steps
  <2>2. Iterate(f, u, Iterated(f, u)) /\ SumOver(f, u) = Iterated(f, u)[u]
    BY <1>1
  <2>3. Iterated(f, S)[u] = Iterated(f, u)[u]
    BY <1>2, <2>2, IterateAgree
  <2> QED BY <1>2, <1>4, <2>1, <2>2, <2>3
<1> QED BY <1>3, <1>4

(* ... depends on the values of f on the set only ...                      *)
LEMMA SumSame ==
  ASSUME NEW S, IsFiniteSet(S), NEW f, NEW g, \A x \in S : f[x] = g[x]
  PROVE  SumOver(f, S) = SumOver(g, S)
<1> DEFINE Bad == {T \in SUBSET S : SumOver(f, T) # SumOver(g, T)}
<1> SUFFICES ASSUME Bad # {} PROVE FALSE
  OBVIOUS
<1>0. Bad \in SUBSET (SUBSET S) /\ Bad # {}
  OBVIOUS
<1> HIDE DEF Bad
<1>1. PICK T \in Bad : \A U \in Bad : U \subseteq T => U = T
  BY <1>0, LeastSubset
<1> USE DEF Bad
<1>2. IsFiniteSet(T) /\ T \in SUBSET S
  BY <1>1, FS_Subset
<1>3. /\ T = {} => SumOver(f, T) = 0 /\ SumOver(g, T) = 0
      /\ T # {} => /\ SomeOf(T) \in T
                   /\ SumOver(f, T) = f[SomeOf(T)] + SumOver(f, T \ {SomeOf(T)})
                   /\ SumOver(g, T) = g[SomeOf(T)] + SumOver(g, T \ {SomeOf(T)})
  BY <1>2, SumUnfolds
<1>4. T # {} => T \ {SomeOf(T)} \notin Bad
  BY <1>1, <1>3
<1> QED BY <1>1, <1>2, <1>3, <1>4

(* ... and not on the order.                                               *)
LEMMA SumFacts ==
  ASSUME NEW S, IsFiniteSet(S), NEW f, \A x \in S : f[x] \in Nat
  PROVE  /\ SumOver(f, S) \in Nat
         /\ \A x \in S : SumOver(f, S) = f[x] + SumOver(f, S \ {x})
<1> DEFINE Good(T) == /\ SumOver(f, T) \in Nat
                      /\ \A x \in T : SumOver(f, T) = f[x] + SumOver(f, T \ {x})
           Bad == {T \in SUBSET S : ~Good(T)}
<1> SUFFICES ASSUME Bad # {} PROVE FALSE
  OBVIOUS
<1>0. Bad \in SUBSET (SUBSET S) /\ Bad # {}
  OBVIOUS
<1> HIDE DEF Bad
<1>1. PICK T \in Bad : \A U \in Bad : U \subseteq T => U = T
  BY <1>0, LeastSubset
<1> USE DEF Bad
<1>2. \A U \in SUBSET T : U # T => Good(U)
  BY <1>1
<1>3. IsFiniteSet(T) /\ T \in SUBSET S
  BY <1>1, FS_Subset
<1>4. T # {} /\ SomeOf(T) \in T /\ SumOver(f, T) = f[SomeOf(T)] + SumOver(f, T \ {SomeOf(T)})
  <2>1. /\ T = {} => SumOver(f, T) = 0
        /\ T # {} => /\ SomeOf(T) \in T
                     /\ SumOver(f, T) = f[SomeOf(T)] + SumOver(f, T \ {SomeOf(T)})
    BY <1>3, SumUnfolds
  <2>2. T = {} => Good(T)
    BY <2>1
  <2>3. ~Good(T)
    BY <1>1
  <2> QED BY <2>1, <2>2, <2>3
<1> DEFINE c == SomeOf(T)
<1>5. \A x \in T : f[x] \in Nat /\ SumOver(f, T \ {x}) \in Nat
  BY <1>2, <1>3
<1>6. ASSUME NEW x \in T, x # c PROVE SumOver(f, T) = f[x] + SumOver(f, T \ {x})
  <2>1. SumOver(f, T \ {c}) = f[x] + SumOver(f, (T \ {c}) \ {x})
    <3>1. Good(T \ {c}) /\ x \in T \ {c}
      BY <1>2, <1>4, <1>6
    <3> QED BY <3>1
  <2>2. SumOver(f, T \ {x}) = f[c] + SumOver(f, (T \ {x}) \ {c})
    <3>1. Good(T \ {x}) /\ c \in T \ {x}
      BY <1>2, <1>4, <1>6
    <3> QED BY <3>1
  <2>3. (T \ {x}) \ {c} = (T \ {c}) \ {x}
    OBVIOUS
  <2>4. SumOver(f, (T \ {c}) \ {x}) \in Nat
    <3>1. Good((T \ {c}) \ {x})
      BY <1>2, <1>4
    <3> QED BY <3>1
  <2>5. f[x] \in Nat /\ f[c] \in Nat
    BY <1>4, <1>5
  <2>6. \A a, b, n \in Nat : a + (b + n) = b + (a + n)
    OBVIOUS
  <2>7. SumOver(f, T) = f[c] + (f[x] + SumOver(f, (T \ {c}) \ {x}))
    BY <1>4, <2>1
  <2>8. SumOver(f, T \ {x}) = f[c] + SumOver(f, (T \ {c}) \ {x})
    BY <2>2, <2>3
  <2> HIDE DEF c, Good
  <2> QED BY <2>4, <2>5, <2>6, <2>7, <2>8
<1>7. SumOver(f, T) \in Nat
  BY <1>4, <1>5
<1>8. Good(T)
  BY <1>4, <1>6, <1>7
<1> QED BY <1>1, <1>8

(* A set's sum is its parts', and nothing comes from zeros.                *)
LEMMA SumParts ==
  ASSUME NEW S, IsFiniteSet(S), NEW f, \A x \in S : f[x] \in Nat, NEW V \in SUBSET S
  PROVE  SumOver(f, S) = SumOver(f, S \ V) + SumOver(f, V)
<1> DEFINE Bad == {T \in SUBSET V : SumOver(f, (S \ V) \cup T) # SumOver(f, S \ V) + SumOver(f, T)}
<1>0. \A T \in SUBSET S : IsFiniteSet(T) /\ SumOver(f, T) \in Nat
  <2> TAKE T \in SUBSET S
  <2>1. IsFiniteSet(T) /\ \A x \in T : f[x] \in Nat
    BY FS_Subset
  <2> QED BY <2>1, SumFacts
<1>1. Bad = {}
  <2> SUFFICES ASSUME Bad # {} PROVE FALSE
    OBVIOUS
  <2>0. Bad \in SUBSET (SUBSET V) /\ Bad # {} /\ IsFiniteSet(V)
    BY <1>0
  <2> HIDE DEF Bad
  <2>1. PICK T \in Bad : \A U \in Bad : U \subseteq T => U = T
    BY <2>0, LeastSubset
  <2> USE DEF Bad
  <2>2. T \in SUBSET V /\ SumOver(f, {}) = 0
    BY <1>0, <2>1, SumUnfolds
  <2>3. CASE T = {}
    <3>1. (S \ V) \cup T = S \ V
      BY <2>3
    <3>2. SumOver(f, S \ V) \in Nat
      BY <1>0
    <3> QED BY <2>1, <2>2, <2>3, <3>1, <3>2
  <2>4. CASE T # {}
    <3>1. PICK x : x \in T
      BY <2>4
    <3> DEFINE U == (S \ V) \cup T
    <3>2. SumOver(f, U) = f[x] + SumOver(f, U \ {x})
      <4>1. IsFiniteSet(U) /\ (\A y \in U : f[y] \in Nat) /\ x \in U
        BY <1>0, <2>2, <3>1
      <4> HIDE DEF U
      <4> QED BY <4>1, SumFacts
    <3>3. SumOver(f, T) = f[x] + SumOver(f, T \ {x})
      <4>1. IsFiniteSet(T) /\ \A y \in T : f[y] \in Nat
        BY <1>0, <2>2
      <4> QED BY <3>1, <4>1, SumFacts
    <3>4. SumOver(f, U \ {x}) = SumOver(f, S \ V) + SumOver(f, T \ {x})
      <4>1. U \ {x} = (S \ V) \cup (T \ {x})
        BY <2>2, <3>1
      <4>2. T \ {x} \notin Bad /\ T \ {x} \in SUBSET V
        BY <2>1, <2>2, <3>1
      <4> QED BY <4>1, <4>2
    <3>5. f[x] \in Nat /\ SumOver(f, S \ V) \in Nat /\ SumOver(f, T \ {x}) \in Nat
      BY <1>0, <2>2, <3>1
    <3>6. SumOver(f, U) # SumOver(f, S \ V) + SumOver(f, T)
      BY <2>1
    <3> HIDE DEF U
    <3> QED BY <3>2, <3>3, <3>4, <3>5, <3>6
  <2> QED BY <2>3, <2>4
<1>2. (S \ V) \cup V = S /\ V \notin Bad
  BY <1>1
<1> HIDE <1>1
<1> QED BY <1>2

LEMMA SumZero ==
  ASSUME NEW S, IsFiniteSet(S), NEW f, \A x \in S : f[x] = 0
  PROVE  SumOver(f, S) = 0
<1> DEFINE Bad == {T \in SUBSET S : SumOver(f, T) # 0}
<1> SUFFICES ASSUME Bad # {} PROVE FALSE
  OBVIOUS
<1>0. Bad \in SUBSET (SUBSET S) /\ Bad # {}
  OBVIOUS
<1> HIDE DEF Bad
<1>1. PICK T \in Bad : \A U \in Bad : U \subseteq T => U = T
  BY <1>0, LeastSubset
<1> USE DEF Bad
<1>2. IsFiniteSet(T) /\ T \in SUBSET S
  BY <1>1, FS_Subset
<1>3. T # {} /\ SomeOf(T) \in T /\ SumOver(f, T) = f[SomeOf(T)] + SumOver(f, T \ {SomeOf(T)})
  BY <1>1, <1>2, SumUnfolds
<1>4. T \ {SomeOf(T)} \notin Bad
  BY <1>1, <1>3
<1> QED BY <1>1, <1>2, <1>3, <1>4

(* What changes on V changes the sum by as much.                           *)
LEMMA SumChange ==
  ASSUME NEW S, IsFiniteSet(S), NEW f, NEW g, NEW V \in SUBSET S,
         \A x \in S : f[x] \in Nat /\ g[x] \in Nat, \A x \in S \ V : g[x] = f[x]
  PROVE  /\ SumOver(g, S) = SumOver(f, S) - SumOver(f, V) + SumOver(g, V)
         /\ SumOver(f, V) <= SumOver(f, S)
<1>1. IsFiniteSet(V) /\ IsFiniteSet(S \ V)
  BY FS_Subset
<1>2. SumOver(f, S) = SumOver(f, S \ V) + SumOver(f, V)
  BY SumParts
<1>3. SumOver(g, S) = SumOver(g, S \ V) + SumOver(g, V)
  BY SumParts
<1>4. SumOver(f, S \ V) = SumOver(g, S \ V)
  BY <1>1, SumSame
<1>5. SumOver(f, V) \in Nat /\ SumOver(g, V) \in Nat /\ SumOver(f, S \ V) \in Nat
  <2>1. (\A x \in V : f[x] \in Nat /\ g[x] \in Nat) /\ \A x \in S \ V : f[x] \in Nat
    OBVIOUS
  <2> QED BY <1>1, <2>1, SumFacts
<1> QED BY <1>2, <1>3, <1>4, <1>5

(* A sum is less if one of its terms is, and none is more.                 *)
LEMMA SumLess ==
  ASSUME NEW S, IsFiniteSet(S), NEW f, NEW g, NEW z \in S, f[z] < g[z],
         \A x \in S : f[x] \in Nat /\ g[x] \in Nat /\ f[x] <= g[x]
  PROVE  SumOver(f, S) < SumOver(g, S)
<1> DEFINE U == S \ {z}
           Bad == {T \in SUBSET U : ~ (SumOver(f, T) <= SumOver(g, T))}
<1>0. /\ IsFiniteSet(U) /\ U \in SUBSET S
      /\ \A T \in SUBSET S : IsFiniteSet(T) /\ SumOver(f, T) \in Nat /\ SumOver(g, T) \in Nat
  <2>1. \A T \in SUBSET S : IsFiniteSet(T)
    BY FS_Subset
  <2>2. ASSUME NEW T \in SUBSET S PROVE SumOver(f, T) \in Nat /\ SumOver(g, T) \in Nat
    <3>1. IsFiniteSet(T) /\ \A x \in T : f[x] \in Nat /\ g[x] \in Nat
      BY <2>1
    <3> QED BY <3>1, SumFacts
  <2> QED BY <2>1, <2>2
<1>1. Bad = {}
  <2> SUFFICES ASSUME Bad # {} PROVE FALSE
    OBVIOUS
  <2>0. Bad \in SUBSET (SUBSET U) /\ Bad # {}
    OBVIOUS
  <2> HIDE DEF Bad, U
  <2>1. PICK T \in Bad : \A V \in Bad : V \subseteq T => V = T
    BY <1>0, <2>0, LeastSubset
  <2> USE DEF Bad
  <2>2. T \in SUBSET U /\ T \in SUBSET S /\ IsFiniteSet(T) /\ ~ (SumOver(f, T) <= SumOver(g, T))
    BY <1>0, <2>1
  <2>3. CASE T = {}
    <3>1. SumOver(f, T) = 0 /\ SumOver(g, T) = 0
      BY <2>2, <2>3, SumUnfolds
    <3> QED BY <2>2, <3>1
  <2>4. CASE T # {}
    <3>1. PICK x : x \in T
      BY <2>4
    <3>2. SumOver(f, T) = f[x] + SumOver(f, T \ {x}) /\ SumOver(g, T) = g[x] + SumOver(g, T \ {x})
      <4>1. \A y \in T : f[y] \in Nat /\ g[y] \in Nat
        BY <2>2
      <4> QED BY <2>2, <3>1, <4>1, SumFacts
    <3>3. T \ {x} \notin Bad /\ T \ {x} \in SUBSET U /\ T \ {x} \in SUBSET S
      BY <2>1, <2>2, <3>1
    <3>4. SumOver(f, T \ {x}) <= SumOver(g, T \ {x})
      BY <3>3
    <3>5. /\ f[x] \in Nat /\ g[x] \in Nat /\ f[x] <= g[x]
          /\ SumOver(f, T \ {x}) \in Nat /\ SumOver(g, T \ {x}) \in Nat
      BY <1>0, <2>2, <3>1, <3>3
    <3> QED BY <2>2, <3>2, <3>4, <3>5
  <2> QED BY <2>3, <2>4
<1>2. SumOver(f, U) <= SumOver(g, U)
  BY <1>1
<1>3. SumOver(f, S) = f[z] + SumOver(f, U) /\ SumOver(g, S) = g[z] + SumOver(g, U)
  BY SumFacts
<1>4. f[z] \in Nat /\ g[z] \in Nat /\ SumOver(f, U) \in Nat /\ SumOver(g, U) \in Nat
  BY <1>0
<1> HIDE DEF U
<1> QED BY <1>2, <1>3, <1>4

LEMMA SumAtMost ==
  ASSUME NEW S, IsFiniteSet(S), NEW f, NEW g,
         \A x \in S : f[x] \in Nat /\ g[x] \in Nat /\ f[x] <= g[x]
  PROVE  SumOver(f, S) <= SumOver(g, S)
<1>1. SumOver(f, S) \in Nat /\ SumOver(g, S) \in Nat
  BY SumFacts
<1>2. CASE \A x \in S : f[x] = g[x]
  <2>1. SumOver(f, S) = SumOver(g, S)
    BY <1>2, SumSame
  <2> QED BY <1>1, <2>1
<1>3. CASE \E x \in S : f[x] # g[x]
  <2>1. PICK z \in S : f[z] # g[z]
    BY <1>3
  <2>2. f[z] < g[z]
    BY <2>1
  <2>3. SumOver(f, S) < SumOver(g, S)
    BY <2>2, SumLess
  <2> QED BY <1>1, <2>3
<1> QED BY <1>2, <1>3

LEMMA SumOfOne ==
  ASSUME NEW f, NEW x, f[x] \in Nat
  PROVE  SumOver(f, {x}) = f[x]
<1>1. IsFiniteSet({x}) /\ \A y \in {x} : f[y] \in Nat
  BY FS_Singleton
<1>2. SumOver(f, {x}) = f[x] + SumOver(f, {x} \ {x})
  BY <1>1, SumFacts
<1>3. {x} \ {x} = {} /\ SumOver(f, {}) = 0
  BY FS_EmptySet, SumUnfolds
<1> QED BY <1>2, <1>3

(* The sum over a sequence grows by what is appended.                      *)
LEMMA SumAppend ==
  ASSUME NEW s \in Seq(Nat), NEW n \in Nat
  PROVE  /\ FoldSeq(+, 0, s) \in Nat
         /\ FoldSeq(+, 0, Append(s, n)) = FoldSeq(+, 0, s) + n
<1> DEFINE t == Append(s, n)
           l == Len(s)
<1>1. /\ l \in Nat /\ DOMAIN s = 1 .. l /\ t \in Seq(Nat) /\ DOMAIN t = 1 .. l + 1
      /\ \A i \in 1 .. l : t[i] = s[i]
      /\ t[l + 1] = n
  OBVIOUS
<1>2. /\ FoldSeq(+, 0, s) = SumOver(s, DOMAIN s)
      /\ FoldSeq(+, 0, t) = SumOver(t, DOMAIN t)
  BY DEF FoldSeq, FoldFunction, SumOver
<1> HIDE DEF t, l
<1>3. IsFiniteSet(1 .. l) /\ IsFiniteSet(1 .. l + 1)
  BY <1>1, FS_Interval
<1>4. SumOver(s, 1 .. l) \in Nat
  <2>1. \A i \in 1 .. l : s[i] \in Nat
    BY <1>1
  <2> QED BY <1>3, <2>1, SumFacts
<1>5. SumOver(t, 1 .. l + 1) = t[l + 1] + SumOver(t, (1 .. l + 1) \ {l + 1})
  <2>1. (\A i \in 1 .. l + 1 : t[i] \in Nat) /\ l + 1 \in 1 .. l + 1
    BY <1>1
  <2> QED BY <1>3, <2>1, SumFacts
<1>6. (1 .. l + 1) \ {l + 1} = 1 .. l
  BY <1>1
<1>7. SumOver(t, 1 .. l) = SumOver(s, 1 .. l)
  BY <1>1, <1>3, SumSame
<1>8. FoldSeq(+, 0, t) = n + SumOver(s, 1 .. l) /\ FoldSeq(+, 0, s) = SumOver(s, 1 .. l)
  BY <1>1, <1>2, <1>5, <1>6, <1>7
<1> DEFINE x == SumOver(s, 1 .. l)
           a == FoldSeq(+, 0, s)
           b == FoldSeq(+, 0, t)
<1>9. x \in Nat /\ a = x /\ b = n + x
  BY <1>4, <1>8
<1>10. a \in Nat /\ b = a + n
  <2> HIDE DEF x, a, b
  <2> QED BY <1>9
<1> QED BY <1>10 DEF t

LEMMA SumOfSingle ==
  ASSUME NEW n \in Nat
  PROVE  FoldSeq(+, 0, <<n>>) = n
<1>1. FoldSeq(+, 0, <<n>>) = SumOver(<<n>>, DOMAIN <<n>>)
  BY DEF FoldSeq, FoldFunction, SumOver
<1>2. DOMAIN <<n>> = {1} /\ <<n>>[1] = n
  OBVIOUS
<1>3. SumOver(<<n>>, {1}) = <<n>>[1]
  BY <1>2, SumOfOne
<1> DEFINE a == FoldSeq(+, 0, <<n>>)
<1>4. a = n
  <2>1. a = SumOver(<<n>>, DOMAIN <<n>>)
    BY <1>1
  <2> HIDE DEF a
  <2> QED BY <1>2, <1>3, <2>1
<1> QED BY <1>4

-------------------------------------------------------------------------------
(* Numbers                                                                 *)

(* A set of numbers has a least one, and Min is it.                        *)
LEMMA LeastNumber ==
  ASSUME NEW T \in SUBSET Nat, T # {}
  PROVE  Min(T) \in T /\ \A y \in T : Min(T) <= y
<1> DEFINE R == OpToRel(<, Nat)
<1>1. \A a, b \in Nat : a < b => <<a, b>> \in R
  BY DEF OpToRel
<1>2. IsWellFoundedOn(R, Nat)
  BY NatLessThanWellFounded
<1> HIDE DEF R
<1>3. PICK x \in T : \A y \in T : <<y, x>> \notin R
  BY <1>2, WFMin
<1>4. \A y \in T : x <= y
  <2> TAKE y \in T
  <2>1. x \in Nat /\ y \in Nat
    OBVIOUS
  <2>2. ~ (y < x)
    BY <1>1, <1>3, <2>1
  <2> QED BY <2>1, <2>2
<1> QED BY <1>4 DEF Min

-------------------------------------------------------------------------------
(* Recursion                                                               *)

(* A recursion over the first numbers has a result.                        *)
Computes(L, X, base, G, h) ==
  h \in [0 .. L -> X] /\ h[0] = base /\ \A k \in 1 .. L : h[k] = G[<<h[k - 1], k>>]

LEMMA Recursion ==
  ASSUME NEW L \in Nat, NEW X, NEW base \in X, NEW G \in [X \X (1 .. L) -> X]
  PROVE  \E h : Computes(L, X, base, G, h)
<1> DEFINE Done(n, h) == h[0] = base /\ \A k \in 1 .. n : h[k] = G[<<h[k - 1], k>>]
           Bad == {n \in 0 .. L : ~ \E h \in [0 .. n -> X] : Done(n, h)}
<1>0. L \in 0 .. L
  OBVIOUS
<1> SUFFICES ASSUME Bad # {} PROVE FALSE
  BY <1>0 DEF Computes
<1>1. Min(Bad) \in Bad /\ \A y \in Bad : Min(Bad) <= y
  <2>1. Bad \in SUBSET Nat
    OBVIOUS
  <2> HIDE DEF Bad
  <2> QED BY <2>1, LeastNumber
<1> DEFINE n == Min(Bad)
<1>2. n \in 0 .. L /\ ~ \E h \in [0 .. n -> X] : Done(n, h)
  BY <1>1
<1> HIDE DEF n
<1>3. CASE n = 0
  <2> DEFINE h == [k \in 0 .. 0 |-> base]
  <2>1. h \in [0 .. 0 -> X] /\ h[0] = base /\ 1 .. 0 = {}
    OBVIOUS
  <2>2. Done(0, h)
    BY <2>1
  <2> HIDE DEF h
  <2> QED BY <1>2, <1>3, <2>1, <2>2
<1>4. CASE n # 0
  <2>1. n - 1 \in 0 .. L /\ n - 1 \notin Bad
    <3>1. n - 1 \in 0 .. L /\ ~ (n <= n - 1)
      BY <1>2, <1>4
    <3>2. \A y \in Bad : n <= y
      BY <1>1 DEF n
    <3> HIDE DEF Bad
    <3> QED BY <3>1, <3>2
  <2>2. PICK h \in [0 .. n - 1 -> X] : Done(n - 1, h)
    BY <2>1
  <2> DEFINE g == [k \in 0 .. n |-> IF k = n THEN G[<<h[n - 1], n>>] ELSE h[k]]
  <2>3. G[<<h[n - 1], n>>] \in X
    BY <1>2, <1>4
  <2>4. g \in [0 .. n -> X]
    BY <1>2, <2>3
  <2>5. /\ \A k \in 0 .. n - 1 : g[k] = h[k]
        /\ g[n] = G[<<h[n - 1], n>>]
    BY <1>2, <1>4
  <2> HIDE DEF g
  <2>6. g[0] = base
    BY <1>2, <1>4, <2>2, <2>5
  <2>7. ASSUME NEW k \in 1 .. n PROVE g[k] = G[<<g[k - 1], k>>]
    <3>1. CASE k = n
      <4>1. n - 1 \in 0 .. n - 1
        BY <1>2, <1>4
      <4> QED BY <2>5, <3>1, <4>1
    <3>2. CASE k # n
      <4>1. k \in 1 .. n - 1 /\ k \in 0 .. n - 1 /\ k - 1 \in 0 .. n - 1
        BY <1>2, <3>2
      <4> QED BY <2>2, <2>5, <4>1
    <3> QED BY <3>1, <3>2
  <2>8. Done(n, g)
    BY <2>6, <2>7
  <2> QED BY <1>2, <2>4, <2>8
<1> QED BY <1>3, <1>4

(* What holds of the first number of an interval and passes from one to    *)
(* the next holds of all.                                                  *)
LEMMA Upward ==
  ASSUME NEW a \in Nat, NEW b \in Nat, NEW T, a \in T, \A k \in a + 1 .. b : k - 1 \in T => k \in T
  PROVE  \A k \in a .. b : k \in T
<1> DEFINE Bad == {k \in a .. b : k \notin T}
<1> SUFFICES ASSUME Bad # {} PROVE FALSE
  OBVIOUS
<1>1. Min(Bad) \in Bad /\ \A y \in Bad : Min(Bad) <= y
  <2>1. Bad \in SUBSET Nat
    OBVIOUS
  <2> HIDE DEF Bad
  <2> QED BY <2>1, LeastNumber
<1> DEFINE m == Min(Bad)
<1>2. m \in a .. b /\ m \notin T /\ m # a
  BY <1>1
<1>3. \A y \in Bad : m <= y
  BY <1>1
<1> HIDE DEF m
<1>4. m \in a + 1 .. b /\ m - 1 \in a .. b /\ ~ (m <= m - 1)
  BY <1>2
<1>5. m - 1 \notin Bad
  BY <1>3, <1>4
<1> QED BY <1>2, <1>4, <1>5

-------------------------------------------------------------------------------
(* Sequences of sequences                                                  *)

(* One sequence after the other, counted up to each of them.               *)
Joins(seqs, g) == g[0] = <<>> /\ \A k \in 1 .. Len(seqs) : g[k] = g[k - 1] \o seqs[k]

LEMMA FlattenExists ==
  ASSUME NEW S, NEW seqs \in Seq(Seq(S))
  PROVE  \E g \in [0 .. Len(seqs) -> Seq(S)] : Joins(seqs, g)
<1> DEFINE L == Len(seqs)
           X == Seq(S)
           G == [p \in X \X (1 .. L) |-> p[1] \o seqs[p[2]]]
<1>1. L \in Nat /\ \A k \in 1 .. L : seqs[k] \in Seq(S)
  OBVIOUS
<1>2. G \in [X \X (1 .. L) -> X]
  <2>1. \A p \in X \X (1 .. L) : p[1] \o seqs[p[2]] \in X
    BY <1>1
  <2> QED BY <2>1
<1>3. PICK g : Computes(L, X, <<>>, G, g)
  <2>1. <<>> \in X
    OBVIOUS
  <2> HIDE DEF L, G, X
  <2> QED BY <1>1, <1>2, <2>1, Recursion
<1>4. g \in [0 .. L -> X] /\ g[0] = <<>>
  BY <1>3 DEF Computes
<1>5. \A k \in 1 .. L : g[k] = g[k - 1] \o seqs[k]
  <2> TAKE k \in 1 .. L
  <2>1. <<g[k - 1], k>> \in X \X (1 .. L)
    <3>1. k - 1 \in 0 .. L
      BY <1>1
    <3> HIDE DEF X, L
    <3> QED BY <1>4, <3>1
  <2>2. g[k] = G[<<g[k - 1], k>>]
    BY <1>3 DEF Computes
  <2> QED BY <2>1, <2>2
<1> QED BY <1>4, <1>5 DEF Joins

LEMMA FlattenIs ==
  ASSUME NEW S, NEW seqs \in Seq(Seq(S)), NEW g \in [0 .. Len(seqs) -> Seq(S)], Joins(seqs, g)
  PROVE  FlattenSeq(seqs) = g[Len(seqs)]
<1> DEFINE L == Len(seqs)
           Flattens(h) == h = [i \in 1 .. L |-> IF i = 1 THEN seqs[i] ELSE h[i - 1] \o seqs[i]]
           flat == CHOOSE h : Flattens(h)
           f == [i \in 1 .. L |-> g[i]]
<1>1. L \in Nat /\ \A k \in 1 .. L : seqs[k] \in Seq(S) /\ g[k] = g[k - 1] \o seqs[k]
  <2>1. L \in Nat /\ \A k \in 1 .. L : seqs[k] \in Seq(S)
    OBVIOUS
  <2> QED BY <2>1 DEF Joins
<1>0. L # 0 => g[1] = seqs[1]
  <2> SUFFICES ASSUME L # 0 PROVE g[1] = seqs[1]
    OBVIOUS
  <2>1. 1 \in 1 .. L /\ 1 - 1 = 0
    BY <1>1
  <2>2. g[1] = g[0] \o seqs[1] /\ seqs[1] \in Seq(S)
    BY <1>1, <2>1
  <2>3. g[0] = <<>>
    BY DEF Joins
  <2> QED BY <2>2, <2>3
<1>2. CASE L = 0
  <2>1. seqs = <<>> /\ g[0] = <<>>
    BY <1>2 DEF Joins
  <2> QED BY <1>2, <2>1 DEF FlattenSeq
<1>3. CASE L # 0
  <2>1. FlattenSeq(seqs) = flat[L]
    BY <1>3 DEF FlattenSeq
  <2>2. Flattens(f)
    <3>1. \A i \in 1 .. L : f[i] = IF i = 1 THEN seqs[i] ELSE f[i - 1] \o seqs[i]
      <4> TAKE i \in 1 .. L
      <4>1. CASE i = 1
        <5>1. f[1] = g[1]
          BY <4>1
        <5> QED BY <1>0, <1>3, <4>1, <5>1
      <4>2. CASE i # 1
        <5>1. i - 1 \in 1 .. L
          BY <1>1, <4>2
        <5> QED BY <1>1, <4>2, <5>1
      <4> QED BY <4>1, <4>2
    <3> QED BY <3>1
  <2>3. Flattens(flat)
    <3> HIDE DEF Flattens
    <3> QED BY <2>2
  <2> HIDE DEF flat
  <2>4. \A i \in 1 .. L : flat[i] = IF i = 1 THEN seqs[i] ELSE flat[i - 1] \o seqs[i]
    BY <2>3
  <2> DEFINE Bad == {i \in 1 .. L : flat[i] # g[i]}
  <2>5. Bad = {}
    <3> SUFFICES ASSUME Bad # {} PROVE FALSE
      OBVIOUS
    <3>1. Min(Bad) \in Bad /\ \A y \in Bad : Min(Bad) <= y
      <4>1. Bad \in SUBSET Nat
        BY <1>1
      <4> HIDE DEF Bad
      <4> QED BY <4>1, LeastNumber
    <3> DEFINE n == Min(Bad)
    <3>2. n \in 1 .. L /\ flat[n] # g[n]
      BY <3>1
    <3>3. n - 1 \in 1 .. L => n - 1 \notin Bad
      <4>1. n \in Int /\ ~ (n <= n - 1)
        BY <3>2
      <4> QED BY <3>1, <4>1
    <3> HIDE DEF n
    <3>4. CASE n = 1
      <4>1. g[1] = seqs[1] /\ flat[1] = seqs[1]
        BY <1>0, <1>3, <2>4, <3>2, <3>4
      <4> QED BY <3>2, <3>4, <4>1
    <3>5. CASE n # 1
      <4>1. n - 1 \in 1 .. L
        BY <1>1, <3>2, <3>5
      <4> QED BY <1>1, <2>4, <3>2, <3>3, <3>5, <4>1
    <3> QED BY <3>4, <3>5
  <2>6. L \in 1 .. L
    BY <1>1, <1>3
  <2> QED BY <2>1, <2>5, <2>6
<1> QED BY <1>2, <1>3

(* The first of some sequences; those from n on are left out.              *)
UpTo(seqs, n) == [k \in DOMAIN seqs |-> IF k < n THEN seqs[k] ELSE <<>>]

LEMMA FlattenUpTo ==
  ASSUME NEW S, NEW seqs \in Seq(Seq(S)), NEW g \in [0 .. Len(seqs) -> Seq(S)], Joins(seqs, g),
         NEW n \in 0 .. Len(seqs)
  PROVE  FlattenSeq(UpTo(seqs, n + 1)) = g[n]
<1> DEFINE L == Len(seqs)
           some == UpTo(seqs, n + 1)
           f == [k \in 0 .. L |-> IF k <= n THEN g[k] ELSE g[n]]
<1>1. L \in Nat /\ n \in 0 .. L /\ DOMAIN seqs = 1 .. L /\ \A k \in 1 .. L : seqs[k] \in Seq(S)
  OBVIOUS
<1>2. /\ some \in Seq(Seq(S)) /\ Len(some) = L
      /\ \A k \in 1 .. L : some[k] = IF k <= n THEN seqs[k] ELSE <<>>
  <2>1. \A k \in 1 .. L : some[k] = IF k <= n THEN seqs[k] ELSE <<>>
    BY <1>1 DEF UpTo
  <2>2. some \in [1 .. L -> Seq(S)]
    <3>1. <<>> \in Seq(S)
      OBVIOUS
    <3> HIDE DEF L
    <3> QED BY <1>1, <3>1 DEF UpTo
  <2> HIDE DEF some, L
  <2>3. some \in Seq(Seq(S))
    BY <1>1, <2>2
  <2>4. Len(some) = L
    BY <1>1, <2>2, <2>3
  <2> QED BY <2>1, <2>3, <2>4
<1> HIDE DEF some
<1>3. f \in [0 .. L -> Seq(S)]
  <2> HIDE DEF L
  <2> QED BY <1>1 DEF L
<1>4. Joins(some, f)
  <2>1. f[0] = <<>>
    BY <1>1 DEF Joins
  <2>2. ASSUME NEW k \in 1 .. L PROVE f[k] = f[k - 1] \o some[k]
    <3>1. k \in 0 .. L /\ k - 1 \in 0 .. L
      BY <1>1
    <3>2. CASE k <= n
      <4>1. g[k] = g[k - 1] \o seqs[k] /\ some[k] = seqs[k]
        BY <1>2, <3>2 DEF Joins
      <4>2. k - 1 <= n
        BY <1>1, <3>1, <3>2
      <4> QED BY <3>1, <3>2, <4>1, <4>2
    <3>3. CASE ~ (k <= n)
      <4>1. some[k] = <<>> /\ f[k] = g[n] /\ g[n] \in Seq(S)
        BY <1>1, <1>2, <3>1, <3>3
      <4>2. f[k - 1] = g[n]
        <5>1. k - 1 <= n => k - 1 = n
          BY <1>1, <3>1, <3>3
        <5> QED BY <3>1, <5>1
      <4> QED BY <4>1, <4>2
    <3> QED BY <3>2, <3>3
  <2> HIDE DEF f
  <2> QED BY <1>2, <2>1, <2>2 DEF Joins
<1> HIDE DEF f
<1>5. FlattenSeq(some) = f[L]
  BY <1>2, <1>3, <1>4, FlattenIs
<1>6. f[L] = g[n]
  <2> HIDE DEF L
  <2>1. L \in 0 .. L /\ (L <= n => L = n)
    BY <1>1
  <2> QED BY <2>1 DEF f
<1> QED BY <1>5, <1>6 DEF some

(* One more sequence comes after the others, and all begin with the first. *)
LEMMA FlattenMore ==
  ASSUME NEW S, NEW seqs \in Seq(Seq(S)), NEW n \in 1 .. Len(seqs) + 1
  PROVE  /\ FlattenSeq(UpTo(seqs, n)) \in Seq(S) /\ FlattenSeq(seqs) \in Seq(S)
         /\ n = 1 => FlattenSeq(UpTo(seqs, n)) = <<>>
         /\ n = Len(seqs) + 1 => FlattenSeq(UpTo(seqs, n)) = FlattenSeq(seqs)
         /\ n <= Len(seqs) => FlattenSeq(UpTo(seqs, n + 1)) = FlattenSeq(UpTo(seqs, n)) \o seqs[n]
         /\ \E t \in Seq(S) : FlattenSeq(seqs) = FlattenSeq(UpTo(seqs, n)) \o t
<1> DEFINE L == Len(seqs)
<1>1. L \in Nat /\ n \in 1 .. L + 1 /\ \A k \in 1 .. L : seqs[k] \in Seq(S)
  OBVIOUS
<1>2. PICK g \in [0 .. L -> Seq(S)] : Joins(seqs, g)
  BY FlattenExists
<1> HIDE DEF L
<1>3. ASSUME NEW k \in 0 .. L PROVE FlattenSeq(UpTo(seqs, k + 1)) = g[k]
  BY <1>2, FlattenUpTo DEF L
<1>4. n - 1 \in 0 .. L /\ (n - 1) + 1 = n
  BY <1>1
<1>5. FlattenSeq(UpTo(seqs, n)) = g[n - 1] /\ g[n - 1] \in Seq(S)
  BY <1>2, <1>3, <1>4
<1>6. FlattenSeq(seqs) = g[L] /\ L \in 0 .. L /\ g[L] \in Seq(S)
  <2>1. FlattenSeq(seqs) = g[L]
    BY <1>2, FlattenIs DEF L
  <2> QED BY <1>1, <1>2, <2>1
<1>7. n <= L => FlattenSeq(UpTo(seqs, n + 1)) = g[n - 1] \o seqs[n]
  <2> SUFFICES ASSUME n <= L PROVE FlattenSeq(UpTo(seqs, n + 1)) = g[n - 1] \o seqs[n]
    OBVIOUS
  <2>1. n \in 0 .. L /\ n \in 1 .. L
    BY <1>1
  <2>2. g[n] = g[n - 1] \o seqs[n]
    BY <1>2, <2>1 DEF Joins, L
  <2> QED BY <1>3, <2>1, <2>2
<1>8. \E t \in Seq(S) : g[L] = g[n - 1] \o t
  <2> DEFINE Begins(k) == \E t \in Seq(S) : g[k] = g[n - 1] \o t
             Bad == {k \in n - 1 .. L : ~ Begins(k)}
  <2> SUFFICES ASSUME Bad # {} PROVE FALSE
    <3>1. L \in n - 1 .. L
      BY <1>1
    <3> QED BY <3>1
  <2>1. Min(Bad) \in Bad /\ \A y \in Bad : Min(Bad) <= y
    <3>1. Bad \in SUBSET Nat
      BY <1>1, <1>4
    <3> HIDE DEF Bad
    <3> QED BY <3>1, LeastNumber
  <2> DEFINE m == Min(Bad)
  <2>2. m \in n - 1 .. L /\ ~ Begins(m)
    BY <2>1
  <2>3. m # n - 1
    <3>1. g[n - 1] = g[n - 1] \o <<>> /\ <<>> \in Seq(S)
      BY <1>5
    <3>2. Begins(n - 1)
      BY <3>1
    <3> HIDE DEF m, Begins
    <3> QED BY <2>2, <3>2
  <2> HIDE DEF m
  <2>4. m \in 1 .. L /\ m - 1 \in n - 1 .. L /\ m - 1 \in 0 .. L
    BY <1>1, <1>4, <2>2, <2>3
  <2>5. m - 1 \notin Bad
    <3>1. ~ (m <= m - 1)
      BY <2>4
    <3> HIDE DEF Bad
    <3> QED BY <2>1, <3>1 DEF m
  <2>6. PICK t \in Seq(S) : g[m - 1] = g[n - 1] \o t
    BY <2>4, <2>5
  <2>7. g[m] = (g[n - 1] \o t) \o seqs[m] /\ seqs[m] \in Seq(S)
    BY <1>1, <1>2, <2>4, <2>6 DEF Joins, L
  <2>8. t \o seqs[m] \in Seq(S) /\ (g[n - 1] \o t) \o seqs[m] = g[n - 1] \o (t \o seqs[m])
    <3> DEFINE a == g[n - 1]
               b == seqs[m]
    <3>1. a \in Seq(S) /\ b \in Seq(S)
      BY <1>5, <2>7
    <3> HIDE DEF a, b
    <3>2. t \o b \in Seq(S) /\ (a \o t) \o b = a \o (t \o b)
      BY <3>1, ConcatAssociative
    <3> QED BY <3>2 DEF a, b
  <2> QED BY <2>2, <2>7, <2>8
<1>9. n = 1 => g[n - 1] = <<>>
  BY <1>2 DEF Joins
<1>10. n = L + 1 => g[n - 1] = g[L]
  BY <1>1
<1> QED BY <1>5, <1>6, <1>7, <1>8, <1>9, <1>10 DEF L

(* The head of what waits goes to the end of what is out: all of it        *)
(* together stays the same.                                                *)
Shifts(t, u, longer, rest) == u # <<>> /\ longer = Append(t, Head(u)) /\ rest = Tail(u)

SameRows(s, t, u, longer, rest) == (s \o longer) \o rest = (s \o t) \o u

Associates(s, t, u) == (s \o t) \o u = s \o (t \o u)

LEMMA Associative ==
  ASSUME NEW S, NEW s \in Seq(S), NEW t \in Seq(S), NEW u \in Seq(S)
  PROVE  Associates(s, t, u) /\ t \o u \in Seq(S)
BY ConcatAssociative DEF Associates

LEMMA HeadMoves ==
  ASSUME NEW S, NEW s \in Seq(S), NEW t \in Seq(S), NEW u \in Seq(S),
         NEW longer, NEW rest, Shifts(t, u, longer, rest)
  PROVE  /\ longer \in Seq(S) /\ rest \in Seq(S) /\ Len(rest) < Len(u)
         /\ SameRows(s, t, u, longer, rest)
<1> DEFINE one == <<Head(u)>>
<1>0. u # <<>> /\ longer = Append(t, Head(u)) /\ rest = Tail(u)
  BY DEF Shifts
<1>1. /\ longer \in Seq(S) /\ rest \in Seq(S) /\ Len(rest) < Len(u)
      /\ one \in Seq(S) /\ u = one \o rest /\ longer = t \o one
  <2>1. Head(u) \in S /\ rest \in Seq(S) /\ Len(rest) = Len(u) - 1 /\ Len(u) \in Nat
    BY <1>0
  <2>2. one \in Seq(S) /\ u = one \o rest
    BY <1>0
  <2>3. longer = t \o one /\ longer \in Seq(S)
    BY <1>0, <2>1, AppendIsConcat
  <2> QED BY <2>1, <2>2, <2>3
<1> HIDE DEF one
<1>2. Associates(s, longer, rest) /\ Associates(t, one, rest) /\ Associates(s, t, u)
  BY <1>1, Associative
<1> QED BY <1>1, <1>2 DEF Associates, SameRows

(* The beginning of a sequence that is put together.                       *)
LEMMA PrefixFacts ==
  ASSUME NEW S, NEW s \in Seq(S), NEW t \in Seq(S)
  PROVE  IsPrefix(s, s \o t)
<1>1. /\ s \o t \in Seq(S) /\ Len(s \o t) = Len(s) + Len(t) /\ Len(s) \in Nat /\ Len(t) \in Nat
      /\ \A i \in 1 .. Len(s) + Len(t) : (s \o t)[i] = IF i <= Len(s) THEN s[i] ELSE t[i - Len(s)]
  BY ConcatProperties
<1> DEFINE n == Len(s)
           w == s \o t
<1>2. /\ w \in Seq(S) /\ n \in Nat /\ n <= Len(w) /\ Len(w) \in Nat /\ s \in Seq(S) /\ n = Len(s)
      /\ \A i \in 1 .. n : i \in 1 .. Len(w) /\ w[i] = s[i]
  BY <1>1
<1> HIDE DEF n, w
<1>3. /\ SubSeq(s, 1, n) \in Seq(S) /\ SubSeq(w, 1, n) \in Seq(S)
      /\ Len(SubSeq(s, 1, n)) = n /\ Len(SubSeq(w, 1, n)) = n
      /\ \A i \in 1 .. n : SubSeq(s, 1, n)[i] = s[i] /\ SubSeq(w, 1, n)[i] = w[i]
  BY <1>2
<1>4. SubSeq(s, 1, n) = SubSeq(w, 1, n)
  BY <1>2, <1>3
<1> QED BY <1>2, <1>4 DEF IsPrefix, n, w

===============================================================================
