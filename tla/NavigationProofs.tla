--------------------------- MODULE NavigationProofs ---------------------------
(***************************************************************************)
(* What Navigation says of a scan, of the cache, of patterns, of searches  *)
(* and of reads holds for every tree, every request, every budget, every   *)
(* sequence of uses, every pattern and path, and every file: the pages put *)
(* together are the tree, in order and once, and each page with a cursor   *)
(* has moved on to a state that can be taken up again; the cache holds the *)
(* newest results that fit; a pattern matches just the paths its parts can *)
(* be laid over; a search shows just the lines near a match; and a read    *)
(* has an item for each file, on pages whenever it can be divided.         *)
(*                                                                         *)
(* The parts stand one behind the other, each with its own invariant; the  *)
(* theorems at the end put them together.                                  *)
(***************************************************************************)
EXTENDS Navigation, CollectionLemmas



-------------------------------------------------------------------------------
(* What is known of a scan between two entries                             *)

RowSet == [at : Nat, key : Nat]

Errors == Codes \cup {"budget_exceeded", "record_exceeds_budget", "unsupported_language"}

States ==
  [frontier : SUBSET DOMAIN tree, pending : Seq(RowSet), files : Nat, dirs : Nat, bytes : Nat,
   parsed : Nat, warned : [Codes -> Nat], seen : SUBSET Nat, code : {"none"} \cup Errors]

Whole == Len(tree) + 1

(* The rows of an entry, and of those before n, in a scan that leaves out  *)
(* the files of `cut`.                                                     *)
RowPart(cut, e) == IF e \in Reached \ cut /\ Opens(e) THEN RowsOf(e) ELSE <<>>
RowParts(cut) == [e \in DOMAIN tree |-> RowPart(cut, e)]
Delivered(cut, n) == FlattenSeq(UpTo(RowParts(cut), n))

Earlier(n) == { e \in Reached : e < n }

Count(cut, n, c) ==
  Cardinality({ e \in Earlier(n) : Reason(e, Reached, cut) = c })
    + Cardinality(UNION { Reported(d, c) : d \in Enumerated(Reached) \cap Earlier(n) })

CutsBefore(n) == { cut \in SUBSET Cuttable(Reached) : cut \subseteq Earlier(n) }

(* The objects that were opened as directories.                            *)
Ids(n) == { tree[d].id : d \in { x \in Earlier(n) : tree[x].kind = "dir" /\ Opens(x) } }

(* The entries before n have been processed: their rows are out, with the  *)
(* ones that wait; the frontier is what they list from n on.               *)
Caught(st, rows, cut, n) ==
  /\ n \in 1 .. Whole /\ cut \in CutsBefore(n)
  /\ st.frontier = { c \in Reached : n <= c /\ tree[c].up < n }
  /\ rows \o st.pending = Delivered(cut, n)
  /\ st.seen = Ids(n)
  /\ st.warned = [c \in Codes |-> Count(cut, n, c)]

(* A scan that failed has given no row out of order.                       *)
BrokenOff(st, rows) ==
  \E cut \in SUBSET Cuttable(Reached), n \in 1 .. Whole : rows \o st.pending = Delivered(cut, n)

Within(st) ==
  /\ Retained(st) <= budget.retained
  /\ st.files <= budget.files /\ st.dirs <= budget.dirs
  /\ st.bytes <= budget.bytes /\ st.parsed <= budget.parsed

(* st is what a call has made of the state `from`.                         *)
Beyond(st, from) ==
  \/ st.frontier = from.frontier /\ Len(st.pending) < Len(from.pending)
  \/ from.frontier # {} /\ \A c \in st.frontier : First(from) < c

AskInv ==
  /\ tree \in Trees /\ ask \in Requests /\ budget \in Budgets
  /\ ask.mode = "project" => ~ Explicit

LineageAt(l, rows, last) ==
  /\ l \in [kind : {"new", "scan", "summary", "over", "lost"}, st : States]
  /\ l.kind = "new" => rows = <<>>
  /\ l.kind # "new" => \E n \in 2 .. Whole, cut \in SUBSET Cuttable(Reached) : Caught(l.st, rows, cut, n)
  /\ l.kind = "scan" => Resumable(l.st)
  /\ l.kind \in {"summary", "over"} => l.st.frontier = {} /\ l.st.pending = <<>>
  /\ l.kind = "over" => last = l.st.warned

CallAt(c, l, rows) ==
  /\ c \in [on : BOOLEAN, st : States, out : Seq(RowSet), progressed : BOOLEAN, late : BOOLEAN]
  /\ ~ c.on => c = Idle
  /\ c.on => l.kind \in {"new", "scan"}
  /\ c.on /\ c.st.code = "none" =>
       /\ Within(c.st)
       /\ \E n \in 2 .. Whole, cut \in SUBSET Cuttable(Reached) : Caught(c.st, rows \o c.out, cut, n)
  /\ c.on /\ c.st.code # "none" => BrokenOff(c.st, rows \o c.out)
  /\ c.on /\ c.st.code = "none" /\ l.kind = "scan" =>
       IF c.progressed THEN Beyond(c.st, l.st) ELSE c.st = l.st /\ c.out = <<>>

(* The pages delivered, and those rows with what the call at work adds to  *)
(* them, are where a scan without pages, calls or limits would be.         *)
ScanInv ==
  /\ AskInv
  /\ sent \in Seq(RowSet)
  /\ LineageAt(lineage, sent, told)
  /\ CallAt(call, lineage, sent)

-------------------------------------------------------------------------------
(* The tree                                                                *)

LEMMA TreeFacts ==
  ASSUME AskInv
  PROVE  /\ Len(tree) \in Nat \ {0} /\ DOMAIN tree = 1 .. Len(tree) /\ 1 \in DOMAIN tree
         /\ tree[1].up = 1 /\ tree[1].kind \in {"dir", "file"} /\ Opens(1)
         /\ \A n \in DOMAIN tree : tree[n] \in Entries
         /\ \A n \in DOMAIN tree \ {1} : tree[n].up \in 1 .. n - 1
         /\ \A n, m \in DOMAIN tree : tree[n].id = tree[m].id => tree[n].kind = tree[m].kind
         /\ \A n \in DOMAIN tree : tree[n].fate = "torn" => tree[n].kind = "dir"
         /\ ask \in [mode : Modes, depth : Nat, include : BOOLEAN, limit : Nat \ {0}]
         /\ budget \in [files : Nat, dirs : Nat, bytes : Nat, parsed : Nat, retained : Nat]
<1>1. tree \in Seq(Entries) \ {<<>>} /\ Orderly(tree)
  BY ScanAssumption DEF AskInv
<1>2. Len(tree) \in Nat \ {0} /\ DOMAIN tree = 1 .. Len(tree) /\ \A n \in DOMAIN tree : tree[n] \in Entries
  <2>1. tree \in Seq(Entries) /\ tree # <<>>
    BY <1>1
  <2> QED BY <2>1
<1>3. ask \in [mode : Modes, depth : Nat, include : BOOLEAN, limit : Nat \ {0}]
  BY ScanAssumption DEF AskInv
<1>4. budget \in [files : Nat, dirs : Nat, bytes : Nat, parsed : Nat, retained : Nat]
  BY ScanAssumption DEF AskInv
<1> QED BY <1>1, <1>2, <1>3, <1>4 DEF Orderly, Opens

(* The fields of an entry.                                                 *)
LEMMA EntryFacts ==
  ASSUME AskInv, NEW e \in DOMAIN tree
  PROVE  /\ e \in Nat \ {0} /\ tree[e].up \in Nat /\ tree[e].depth \in Nat /\ tree[e].id \in Nat
         /\ tree[e].kind \in {"dir", "file"} \cup DOMAIN ListedWarning
         /\ tree[e].wanted \in BOOLEAN /\ tree[e].coded \in BOOLEAN
         /\ tree[e].read \in {"ok"} \cup Codes /\ tree[e].size \in Nat
         /\ tree[e].hits \in Seq(Nat) /\ tree[e].names \in Seq(Nat)
         /\ tree[e].parse \in {"clean", "partial", "fatal"}
         /\ \A i, j \in DOMAIN tree[e].hits : i < j => tree[e].hits[i] < tree[e].hits[j]
<1>1. tree[e] \in Entries /\ e \in Nat \ {0}
  BY TreeFacts
<1>2. \A i, j \in DOMAIN tree[e].hits : i < j => tree[e].hits[i] < tree[e].hits[j]
  BY ScanAssumption DEF AskInv, Orderly
<1> QED BY <1>1, <1>2 DEF Entries

(* The entries that are reached, one after the other.                      *)
Grow(reached, n) ==
  IF n = 1 \/ (n \in Units(tree[n].up) /\ Lists(tree[n].up, reached)) THEN reached \cup {n} ELSE reached

LEMMA ReachedSteps ==
  ASSUME AskInv
  PROVE  \E r \in [0 .. Len(tree) -> SUBSET DOMAIN tree] :
           /\ Reached = r[Len(tree)] /\ r[0] = {}
           /\ \A n \in 1 .. Len(tree) : r[n] = Grow(r[n - 1], n)
<1> DEFINE L == Len(tree)
           X == SUBSET DOMAIN tree
           G == [p \in X \X (1 .. L) |-> Grow(p[1], p[2])]
           Growing(h) == h = [n \in 0 .. L |->
                                IF n = 0 THEN {}
                                ELSE IF n = 1 \/ (n \in Units(tree[n].up) /\ Lists(tree[n].up, h[n - 1]))
                                  THEN h[n - 1] \cup {n} ELSE h[n - 1]]
           r == CHOOSE h : Growing(h)
<1>1. L \in Nat /\ DOMAIN tree = 1 .. L
  BY TreeFacts
<1>2. G \in [X \X (1 .. L) -> X]
  <2>1. \A p \in X \X (1 .. L) : Grow(p[1], p[2]) \in X
    BY <1>1 DEF Grow
  <2> QED BY <2>1
<1>3. PICK h : Computes(L, X, {}, G, h)
  <2>1. {} \in X
    OBVIOUS
  <2> HIDE DEF L, G, X
  <2> QED BY <1>1, <1>2, <2>1, Recursion
<1>4. h \in [0 .. L -> X] /\ h[0] = {}
  BY <1>3 DEF Computes
<1>5. \A k \in 1 .. L : h[k] = Grow(h[k - 1], k)
  <2> TAKE k \in 1 .. L
  <2>1. <<h[k - 1], k>> \in X \X (1 .. L)
    <3>1. k - 1 \in 0 .. L
      BY <1>1
    <3> HIDE DEF X, L
    <3> QED BY <1>4, <3>1
  <2>2. h[k] = G[<<h[k - 1], k>>]
    BY <1>3 DEF Computes
  <2> QED BY <2>1, <2>2
<1>6. Growing(h)
  <2>1. \A n \in 0 .. L : h[n] = IF n = 0 THEN {} ELSE Grow(h[n - 1], n)
    BY <1>1, <1>4, <1>5
  <2> HIDE DEF L
  <2> QED BY <1>4, <2>1 DEF Grow
<1>7. Reached = r[L]
  BY DEF Reached
<1>8. Growing(r)
  <2> HIDE DEF Growing
  <2> QED BY <1>6
<1> HIDE DEF r
<1>9. r[0] = {} /\ \A k \in 1 .. L : r[k] = Grow(r[k - 1], k)
  <2>1. \A n \in 0 .. L : r[n] = IF n = 0 THEN {} ELSE Grow(r[n - 1], n)
    BY <1>8 DEF Grow
  <2> HIDE DEF L
  <2> QED BY <1>1, <2>1
<1>10. r = [n \in 0 .. L |-> r[n]]
  BY <1>8
<1>11. \A n \in 0 .. L : r[n] \in X
  <2> DEFINE T == {n \in 0 .. L : r[n] \in X}
  <2>1. 0 \in T
    BY <1>1, <1>9
  <2>2. ASSUME NEW n \in 0 + 1 .. L, n - 1 \in T PROVE n \in T
    <3>1. n \in 1 .. L /\ n \in 0 .. L /\ r[n - 1] \in X
      BY <1>1, <2>2
    <3> QED BY <1>1, <1>9, <3>1 DEF Grow
  <2> HIDE DEF T
  <2>3. \A n \in 0 .. L : n \in T
    BY <1>1, <2>1, <2>2, Upward
  <2> QED BY <2>3 DEF T
<1> HIDE DEF L, X
<1>12. r \in [0 .. L -> X]
  BY <1>10, <1>11
<1> QED BY <1>7, <1>9, <1>12 DEF L, X


LEMMA ReachedFacts ==
  ASSUME AskInv
  PROVE  /\ Reached \subseteq DOMAIN tree /\ IsFiniteSet(Reached) /\ 1 \in Reached
         /\ \A n \in DOMAIN tree \ {1} :
              n \in Reached <=> n \in Units(tree[n].up) /\ Lists(tree[n].up, Reached)
         /\ Explicit => Reached = {1}
<1> DEFINE L == Len(tree)
<1>1. L \in Nat \ {0} /\ DOMAIN tree = 1 .. L /\ \A n \in 2 .. L : tree[n].up \in 1 .. n - 1
  BY TreeFacts
<1>2. PICK r \in [0 .. L -> SUBSET DOMAIN tree] :
        /\ Reached = r[L] /\ r[0] = {}
        /\ \A n \in 1 .. L : r[n] = Grow(r[n - 1], n)
  BY ReachedSteps
<1> HIDE DEF L
<1>3. \A n \in 1 .. L : r[n - 1] \subseteq r[n] /\ r[n] \subseteq r[n - 1] \cup {n}
  BY <1>2 DEF Grow
<1>4. \A n \in 0 .. L : r[n] \subseteq 1 .. n
  <2> DEFINE T == {n \in 0 .. L : r[n] \subseteq 1 .. n}
  <2>1. 0 \in T
    BY <1>1, <1>2
  <2>2. ASSUME NEW n \in 0 + 1 .. L, n - 1 \in T PROVE n \in T
    <3>1. n \in 1 .. L /\ n \in 0 .. L /\ r[n - 1] \subseteq 1 .. n - 1
      BY <1>1, <2>2
    <3>2. 1 .. n - 1 \subseteq 1 .. n /\ n \in 1 .. n
      BY <3>1
    <3> QED BY <1>3, <3>1, <3>2
  <2> HIDE DEF T
  <2>3. \A n \in 0 .. L : n \in T
    BY <1>1, <2>1, <2>2, Upward
  <2> QED BY <2>3 DEF T
<1>5. ASSUME NEW m \in 0 .. L PROVE r[m] = {x \in Reached : x <= m}
  <2> DEFINE T == {k \in m .. L : r[m] = {x \in r[k] : x <= m}}
  <2>1. m \in T
    <3>1. \A x \in 1 .. m : x <= m
      BY <1>1
    <3> QED BY <1>1, <1>4, <3>1
  <2>2. ASSUME NEW k \in m + 1 .. L, k - 1 \in T PROVE k \in T
    <3>1. k \in 1 .. L /\ k \in m .. L /\ ~ (k <= m)
      BY <1>1
    <3> QED BY <1>3, <2>2, <3>1
  <2> HIDE DEF T
  <2>3. \A k \in m .. L : k \in T
    <3>1. m \in Nat /\ L \in Nat
      BY <1>1
    <3> QED BY <2>1, <2>2, <3>1, Upward
  <2>4. L \in m .. L
    BY <1>1
  <2> QED BY <1>2, <2>3, <2>4 DEF T
<1>6. Reached \subseteq DOMAIN tree
  BY <1>1, <1>2
<1>7. ASSUME NEW n \in 1 .. L
      PROVE  n \in Reached <=> n = 1 \/ (n \in Units(tree[n].up) /\ Lists(tree[n].up, r[n - 1]))
  <2>1. n \in 0 .. L /\ n - 1 \in 0 .. L /\ n <= n /\ ~ (n <= n - 1)
    BY <1>1
  <2>2. (n \in Reached <=> n \in r[n]) /\ n \notin r[n - 1]
    BY <1>5, <2>1
  <2>3. r[n] = Grow(r[n - 1], n)
    BY <1>2
  <2> QED BY <2>2, <2>3 DEF Grow
<1>8. ASSUME NEW n \in DOMAIN tree \ {1}
      PROVE  n \in Reached <=> n \in Units(tree[n].up) /\ Lists(tree[n].up, Reached)
  <2> DEFINE d == tree[n].up
             before == r[n - 1]
  <2>1. n \in 1 .. L /\ n \in 2 .. L /\ d \in 1 .. n - 1 /\ n - 1 \in 0 .. L
    BY <1>1
  <2>2. \A x \in DOMAIN tree : x <= d => (x \in Reached <=> x \in before)
    <3>1. \A x \in DOMAIN tree : x <= d => x <= n - 1
      BY <1>1, <2>1
    <3> QED BY <1>5, <2>1, <3>1
  <2>3. SeenBefore(d, Reached) <=> SeenBefore(d, before)
    <3>1. \A x \in DOMAIN tree : x < d => x <= d
      BY <1>1, <2>1
    <3>2. before \subseteq DOMAIN tree
      BY <1>2, <2>1
    <3> HIDE DEF d, before
    <3> QED BY <1>6, <2>2, <3>1, <3>2 DEF SeenBefore
  <2>4. d \in Reached <=> d \in before
    <3>1. d <= d /\ d \in DOMAIN tree
      BY <1>1, <2>1
    <3> QED BY <2>2, <3>1
  <2>5. Lists(d, Reached) <=> Lists(d, before)
    <3> HIDE DEF d, before
    <3> QED BY <2>3, <2>4 DEF Lists, Enumerated
  <2> QED BY <1>7, <2>1, <2>5
<1>9. 1 \in Reached
  <2>1. 1 \in 1 .. L
    BY <1>1
  <2> QED BY <1>7, <2>1
<1>10. Explicit => Reached = {1}
  <2> SUFFICES ASSUME Explicit, Reached # {1} PROVE FALSE
    OBVIOUS
  <2> DEFINE Rest == Reached \ {1}
             n == Min(Rest)
  <2>1. Rest \in SUBSET Nat /\ Rest # {}
    BY <1>1, <1>6, <1>9
  <2>2. n \in Rest /\ \A y \in Rest : n <= y
    <3> HIDE DEF Rest
    <3> QED BY <2>1, LeastNumber
  <2> HIDE DEF n
  <2>3. n \in DOMAIN tree \ {1} /\ n \in Reached
    BY <1>6, <2>2
  <2>4. tree[n].up \in Reached /\ tree[tree[n].up].kind = "dir"
    BY <1>8, <2>3 DEF Lists, Enumerated
  <2>5. tree[n].up \in 1 .. n - 1
    BY TreeFacts, <2>3
  <2>6. tree[n].up = 1
    <3>1. ~ (n <= tree[n].up)
      BY <1>1, <2>3, <2>5
    <3> QED BY <2>2, <2>4, <3>1
  <2> QED BY <2>4, <2>6 DEF Explicit
<1>11. IsFiniteSet(Reached)
  <2>1. IsFiniteSet(1 .. L)
    BY <1>1, FS_Interval
  <2> QED BY <1>1, <1>6, <2>1, FS_Subset
<1> QED BY <1>6, <1>8, <1>9, <1>10, <1>11

-------------------------------------------------------------------------------
(* Sets of numbers in ascending order                                      *)

Climbs(q) == \A i, j \in DOMAIN q : i < j => q[i] < q[j]

LEMMA ClimbingOnto ==
  ASSUME NEW K, K \subseteq Nat, IsFiniteSet(K), NEW p \in [1 .. Cardinality(K) -> K], Climbs(p)
  PROVE  \A x \in K : \E j \in 1 .. Cardinality(K) : p[j] = x
<1> DEFINE n == Cardinality(K)
<1>1. n \in Nat
  BY FS_CardinalityType
<1>2. IsFiniteSet(1 .. n) /\ Cardinality(1 .. n) = n
  <2> HIDE DEF n
  <2>1. 1 > n => n = 0
    BY <1>1
  <2>2. 1 \in Int /\ n \in Int
    BY <1>1
  <2>3. IsFiniteSet(1 .. n) /\ Cardinality(1 .. n) = IF 1 > n THEN 0 ELSE n - 1 + 1
    BY <2>2, FS_Interval
  <2> QED BY <1>1, <2>1, <2>3
<1>3. p \in Injection(1 .. n, K)
  <2>1. ASSUME NEW a \in 1 .. n, NEW b \in 1 .. n, p[a] = p[b] PROVE a = b
    <3>1. p[a] \in Nat
      OBVIOUS
    <3>2. ~ (a < b) /\ ~ (b < a)
      <4> HIDE DEF n
      <4> QED BY <2>1, <3>1 DEF Climbs, n
    <3> QED BY <1>1, <3>2
  <2> QED BY <2>1 DEF Injection, IsInjective
<1>4. p \in Surjection(1 .. n, K)
  <2> HIDE DEF n
  <2>1. Cardinality(1 .. n) = Cardinality(K)
    BY <1>2 DEF n
  <2> QED BY <1>2, <1>3, <2>1, FS_Injection
<1> QED BY <1>4 DEF Surjection

LEMMA ClimbingAgree ==
  ASSUME NEW K, K \subseteq Nat, IsFiniteSet(K), NEW p \in [1 .. Cardinality(K) -> K],
         NEW q \in [1 .. Cardinality(K) -> K], Climbs(p), Climbs(q)
  PROVE  p = q
<1> DEFINE n == Cardinality(K)
<1>1. n \in Nat
  BY FS_CardinalityType
<1>2. /\ \A x \in K : \E j \in 1 .. n : p[j] = x
      /\ \A x \in K : \E j \in 1 .. n : q[j] = x
  BY ClimbingOnto
<1>3. /\ DOMAIN p = 1 .. n /\ DOMAIN q = 1 .. n
      /\ \A j \in 1 .. n : p[j] \in Nat /\ q[j] \in Nat /\ p[j] \in K /\ q[j] \in K
  OBVIOUS
<1> HIDE DEF n
<1> DEFINE Bad == {k \in 1 .. n : p[k] # q[k]}
<1>4. Bad = {}
  <2> SUFFICES ASSUME Bad # {} PROVE FALSE
    OBVIOUS
  <2>1. Min(Bad) \in Bad /\ \A y \in Bad : Min(Bad) <= y
    <3>1. Bad \in SUBSET Nat
      BY <1>1
    <3> HIDE DEF Bad
    <3> QED BY <3>1, LeastNumber
  <2> DEFINE k == Min(Bad)
  <2>2. k \in 1 .. n /\ p[k] # q[k]
    BY <2>1
  <2>3. \A j \in 1 .. n : j < k => p[j] = q[j]
    <3> TAKE j \in 1 .. n
    <3>1. j < k => ~ (k <= j)
      BY <2>2
    <3> QED BY <2>1, <3>1
  <2> HIDE DEF k, Bad
  <2>4. ~ (p[k] < q[k])
    <3> SUFFICES ASSUME p[k] < q[k] PROVE FALSE
      OBVIOUS
    <3>1. PICK j \in 1 .. n : q[j] = p[k]
      BY <1>2, <1>3, <2>2
    <3>2. j < k
      <4>1. j = k \/ k < j \/ j < k
        BY <2>2
      <4>2. ~ (q[k] < q[j]) /\ j # k
        BY <1>3, <2>2, <3>1
      <4> QED BY <1>3, <2>2, <4>1, <4>2 DEF Climbs
    <3>3. p[j] = p[k] /\ p[j] < p[k]
      BY <1>3, <2>2, <2>3, <3>1, <3>2 DEF Climbs
    <3> QED BY <1>3, <2>2, <3>3
  <2>5. ~ (q[k] < p[k])
    <3> SUFFICES ASSUME q[k] < p[k] PROVE FALSE
      OBVIOUS
    <3>1. PICK j \in 1 .. n : p[j] = q[k]
      BY <1>2, <1>3, <2>2
    <3>2. j < k
      <4>1. j = k \/ k < j \/ j < k
        BY <2>2
      <4>2. ~ (p[k] < p[j]) /\ j # k
        BY <1>3, <2>2, <3>1
      <4> QED BY <1>3, <2>2, <4>1, <4>2 DEF Climbs
    <3>3. q[j] = q[k] /\ q[j] < q[k]
      BY <1>3, <2>2, <2>3, <3>1, <3>2 DEF Climbs
    <3> QED BY <1>3, <2>2, <3>3
  <2> QED BY <1>3, <2>2, <2>4, <2>5
<1>5. \A j \in 1 .. n : p[j] = q[j]
  BY <1>4
<1>6. p = [j \in 1 .. n |-> p[j]] /\ q = [j \in 1 .. n |-> q[j]]
  BY DEF n
<1> QED BY <1>5, <1>6

LEMMA ClimbingExists ==
  ASSUME NEW S, S \subseteq Nat, IsFiniteSet(S)
  PROVE  \E q \in [1 .. Cardinality(S) -> S] : Climbs(q)
<1> DEFINE Enumerates(K) == \E q \in [1 .. Cardinality(K) -> K] : Climbs(q)
           T == {n \in 0 .. Cardinality(S) : \A K \in SUBSET S : Cardinality(K) = n => Enumerates(K)}
           N == Cardinality(S)
<1>1. N \in Nat
  BY FS_CardinalityType
<1>2. \A K \in SUBSET S : IsFiniteSet(K) /\ K \subseteq Nat /\ Cardinality(K) \in Nat
  BY FS_Subset, FS_CardinalityType
<1>3. 0 \in T
  <2> SUFFICES ASSUME NEW K \in SUBSET S, Cardinality(K) = 0 PROVE Enumerates(K)
    BY <1>1
  <2>1. << >> \in [1 .. 0 -> K] /\ Climbs(<< >>)
    BY DEF Climbs
  <2> QED BY <2>1
<1>4. ASSUME NEW n \in 0 + 1 .. N, n - 1 \in T PROVE n \in T
  <2>1. n \in 1 .. N /\ n \in 0 .. N
    BY <1>1
  <2> SUFFICES ASSUME NEW K \in SUBSET S, Cardinality(K) = n PROVE Enumerates(K)
    BY <2>1
  <2> DEFINE m == Min(K)
             Rest == K \ {m}
  <2>2. K # {}
    BY <2>1, FS_EmptySet
  <2>3. m \in K /\ m \in Nat /\ \A y \in K : m <= y
    <3>1. K \in SUBSET Nat
      BY <1>2
    <3> QED BY <2>2, <3>1, LeastNumber
  <2> HIDE DEF m
  <2>4. Rest \in SUBSET S /\ Cardinality(Rest) = n - 1
    BY <1>2, <2>3, FS_RemoveElement
  <2>5. PICK q \in [1 .. n - 1 -> Rest] : Climbs(q)
    BY <1>4, <2>4
  <2> DEFINE p == [i \in 1 .. n |-> IF i = 1 THEN m ELSE q[i - 1]]
  <2>6. \A i \in 1 .. n : i # 1 => i - 1 \in 1 .. n - 1 /\ q[i - 1] \in Rest
    BY <2>1, <2>5
  <2>7. p \in [1 .. n -> K]
    BY <2>3, <2>6
  <2>8. Climbs(p)
    <3> SUFFICES ASSUME NEW i \in 1 .. n, NEW j \in 1 .. n, i < j PROVE p[i] < p[j]
      BY DEF Climbs
    <3>1. j # 1
      BY <2>1
    <3>2. CASE i = 1
      <4>1. q[j - 1] \in K /\ q[j - 1] # m /\ p[i] = m /\ p[j] = q[j - 1]
        BY <2>6, <3>1, <3>2
      <4>2. m <= q[j - 1] /\ q[j - 1] \in Nat
        BY <1>2, <2>3, <4>1
      <4> HIDE DEF p
      <4> QED BY <2>3, <4>1, <4>2
    <3>3. CASE i # 1
      <4>1. i - 1 \in 1 .. n - 1 /\ j - 1 \in 1 .. n - 1 /\ i - 1 < j - 1
        BY <2>1, <2>6, <3>1, <3>3
      <4>2. q[i - 1] < q[j - 1]
        BY <2>5, <4>1 DEF Climbs
      <4> QED BY <3>1, <3>3, <4>2
    <3> QED BY <3>2, <3>3
  <2> QED BY <2>7, <2>8
<1> HIDE DEF T, Enumerates
<1>5. \A n \in 0 .. N : n \in T
  BY <1>1, <1>3, <1>4, Upward
<1>6. N \in 0 .. N
  BY <1>1
<1> QED BY <1>5, <1>6 DEF T, Enumerates

LEMMA AscendingFacts ==
  ASSUME NEW K, K \subseteq Nat, IsFiniteSet(K)
  PROVE  Ascending(K) \in Seq(K) /\ Len(Ascending(K)) = Cardinality(K) /\ Climbs(Ascending(K))
<1>1. Cardinality(K) \in Nat
  BY FS_CardinalityType
<1>2. PICK q \in [1 .. Cardinality(K) -> K] : Climbs(q)
  BY ClimbingExists
<1>3. Ascending(K) \in [1 .. Cardinality(K) -> K] /\ Climbs(Ascending(K))
  BY <1>2 DEF Ascending, Climbs
<1> QED BY <1>1, <1>3

(* What is in order already stays as it is.                                *)
LEMMA AscendingSame ==
  ASSUME NEW q \in Seq(Nat), Climbs(q)
  PROVE  /\ ToSet(q) \subseteq Nat /\ IsFiniteSet(ToSet(q)) /\ Cardinality(ToSet(q)) = Len(q)
         /\ Ascending(ToSet(q)) = q
<1> DEFINE n == Len(q)
           K == ToSet(q)
<1>1. n \in Nat /\ DOMAIN q = 1 .. n /\ \A i \in 1 .. n : q[i] \in Nat
  OBVIOUS
<1>2. K = {q[i] : i \in 1 .. n}
  BY <1>1 DEF ToSet
<1>3. IsFiniteSet(1 .. n) /\ Cardinality(1 .. n) = n
  <2> HIDE DEF n
  <2>1. 1 > n => n = 0
    BY <1>1
  <2>2. 1 \in Int /\ n \in Int
    BY <1>1
  <2>3. IsFiniteSet(1 .. n) /\ Cardinality(1 .. n) = IF 1 > n THEN 0 ELSE n - 1 + 1
    BY <2>2, FS_Interval
  <2> QED BY <1>1, <2>1, <2>3
<1> HIDE DEF n, K
<1>4. q \in [1 .. n -> K] /\ K \subseteq Nat
  <2>1. q = [i \in DOMAIN q |-> q[i]]
    BY DEF n
  <2> QED BY <1>1, <1>2, <2>1
<1>5. q \in Surjection(1 .. n, K) /\ q \in Injection(1 .. n, K)
  <2>1. ASSUME NEW a \in 1 .. n, NEW b \in 1 .. n, q[a] = q[b] PROVE a = b
    <3>1. q[a] \in Nat
      BY <1>1
    <3>2. ~ (a < b) /\ ~ (b < a)
      BY <1>1, <2>1, <3>1 DEF Climbs
    <3> QED BY <1>1, <3>2
  <2>2. \A x \in K : \E i \in 1 .. n : q[i] = x
    BY <1>2
  <2> QED BY <1>4, <2>1, <2>2 DEF Injection, IsInjective, Surjection
<1>6. IsFiniteSet(K) /\ Cardinality(K) = n
  BY <1>3, <1>5, FS_Surjection
<1>7. Ascending(K) \in [1 .. n -> K] /\ Climbs(Ascending(K))
  BY <1>4, <1>6 DEF Ascending, Climbs
<1>8. Ascending(K) = q
  BY <1>4, <1>6, <1>7, ClimbingAgree
<1> QED BY <1>4, <1>6, <1>8 DEF n, K

-------------------------------------------------------------------------------
(* Rows                                                                    *)

LEMMA RowFacts ==
  ASSUME NEW e \in Nat, NEW keys \in Seq(Nat)
  PROVE  /\ Rows(e, keys) \in Seq(RowSet) /\ Len(Rows(e, keys)) = Len(keys)
         /\ Rows(e, keys) = <<>> <=> keys = <<>>
         /\ { row.key : row \in ToSet(Rows(e, keys)) } = ToSet(keys)
<1> DEFINE n == Len(keys)
           q == Rows(e, keys)
<1>1. n \in Nat /\ DOMAIN keys = 1 .. n /\ \A i \in 1 .. n : keys[i] \in Nat
  OBVIOUS
<1>2. q = [i \in 1 .. n |-> Row(e, keys[i])]
  BY <1>1 DEF Rows
<1>3. \A i \in 1 .. n : Row(e, keys[i]) \in RowSet /\ Row(e, keys[i]).key = keys[i]
  BY <1>1 DEF Row, RowSet
<1> HIDE DEF n, q
<1>4. q \in [1 .. n -> RowSet]
  BY <1>2, <1>3
<1>5. q \in Seq(RowSet) /\ Len(q) = n
  BY <1>1, <1>4
<1>6. ToSet(q) = {Row(e, keys[i]) : i \in 1 .. n}
  BY <1>2 DEF ToSet
<1>7. { row.key : row \in ToSet(q) } = ToSet(keys)
  <2>1. ToSet(keys) = {keys[i] : i \in 1 .. n}
    BY <1>1 DEF ToSet
  <2>2. \A row \in ToSet(q) : row.key \in ToSet(keys)
    BY <1>3, <1>6, <2>1
  <2>3. \A k \in ToSet(keys) : \E row \in ToSet(q) : row.key = k
    BY <1>3, <1>6, <2>1
  <2> QED BY <2>2, <2>3
<1>8. q = <<>> <=> keys = <<>>
  <2>1. q = <<>> <=> n = 0
    BY <1>5
  <2>2. keys = <<>> <=> n = 0
    BY DEF n
  <2> QED BY <2>1, <2>2
<1> QED BY <1>5, <1>7, <1>8 DEF n, q

LEMMA KeysFacts ==
  ASSUME NEW keys \in Seq(Nat)
  PROVE  ToSet(keys) \subseteq Nat /\ IsFiniteSet(ToSet(keys)) /\ Cardinality(ToSet(keys)) <= Len(keys)
<1> DEFINE n == Len(keys)
<1>1. n \in Nat /\ DOMAIN keys = 1 .. n /\ \A i \in 1 .. n : keys[i] \in Nat
  OBVIOUS
<1>2. IsFiniteSet(1 .. n) /\ Cardinality(1 .. n) = n
  <2> HIDE DEF n
  <2>1. 1 > n => n = 0
    BY <1>1
  <2>2. 1 \in Int /\ n \in Int
    BY <1>1
  <2>3. IsFiniteSet(1 .. n) /\ Cardinality(1 .. n) = IF 1 > n THEN 0 ELSE n - 1 + 1
    BY <2>2, FS_Interval
  <2> QED BY <1>1, <2>1, <2>3
<1>3. keys \in Surjection(1 .. n, ToSet(keys))
  <2>1. ToSet(keys) = {keys[i] : i \in 1 .. n}
    BY <1>1 DEF ToSet
  <2>2. keys = [i \in 1 .. n |-> keys[i]]
    OBVIOUS
  <2> HIDE DEF n
  <2>3. keys \in [1 .. n -> ToSet(keys)]
    BY <2>1, <2>2
  <2> QED BY <2>1, <2>3 DEF Surjection
<1>4. IsFiniteSet(ToSet(keys)) /\ Cardinality(ToSet(keys)) <= n
  <2> HIDE DEF n
  <2> QED BY <1>2, <1>3, FS_Surjection
<1> QED BY <1>1, <1>4 DEF ToSet

LEMMA DistinctFacts ==
  ASSUME NEW e \in Nat, NEW keys \in Seq(Nat)
  PROVE  /\ Distinct(e, Rows(e, keys)) = Rows(e, Ascending(ToSet(keys)))
         /\ Distinct(e, Rows(e, keys)) \in Seq(RowSet)
         /\ Len(Distinct(e, Rows(e, keys))) <= Len(keys)
         /\ Climbs(keys) => Distinct(e, Rows(e, keys)) = Rows(e, keys)
<1> DEFINE K == ToSet(keys)
           up == Ascending(K)
<1>1. Distinct(e, Rows(e, keys)) = Rows(e, up)
  BY RowFacts DEF Distinct
<1>2. K \subseteq Nat /\ IsFiniteSet(K) /\ Cardinality(K) <= Len(keys)
  BY KeysFacts
<1>3. up \in Seq(Nat) /\ Len(up) <= Len(keys)
  <2> HIDE DEF K
  <2>1. up \in Seq(K) /\ Len(up) = Cardinality(K)
    BY <1>2, AscendingFacts
  <2> HIDE DEF up
  <2>2. up \in Seq(Nat)
    <3>1. \A i \in 1 .. Len(up) : up[i] \in Nat
      BY <1>2, <2>1, ElementOfSeq
    <3> QED BY <2>1, <3>1
  <2> QED BY <1>2, <2>1, <2>2
<1>4. Climbs(keys) => up = keys
  BY AscendingSame
<1> HIDE DEF up
<1>5. Rows(e, up) \in Seq(RowSet) /\ Len(Rows(e, up)) = Len(up)
  BY <1>3, RowFacts
<1> QED BY <1>1, <1>3, <1>4, <1>5 DEF up

LEMMA RowsOfType ==
  ASSUME AskInv, NEW e \in DOMAIN tree
  PROVE  RowsOf(e) \in Seq(RowSet)
<1>1. e \in Nat /\ tree[e].hits \in Seq(Nat) /\ tree[e].names \in Seq(Nat)
  BY EntryFacts
<1>2. <<Row(e, 0)>> \in Seq(RowSet) /\ <<>> \in Seq(RowSet)
  BY <1>1 DEF Row, RowSet
<1>3. Rows(e, tree[e].hits) \in Seq(RowSet)
  BY <1>1, RowFacts
<1>4. Rows(e, Ascending(ToSet(tree[e].names))) \in Seq(RowSet)
  BY <1>1, DistinctFacts
<1>5. ask.mode \in Modes
  BY TreeFacts
<1> QED BY <1>2, <1>3, <1>4, <1>5 DEF RowsOf, Modes

LEMMA DeliveredFacts ==
  ASSUME AskInv, NEW cut, NEW n \in 1 .. Whole
  PROVE  /\ Delivered(cut, n) \in Seq(RowSet)
         /\ n = 1 => Delivered(cut, n) = <<>>
         /\ n \in DOMAIN tree => /\ Delivered(cut, n + 1) = Delivered(cut, n) \o RowPart(cut, n)
                                 /\ RowPart(cut, n) \in Seq(RowSet)
         /\ Delivered(cut, Whole) = RowsBut(Reached, cut)
         /\ \E t \in Seq(RowSet) : RowsBut(Reached, cut) = Delivered(cut, n) \o t
<1> DEFINE L == Len(tree)
           seqs == RowParts(cut)
<1>1. L \in Nat \ {0} /\ DOMAIN tree = 1 .. L
  BY TreeFacts
<1> HIDE DEF L
<1>2. \A e \in 1 .. L : RowPart(cut, e) \in Seq(RowSet) /\ seqs[e] = RowPart(cut, e)
  <2> TAKE e \in 1 .. L
  <2>1. RowsOf(e) \in Seq(RowSet) /\ <<>> \in Seq(RowSet)
    BY <1>1, RowsOfType
  <2> QED BY <1>1, <2>1 DEF RowPart, RowParts
<1>3. seqs \in Seq(Seq(RowSet)) /\ Len(seqs) = L
  <2>1. seqs \in [1 .. L -> Seq(RowSet)]
    BY <1>1, <1>2 DEF RowParts
  <2> HIDE DEF seqs
  <2> QED BY <1>1, <2>1
<1>4. FlattenSeq(seqs) = RowsBut(Reached, cut)
  BY DEF RowParts, RowPart, RowsBut
<1>5. Whole = L + 1 /\ n \in 1 .. L + 1 /\ Whole \in 1 .. L + 1
  BY <1>1 DEF Whole, L
<1> HIDE DEF seqs
<1>6. /\ FlattenSeq(UpTo(seqs, n)) \in Seq(RowSet)
      /\ n = 1 => FlattenSeq(UpTo(seqs, n)) = <<>>
      /\ n <= L => FlattenSeq(UpTo(seqs, n + 1)) = FlattenSeq(UpTo(seqs, n)) \o seqs[n]
      /\ \E t \in Seq(RowSet) : FlattenSeq(seqs) = FlattenSeq(UpTo(seqs, n)) \o t
  BY <1>3, <1>5, FlattenMore
<1>7. FlattenSeq(UpTo(seqs, Whole)) = FlattenSeq(seqs)
  BY <1>3, <1>5, FlattenMore
<1>8. \A m : Delivered(cut, m) = FlattenSeq(UpTo(seqs, m))
  BY DEF Delivered, seqs
<1>9. n \in DOMAIN tree => n <= L /\ seqs[n] = RowPart(cut, n) /\ RowPart(cut, n) \in Seq(RowSet)
  BY <1>1, <1>2
<1> QED BY <1>4, <1>6, <1>7, <1>8, <1>9

(* What a scan has delivered does not depend on what it leaves out later,  *)
(* nor on ranks that are not reached.                                      *)
LEMMA DeliveredSame ==
  ASSUME AskInv, NEW cut, NEW other, NEW n \in 1 .. Whole, NEW m \in 1 .. Whole,
         Earlier(n) = Earlier(m), \A x \in Earlier(n) : x \in cut <=> x \in other
  PROVE  Delivered(cut, n) = Delivered(other, m)
<1>1. \A x \in DOMAIN tree : (IF x < n THEN RowPart(cut, x) ELSE <<>>)
                           = (IF x < m THEN RowPart(other, x) ELSE <<>>)
  <2> TAKE x \in DOMAIN tree
  <2>1. CASE x \in Reached
    <3>1. (x \in Earlier(n) <=> x < n) /\ (x \in Earlier(m) <=> x < m)
      BY <2>1 DEF Earlier
    <3> QED BY <3>1 DEF RowPart
  <2>2. CASE x \notin Reached
    BY <2>2 DEF RowPart
  <2> QED BY <2>1, <2>2
<1>2. UpTo(RowParts(cut), n) = UpTo(RowParts(other), m)
  BY <1>1 DEF UpTo, RowParts
<1> QED BY <1>2 DEF Delivered

-------------------------------------------------------------------------------
(* The entries before n                                                    *)

LEMMA EarlierFacts ==
  ASSUME AskInv
  PROVE  /\ \A n : Earlier(n) \subseteq Reached /\ IsFiniteSet(Earlier(n))
         /\ Earlier(1) = {} /\ Earlier(Whole) = Reached
         /\ \A e \in Reached : /\ Earlier(e + 1) = Earlier(e) \cup {e} /\ e \notin Earlier(e)
                               /\ e \in 1 .. Whole /\ e + 1 \in 2 .. Whole
<1>1. Len(tree) \in Nat \ {0} /\ DOMAIN tree = 1 .. Len(tree)
  BY TreeFacts
<1>2. Reached \subseteq DOMAIN tree /\ IsFiniteSet(Reached)
  BY ReachedFacts
<1>3. ASSUME NEW n PROVE Earlier(n) \subseteq Reached /\ IsFiniteSet(Earlier(n))
  <2>1. Earlier(n) \subseteq Reached
    BY DEF Earlier
  <2> QED BY <1>2, <2>1, FS_Subset
<1>4. Earlier(1) = {} /\ Earlier(Whole) = Reached
  BY <1>1, <1>2 DEF Earlier, Whole
<1>5. ASSUME NEW e \in Reached
      PROVE  /\ Earlier(e + 1) = Earlier(e) \cup {e} /\ e \notin Earlier(e)
             /\ e \in 1 .. Whole /\ e + 1 \in 2 .. Whole
  BY <1>1, <1>2 DEF Earlier, Whole
<1> QED BY <1>3, <1>4, <1>5

Ahead(n) == { c \in Reached : n <= c /\ tree[c].up < n }

LEMMA AheadFacts ==
  ASSUME AskInv, NEW n \in 2 .. Whole
  PROVE  /\ Ahead(n) = {} => Earlier(n) = Reached
         /\ Ahead(n) # {} =>
              LET e == Min(Ahead(n))
              IN  /\ e \in Ahead(n) /\ Earlier(e) = Earlier(n)
                  /\ Ahead(n) \ {e} = { c \in Reached : e < c /\ tree[c].up < e }
<1> DEFINE G == { x \in Reached : n <= x }
<1>1. Len(tree) \in Nat /\ n \in Nat /\ 2 <= n /\ Reached \subseteq 1 .. Len(tree) /\ Reached \subseteq Nat
  <2>1. Len(tree) \in Nat \ {0} /\ DOMAIN tree = 1 .. Len(tree)
    BY TreeFacts
  <2>2. Reached \subseteq DOMAIN tree
    BY ReachedFacts
  <2> QED BY <2>1, <2>2 DEF Whole
<1>2. \A x \in Reached : x # 1 => tree[x].up \in Reached /\ tree[x].up \in 1 .. x - 1
  <2> TAKE x \in Reached
  <2>1. x # 1 => x \in DOMAIN tree \ {1}
    BY ReachedFacts
  <2>2. x # 1 => Lists(tree[x].up, Reached) /\ tree[x].up \in 1 .. x - 1
    BY <2>1, ReachedFacts, TreeFacts
  <2> QED BY <2>2 DEF Lists, Enumerated
<1>3. ASSUME G # {}
      PROVE  Min(G) \in Ahead(n) /\ \A y \in G : Min(G) <= y
  <2>1. Min(G) \in G /\ \A y \in G : Min(G) <= y
    <3>1. G \in SUBSET Nat
      BY <1>1
    <3> HIDE DEF G
    <3> QED BY <1>3, <3>1, LeastNumber
  <2> DEFINE g == Min(G)
  <2>3. g \in G /\ \A y \in G : g <= y
    BY <2>1
  <2> HIDE DEF g
  <2>2. g \in Reached /\ n <= g /\ g \in Nat /\ g # 1
    BY <1>1, <2>3
  <2>4. tree[g].up \in Reached /\ tree[g].up \in 1 .. g - 1
    BY <1>2, <2>2
  <2>5. tree[g].up < n
    <3>1. ~ (g <= tree[g].up)
      BY <2>2, <2>4
    <3> QED BY <1>1, <2>3, <2>4, <3>1
  <2>6. g \in Ahead(n)
    BY <2>2, <2>5 DEF Ahead
  <2> QED BY <2>3, <2>6 DEF g
<1>4. Ahead(n) = {} => Earlier(n) = Reached
  <2> SUFFICES ASSUME Ahead(n) = {} PROVE Earlier(n) = Reached
    OBVIOUS
  <2>1. G = {}
    BY <1>3
  <2>2. \A x \in Reached : ~ (n <= x) /\ x \in Nat
    BY <1>1, <2>1
  <2>3. \A x \in Reached : x < n
    BY <1>1, <2>2
  <2> QED BY <2>3 DEF Earlier
<1>5. ASSUME Ahead(n) # {}
      PROVE  LET e == Min(Ahead(n))
             IN  /\ e \in Ahead(n) /\ Earlier(e) = Earlier(n)
                 /\ Ahead(n) \ {e} = { c \in Reached : e < c /\ tree[c].up < e }
  <2> DEFINE e == Min(Ahead(n))
  <2>1. Ahead(n) \subseteq G
    BY DEF Ahead
  <2>2. Ahead(n) \in SUBSET Nat
    BY <1>1, <2>1
  <2>3. e \in Ahead(n) /\ \A y \in Ahead(n) : e <= y
    BY <1>5, <2>2, LeastNumber
  <2>4. \A y \in G : e <= y
    <3>1. Min(G) \in Ahead(n) /\ \A y \in G : Min(G) <= y
      BY <1>3, <1>5, <2>1
    <3>2. e <= Min(G) /\ Min(G) \in Nat /\ e \in Nat /\ G \subseteq Nat
      BY <1>1, <2>2, <2>3, <3>1
    <3> HIDE DEF e, G
    <3> QED BY <3>1, <3>2
  <2> HIDE DEF e
  <2>5. e \in Reached /\ n <= e /\ e \in Nat
    BY <1>1, <2>3 DEF Ahead
  <2>6. \A x \in Reached : x \in Nat /\ (x < e <=> x < n)
    <3> TAKE x \in Reached
    <3>1. x \in Nat
      BY <1>1
    <3>2. n <= x => e <= x
      BY <2>4
    <3> QED BY <1>1, <2>5, <3>1, <3>2
  <2>7. Earlier(e) = Earlier(n)
    BY <2>6 DEF Earlier
  <2>8. ASSUME NEW c \in Reached
        PROVE  c \in Ahead(n) /\ c # e <=> e < c /\ tree[c].up < e
    <3>1. c \in Nat
      BY <1>1
    <3>2. CASE c = 1
      BY <1>1, <2>5, <3>2 DEF Ahead
    <3>3. CASE c # 1
      <4>1. tree[c].up < e <=> tree[c].up < n
        BY <1>2, <2>6, <3>3
      <4>2. c \in Ahead(n) => e <= c
        BY <2>3
      <4> QED BY <1>1, <2>5, <3>1, <4>1, <4>2 DEF Ahead
    <3> QED BY <3>2, <3>3
  <2>9. Ahead(n) \ {e} = { c \in Reached : e < c /\ tree[c].up < e }
    <3>1. Ahead(n) \subseteq Reached
      BY DEF Ahead
    <3> QED BY <2>8, <3>1
  <2> QED BY <2>3, <2>7, <2>9 DEF e
<1> QED BY <1>4, <1>5

LEMMA CountFacts ==
  ASSUME AskInv, NEW cut, NEW n, NEW c
  PROVE  /\ Count(cut, n, c) \in Nat
         /\ IsFiniteSet({ e \in Earlier(n) : Reason(e, Reached, cut) = c })
         /\ IsFiniteSet(UNION { Reported(d, c) : d \in Enumerated(Reached) \cap Earlier(n) })
<1>1. IsFiniteSet(Earlier(n))
  BY EarlierFacts
<1>2. IsFiniteSet({ e \in Earlier(n) : Reason(e, Reached, cut) = c })
  <2>1. { e \in Earlier(n) : Reason(e, Reached, cut) = c } \in SUBSET Earlier(n)
    OBVIOUS
  <2> QED BY <1>1, <2>1, FS_Subset
<1>3. IsFiniteSet(DOMAIN tree)
  <2>1. Len(tree) \in Nat /\ DOMAIN tree = 1 .. Len(tree)
    BY TreeFacts
  <2> QED BY <2>1, FS_Interval
<1>4. IsFiniteSet(UNION { Reported(d, c) : d \in Enumerated(Reached) \cap Earlier(n) })
  <2>1. UNION { Reported(d, c) : d \in Enumerated(Reached) \cap Earlier(n) } \in SUBSET DOMAIN tree
    BY DEF Reported, Children
  <2> QED BY <1>3, <2>1, FS_Subset
<1> QED BY <1>2, <1>4, FS_CardinalityType DEF Count

LEMMA CountSame ==
  ASSUME NEW cut, NEW other, NEW n, NEW m, NEW c,
         Earlier(n) = Earlier(m), \A x \in Earlier(n) : x \in cut <=> x \in other
  PROVE  Count(cut, n, c) = Count(other, m, c)
<1>1. \A x \in Earlier(n) : Reason(x, Reached, cut) = Reason(x, Reached, other)
  BY DEF Reason
<1>2. { e \in Earlier(n) : Reason(e, Reached, cut) = c } = { e \in Earlier(m) : Reason(e, Reached, other) = c }
  BY <1>1
<1> QED BY <1>2 DEF Count

LEMMA ReportedFacts ==
  ASSUME AskInv, NEW e, NEW c
  PROVE  IsFiniteSet(Reported(e, c)) /\ Cardinality(Reported(e, c)) \in Nat
<1>1. IsFiniteSet(DOMAIN tree)
  <2>1. Len(tree) \in Nat /\ DOMAIN tree = 1 .. Len(tree)
    BY TreeFacts
  <2> QED BY <2>1, FS_Interval
<1>2. Reported(e, c) \in SUBSET DOMAIN tree
  BY DEF Reported, Children
<1> QED BY <1>1, <1>2, FS_Subset, FS_CardinalityType

LEMMA CountStep ==
  ASSUME AskInv, NEW cut, NEW e \in Reached, NEW c
  PROVE  Count(cut, e + 1, c) =
           Count(cut, e, c) + (IF Reason(e, Reached, cut) = c THEN 1 ELSE 0)
             + (IF e \in Enumerated(Reached) THEN Cardinality(Reported(e, c)) ELSE 0)
<1> DEFINE A(n) == { x \in Earlier(n) : Reason(x, Reached, cut) = c }
           B(n) == UNION { Reported(d, c) : d \in Enumerated(Reached) \cap Earlier(n) }
<1>1. Earlier(e + 1) = Earlier(e) \cup {e} /\ e \notin Earlier(e)
  BY EarlierFacts
<1>2. IsFiniteSet(A(e)) /\ IsFiniteSet(B(e)) /\ Cardinality(A(e)) \in Nat /\ Cardinality(B(e)) \in Nat
  BY CountFacts, FS_CardinalityType
<1>3. Cardinality(A(e + 1)) = Cardinality(A(e)) + (IF Reason(e, Reached, cut) = c THEN 1 ELSE 0)
  <2>1. CASE Reason(e, Reached, cut) = c
    <3>1. A(e + 1) = A(e) \cup {e} /\ e \notin A(e)
      BY <1>1, <2>1
    <3> HIDE DEF A
    <3> QED BY <1>2, <2>1, <3>1, FS_AddElement
  <2>2. CASE Reason(e, Reached, cut) # c
    <3>1. A(e + 1) = A(e)
      BY <1>1, <2>2
    <3> HIDE DEF A
    <3> QED BY <1>2, <2>2, <3>1
  <2> QED BY <2>1, <2>2
<1>4. Cardinality(B(e + 1)) =
        Cardinality(B(e)) + (IF e \in Enumerated(Reached) THEN Cardinality(Reported(e, c)) ELSE 0)
  <2>1. CASE e \in Enumerated(Reached)
    <3>1. B(e + 1) = B(e) \cup Reported(e, c)
      BY <1>1, <2>1
    <3>2. B(e) \cap Reported(e, c) = {}
      BY <1>1 DEF Reported, Children
    <3>3. IsFiniteSet(Reported(e, c)) /\ Cardinality(Reported(e, c)) \in Nat
      BY ReportedFacts
    <3> HIDE DEF B
    <3>4. Cardinality(B(e) \cup Reported(e, c))
            = Cardinality(B(e)) + Cardinality(Reported(e, c))
      <4>1. Cardinality(B(e) \cup Reported(e, c))
              = Cardinality(B(e)) + Cardinality(Reported(e, c)) - Cardinality(B(e) \cap Reported(e, c))
        BY <1>2, <3>3, FS_Union
      <4>2. Cardinality(B(e) \cap Reported(e, c)) = 0
        BY <3>2, FS_EmptySet
      <4> QED BY <1>2, <3>3, <4>1, <4>2
    <3> QED BY <2>1, <3>1, <3>4
  <2>2. CASE e \notin Enumerated(Reached)
    <3>1. B(e + 1) = B(e)
      BY <1>1, <2>2
    <3> HIDE DEF B
    <3> QED BY <1>2, <2>2, <3>1
  <2> QED BY <2>1, <2>2
<1>5. (IF Reason(e, Reached, cut) = c THEN 1 ELSE 0) \in Nat
      /\ (IF e \in Enumerated(Reached) THEN Cardinality(Reported(e, c)) ELSE 0) \in Nat
  BY ReportedFacts
<1>6. Count(cut, e + 1, c) = Cardinality(A(e + 1)) + Cardinality(B(e + 1))
      /\ Count(cut, e, c) = Cardinality(A(e)) + Cardinality(B(e))
  BY DEF Count
<1> HIDE DEF A, B
<1> DEFINE x == IF Reason(e, Reached, cut) = c THEN 1 ELSE 0
           y == IF e \in Enumerated(Reached) THEN Cardinality(Reported(e, c)) ELSE 0
<1>7. x \in Nat /\ y \in Nat
  BY <1>5
<1>8. Count(cut, e + 1, c) = (Cardinality(A(e)) + x) + (Cardinality(B(e)) + y)
  BY <1>3, <1>4, <1>6
<1> HIDE DEF x, y
<1>9. Count(cut, e + 1, c) = Count(cut, e, c) + x + y
  BY <1>2, <1>6, <1>7, <1>8
<1> QED BY <1>9 DEF x, y

-------------------------------------------------------------------------------
(* What a consumer makes of an entry                                       *)

(* Why an entry that opens shows less than its name promises.              *)
Own(e, cut) ==
  IF e \notin Looked({e}) THEN "none"
  ELSE IF e \in cut THEN "parser_skipped"
  ELSE IF tree[e].read # "ok" THEN tree[e].read
  ELSE IF ask.mode = "symbol" /\ tree[e].parse = "fatal" THEN "parser_skipped"
  ELSE IF ask.mode = "symbol" /\ tree[e].parse = "partial" THEN "parser_partial"
  ELSE "none"

(* What is left out grows by e at most.                                    *)
Grown(cut, with, e) == with = cut \/ (with = cut \cup {e} /\ e \in Cuttable(Reached))

(* A consumer's result, when it does not fail: the rows of the entry, or   *)
(* the reason why it has none, within the limits.                          *)
Yield(st, e, cut, r) ==
  /\ r.content \in Nat /\ r.parser \in Nat
  /\ st.bytes + r.content <= budget.bytes /\ st.parsed + r.parser <= budget.parsed
  /\ r.warning \in Codes \cup {"none"}
  /\ \E keys \in Seq(Nat) : \E with :
       /\ Grown(cut, with, e) /\ r.warning = Own(e, with)
       /\ r.rows = Rows(e, keys) /\ RowPart(with, e) = Rows(e, Ascending(ToSet(keys)))

Settled(st, e, cut, r) == IF r.code # "none" THEN r.code \in Errors ELSE Yield(st, e, cut, r)

(* No rows, and no keys.                                                   *)
NoRow == <<>>
OneRow == <<0>>

LEMMA AscendingOne ==
  /\ OneRow \in Seq(Nat) /\ Ascending(ToSet(OneRow)) = OneRow /\ NoRow \in Seq(Nat) /\ Ascending(ToSet(NoRow)) = NoRow
  /\ \A e \in Nat : Rows(e, OneRow) = <<Row(e, 0)>> /\ Rows(e, NoRow) = NoRow
<1>1. OneRow \in Seq(Nat) /\ NoRow \in Seq(Nat) /\ Climbs(OneRow) /\ Climbs(NoRow)
  BY DEF Climbs, OneRow, NoRow
<1>2. \A e \in Nat : Rows(e, OneRow) = <<Row(e, 0)>> /\ Rows(e, NoRow) = NoRow
  BY DEF Rows, OneRow, NoRow
<1> QED BY <1>1, <1>2, AscendingSame

(* The room that is left.                                                  *)
LEMMA RoomFacts ==
  ASSUME AskInv, NEW st \in States, Within(st), NEW e \in Reached
  PROVE  /\ ~ Exceeds(tree[e].size, budget.bytes - st.bytes) => st.bytes + tree[e].size <= budget.bytes
         /\ ~ Exceeds(tree[e].size, budget.parsed - st.parsed) => st.parsed + tree[e].size <= budget.parsed
         /\ ~ Exceeds(tree[e].size, budget.parsed - st.parsed) => budget.parsed # st.parsed
         /\ st.bytes + 0 <= budget.bytes /\ st.parsed + 0 <= budget.parsed
<1>1. tree[e].size \in Nat
  BY ReachedFacts, EntryFacts
<1>2. st.bytes \in Nat /\ st.parsed \in Nat /\ budget.bytes \in Nat /\ budget.parsed \in Nat
      /\ st.bytes <= budget.bytes /\ st.parsed <= budget.parsed
  BY TreeFacts DEF States, Within
<1> QED BY <1>1, <1>2 DEF Exceeds

LEMMA YieldIs ==
  ASSUME NEW st, NEW e, NEW cut, NEW r, NEW keys \in Seq(Nat),
         r.code = "none", r.content \in Nat, r.parser \in Nat,
         st.bytes + r.content <= budget.bytes, st.parsed + r.parser <= budget.parsed,
         r.warning \in Codes \cup {"none"}, r.rows = Rows(e, keys),
         RowPart(cut, e) = Rows(e, Ascending(ToSet(keys))), r.warning = Own(e, cut)
  PROVE  Settled(st, e, cut, r)
<1>1. Grown(cut, cut, e)
  BY DEF Grown
<1> QED BY <1>1 DEF Settled, Yield

LEMMA BareYields ==
  ASSUME NEW st, NEW e \in Nat, NEW cut, NEW r,
         r.code = "none", r.content \in Nat, r.parser \in Nat,
         st.bytes + r.content <= budget.bytes, st.parsed + r.parser <= budget.parsed,
         r.warning \in Codes \cup {"none"}, r.rows = NoRow, RowPart(cut, e) = NoRow, r.warning = Own(e, cut)
  PROVE  Settled(st, e, cut, r)
<1>1. NoRow \in Seq(Nat) /\ r.rows = Rows(e, NoRow) /\ RowPart(cut, e) = Rows(e, Ascending(ToSet(NoRow)))
  BY AscendingOne
<1> QED BY <1>1, YieldIs

LEMMA CutYields ==
  ASSUME NEW st, NEW e \in Cuttable(Reached), NEW cut, NEW r, NEW keys \in Seq(Nat),
         r.code = "none", r.content \in Nat, r.parser \in Nat,
         st.bytes + r.content <= budget.bytes, st.parsed + r.parser <= budget.parsed,
         r.warning \in Codes \cup {"none"}, r.rows = Rows(e, keys),
         RowPart(cut \cup {e}, e) = Rows(e, Ascending(ToSet(keys))), r.warning = Own(e, cut \cup {e})
  PROVE  Settled(st, e, cut, r)
<1>1. Grown(cut, cut \cup {e}, e)
  BY DEF Grown
<1> QED BY <1>1 DEF Settled, Yield

LEMMA NothingYields ==
  ASSUME AskInv, NEW st \in States, Within(st), NEW e \in Reached, NEW cut, e \notin cut, Opens(e),
         RowsOf(e) = NoRow, Own(e, cut) = "none"
  PROVE  Settled(st, e, cut, Nothing)
<1>1. st.bytes + 0 <= budget.bytes /\ st.parsed + 0 <= budget.parsed
  BY RoomFacts
<1>3. RowPart(cut, e) = NoRow
  BY DEF RowPart
<1>4. Nothing.rows = NoRow /\ Nothing.warning = "none" /\ Nothing.code = "none" /\ Nothing.content = 0 /\ Nothing.parser = 0
  BY DEF Nothing, NoRow
<1> HIDE DEF Nothing
<1>5. e \in Nat /\ "none" \in Codes \cup {"none"}
  BY ReachedFacts, EntryFacts
<1> QED BY <1>1, <1>3, <1>4, <1>5, BareYields

LEMMA NameYields ==
  ASSUME AskInv, NEW st \in States, Within(st), NEW e \in Reached, NEW cut, e \notin cut, Opens(e),
         RowsOf(e) = Rows(e, OneRow), Own(e, cut) = "none"
  PROVE  Settled(st, e, cut, [Nothing EXCEPT !.rows = <<Row(e, 0)>>])
<1> DEFINE r == [Nothing EXCEPT !.rows = <<Row(e, 0)>>]
<1>1. st.bytes + 0 <= budget.bytes /\ st.parsed + 0 <= budget.parsed
  BY RoomFacts
<1>2. OneRow \in Seq(Nat) /\ Rows(e, OneRow) = <<Row(e, 0)>> /\ Ascending(ToSet(OneRow)) = OneRow
  <2>1. e \in Nat
    BY ReachedFacts, EntryFacts
  <2> QED BY <2>1, AscendingOne
<1>3. RowPart(cut, e) = Rows(e, OneRow) 
  BY DEF RowPart
<1>4. r.rows = Rows(e, OneRow) /\ r.warning = "none" /\ r.code = "none" /\ r.content = 0 /\ r.parser = 0
  BY <1>2 DEF Nothing
<1> HIDE DEF r
<1>5. Settled(st, e, cut, r)
  BY <1>1, <1>2, <1>3, <1>4, YieldIs
<1> QED BY <1>5 DEF r

LEMMA TextYields ==
  ASSUME AskInv, NEW st \in States, Within(st), NEW e \in Reached, NEW cut, e \notin cut, Opens(e),
         ask.mode = "text", tree[e].kind = "file", tree[e].wanted
  PROVE  Settled(st, e, cut, Text(st, e))
<1> DEFINE t == tree[e]
           r == Text(st, e)
<1>1. t.size \in Nat /\ t.hits \in Seq(Nat) /\ e \in Nat /\ t.read \in {"ok"} \cup Codes /\ Climbs(t.hits)
  BY ReachedFacts, EntryFacts DEF Climbs
<1>2. e \in Looked({e})
  BY DEF Looked
<1>3. RowPart(cut, e) = RowsOf(e)
  BY DEF RowPart
<1>4. CASE Exceeds(t.size, budget.bytes - st.bytes) \/ Len(t.hits) > budget.retained - Retained(st)
  <2>1. r.code \in {"budget_exceeded", "record_exceeds_budget"}
    BY <1>4 DEF Text, Stops, Nothing
  <2> QED BY <2>1 DEF Settled, Errors
<1>5. CASE ~ Exceeds(t.size, budget.bytes - st.bytes) /\ ~ (Len(t.hits) > budget.retained - Retained(st))
  <2>1. st.bytes + t.size <= budget.bytes /\ st.parsed + 0 <= budget.parsed
    BY <1>5, RoomFacts
  <2>2. CASE t.read # "ok"
    <3>1. t.read \in Codes
      BY <1>1, <2>2
    <3>2. CASE Explicit
      <4>1. r.code = t.read
        BY <1>5, <2>2, <3>2 DEF Text, Unread, Nothing, NoRow
      <4> QED BY <3>1, <4>1 DEF Settled, Errors, Codes
    <3>3. CASE ~ Explicit
      <4>1. r.code = "none" /\ r.warning = t.read /\ r.rows = NoRow /\ r.content = t.size /\ r.parser = 0
        BY <1>5, <2>2, <3>3 DEF Text, Unread, Nothing, NoRow
      <4>2. RowsOf(e) = NoRow
        BY <2>2 DEF RowsOf, NoRow
      <4>4. Own(e, cut) = t.read
        BY <1>2, <2>2 DEF Own
      <4> HIDE DEF r
      <4>5. /\ r.code = "none" /\ r.content \in Nat /\ r.parser \in Nat /\ r.warning \in Codes \cup {"none"}
            /\ st.bytes + r.content <= budget.bytes /\ st.parsed + r.parser <= budget.parsed
            /\ r.rows = NoRow /\ RowPart(cut, e) = NoRow /\ r.warning = Own(e, cut) /\ e \in Nat
        BY <1>1, <1>3, <2>1, <3>1, <4>1, <4>2, <4>4
      <4>6. Settled(st, e, cut, r)
        BY ONLY <4>5, BareYields
      <4> QED BY <4>6 DEF r
    <3> QED BY <3>2, <3>3
  <2>3. CASE t.read = "ok"
    <3>1. r.code = "none" /\ r.warning = "none" /\ r.rows = Rows(e, t.hits) /\ r.content = t.size /\ r.parser = 0
      BY <1>5, <2>3 DEF Text, Nothing
    <3>2. RowsOf(e) = Rows(e, t.hits) /\ Ascending(ToSet(t.hits)) = t.hits
      BY <1>1, <1>2, <2>3, AscendingSame DEF RowsOf, NoRow
    <3>3. Own(e, cut) = "none"
      BY <2>3 DEF Own
    <3> HIDE DEF r
    <3>4. Settled(st, e, cut, r)
      BY <1>1, <1>3, <2>1, <3>1, <3>2, <3>3, YieldIs
    <3> QED BY <3>4 DEF r
  <2> QED BY <2>2, <2>3
<1> QED BY <1>4, <1>5

LEMMA SymbolsYield ==
  ASSUME AskInv, NEW st \in States, Within(st), NEW e \in Reached, NEW cut, e \notin cut, Opens(e),
         ask.mode = "symbol", tree[e].kind = "file", tree[e].wanted, tree[e].coded
  PROVE  Settled(st, e, cut, Symbols(st, e))
<1> DEFINE t == tree[e]
           r == Symbols(st, e)
<1>1. t.size \in Nat /\ t.names \in Seq(Nat) /\ e \in Nat /\ t.read \in {"ok"} \cup Codes
  BY ReachedFacts, EntryFacts
<1>2. e \in Looked({e}) /\ e \in Looked(Reached)
  BY DEF Looked
<1>3. RowPart(cut, e) = RowsOf(e) /\ RowPart(cut \cup {e}, e) = NoRow /\ e \in cut \cup {e}
  BY DEF RowPart, NoRow
<1>4. NoRow \in Seq(Nat) /\ Rows(e, NoRow) = NoRow /\ Rows(e, Ascending(ToSet(NoRow))) = NoRow
  BY <1>1, AscendingOne
<1>5. CASE Exceeds(t.size, budget.bytes - st.bytes)
  <2>1. r.code = "budget_exceeded"
    BY <1>5 DEF Symbols, Stops, Nothing
  <2> QED BY <2>1 DEF Settled, Errors
<1>6. ASSUME ~ Exceeds(t.size, budget.bytes - st.bytes)
      PROVE  Settled(st, e, cut, r)
  <2>1. /\ st.bytes + t.size <= budget.bytes /\ st.parsed + 0 <= budget.parsed
        /\ ~ Exceeds(t.size, budget.parsed - st.parsed) => budget.parsed # st.parsed
    BY <1>6, RoomFacts
  <2>2. CASE Exceeds(t.size, budget.parsed - st.parsed)
    <3>1. CASE Explicit
      <4>1. r.code = "parser_skipped"
        BY <1>6, <2>2, <3>1 DEF Symbols, Unread, Nothing, NoRow
      <4> QED BY <4>1 DEF Settled, Errors, Codes
    <3>2. CASE ~ Explicit
      <4>1. /\ r.code = "none" /\ r.warning = "parser_skipped" /\ r.rows = NoRow /\ r.parser = 0
            /\ r.content = 0 \/ r.content = t.size
        BY <1>6, <2>2, <3>2 DEF Symbols, Unread, Nothing, NoRow
      <4>2. e \in Cuttable(Reached)
        BY <1>2, <3>2 DEF Cuttable
      <4>3. Own(e, cut \cup {e}) = "parser_skipped" /\ "parser_skipped" \in Codes
        BY <1>2 DEF Own, Codes
      <4> HIDE DEF r
      <4>5. st.bytes + r.content <= budget.bytes /\ r.content \in Nat
        BY <1>1, <2>1, <4>1, RoomFacts
      <4>4. Settled(st, e, cut, r)
        BY <1>1, <1>3, <1>4, <2>1, <4>1, <4>2, <4>3, <4>5, CutYields
      <4> QED BY <4>4 DEF r
    <3> QED BY <3>1, <3>2
  <2>3. CASE ~ Exceeds(t.size, budget.parsed - st.parsed) /\ t.read # "ok"
    <3>1. t.read \in Codes
      BY <1>1, <2>3
    <3>2. CASE Explicit
      <4>1. r.code = t.read
        BY <1>6, <2>1, <2>3, <3>2 DEF Symbols, Unread, Nothing, NoRow
      <4> QED BY <3>1, <4>1 DEF Settled, Errors, Codes
    <3>3. CASE ~ Explicit
      <4>1. r.code = "none" /\ r.warning = t.read /\ r.rows = NoRow /\ r.content = t.size /\ r.parser = 0
        BY <1>6, <2>1, <2>3, <3>3 DEF Symbols, Unread, Nothing, NoRow
      <4>2. RowsOf(e) = NoRow
        BY <2>3 DEF RowsOf, NoRow
      <4>3. Own(e, cut) = t.read
        BY <1>2, <2>3 DEF Own
      <4> HIDE DEF r
      <4>4. /\ r.code = "none" /\ r.content \in Nat /\ r.parser \in Nat /\ r.warning \in Codes \cup {"none"}
            /\ st.bytes + r.content <= budget.bytes /\ st.parsed + r.parser <= budget.parsed
            /\ r.rows = NoRow /\ RowPart(cut, e) = NoRow /\ r.warning = Own(e, cut) /\ e \in Nat
        BY <1>1, <1>3, <2>1, <3>1, <4>1, <4>2, <4>3
      <4>5. Settled(st, e, cut, r)
        BY ONLY <4>4, BareYields
      <4> QED BY <4>5 DEF r
    <3> QED BY <3>2, <3>3
  <2>4. CASE ~ Exceeds(t.size, budget.parsed - st.parsed) /\ t.read = "ok" /\ t.parse = "fatal"
    <3>1. st.parsed + t.size <= budget.parsed
      BY <2>4, RoomFacts
    <3>2. CASE Explicit
      <4>1. r.code = "parser_skipped"
        BY <1>6, <2>1, <2>4, <3>2 DEF Symbols, Unread, Nothing, NoRow
      <4> QED BY <4>1 DEF Settled, Errors, Codes
    <3>3. CASE ~ Explicit
      <4>1. r.code = "none" /\ r.warning = "parser_skipped" /\ r.rows = NoRow /\ r.content = t.size /\ r.parser = t.size
        BY <1>6, <2>1, <2>4, <3>3 DEF Symbols, Unread, Nothing, NoRow
      <4>2. RowsOf(e) = NoRow
        BY <2>4 DEF RowsOf, NoRow
      <4>3. Own(e, cut) = "parser_skipped" /\ "parser_skipped" \in Codes
        BY <1>2, <2>4 DEF Own, Codes
      <4> HIDE DEF r
      <4>4. /\ r.code = "none" /\ r.content \in Nat /\ r.parser \in Nat /\ r.warning \in Codes \cup {"none"}
            /\ st.bytes + r.content <= budget.bytes /\ st.parsed + r.parser <= budget.parsed
            /\ r.rows = NoRow /\ RowPart(cut, e) = NoRow /\ r.warning = Own(e, cut) /\ e \in Nat
        BY <1>1, <1>3, <2>1, <3>1, <4>1, <4>2, <4>3
      <4>5. Settled(st, e, cut, r)
        BY ONLY <4>4, BareYields
      <4> QED BY <4>5 DEF r
    <3> QED BY <3>2, <3>3
  <2>5. CASE ~ Exceeds(t.size, budget.parsed - st.parsed) /\ t.read = "ok" /\ t.parse # "fatal"
    <3>1. st.parsed + t.size <= budget.parsed
      BY <2>5, RoomFacts
    <3>2. /\ r.code = "none" /\ r.rows = Rows(e, t.names) /\ r.content = t.size /\ r.parser = t.size
          /\ r.warning = IF t.parse = "partial" THEN "parser_partial" ELSE "none"
      BY <1>6, <2>1, <2>5 DEF Symbols, Nothing
    <3>3. RowsOf(e) = Rows(e, Ascending(ToSet(t.names)))
      BY <1>2, <2>5 DEF RowsOf, NoRow
    <3>4. Own(e, cut) = IF t.parse = "partial" THEN "parser_partial" ELSE "none"
      BY <1>2, <2>5 DEF Own
    <3>5. r.warning \in Codes \cup {"none"}
      BY <3>2 DEF Codes
    <3> HIDE DEF r
    <3>6. Settled(st, e, cut, r)
      BY <1>1, <1>3, <2>1, <3>1, <3>2, <3>3, <3>4, <3>5, YieldIs
    <3> QED BY <3>6 DEF r
  <2> QED BY <2>2, <2>3, <2>4, <2>5
<1> QED BY <1>5, <1>6

LEMMA ConsumeFacts ==
  ASSUME AskInv, NEW st \in States, Within(st), NEW e \in Reached, NEW cut, e \notin cut, Opens(e)
  PROVE  Settled(st, e, cut, Consume(st, e))
<1>0. Rows(e, OneRow) = <<Row(e, 0)>>
  BY ReachedFacts, EntryFacts, AscendingOne
<1>1. ask.mode \in Modes
  BY TreeFacts
<1>2. CASE ask.mode = "project"
  <2>1. RowsOf(e) = Rows(e, OneRow) /\ Own(e, cut) = "none"
    BY <1>2, <1>0 DEF RowsOf, Own, Looked
  <2> QED BY <1>2, <2>1, NameYields DEF Consume
<1>3. CASE ask.mode # "project" /\ tree[e].kind # "file"
  <2>1. RowsOf(e) = NoRow /\ Own(e, cut) = "none"
    BY <1>1, <1>3 DEF RowsOf, Own, Looked, Modes, NoRow
  <2> QED BY <1>3, <2>1, NothingYields DEF Consume
<1>4. CASE ask.mode = "symbol" /\ tree[e].kind = "file" /\ ~ tree[e].coded
  <2>1. Consume(st, e).code = "unsupported_language"
    BY <1>4 DEF Consume, Stops, Nothing
  <2> QED BY <2>1 DEF Settled, Errors
<1>5. CASE /\ ask.mode # "project" /\ tree[e].kind = "file"
           /\ ask.mode = "symbol" => tree[e].coded
           /\ ~ tree[e].wanted
  <2>1. RowsOf(e) = NoRow /\ Own(e, cut) = "none"
    BY <1>1, <1>5 DEF RowsOf, Own, Looked, Modes, NoRow
  <2> QED BY <1>5, <2>1, NothingYields DEF Consume
<1>6. CASE ask.mode = "file" /\ tree[e].kind = "file" /\ tree[e].wanted
  <2>1. RowsOf(e) = Rows(e, OneRow) /\ Own(e, cut) = "none"
    BY <1>6, <1>0 DEF RowsOf, Own, Looked
  <2>2. Consume(st, e) = [Nothing EXCEPT !.rows = <<Row(e, 0)>>]
    BY <1>6 DEF Consume
  <2> QED BY <2>1, <2>2, NameYields
<1>7. CASE ask.mode = "text" /\ tree[e].kind = "file" /\ tree[e].wanted
  <2>1. Consume(st, e) = Text(st, e)
    BY <1>7 DEF Consume
  <2> QED BY <1>7, <2>1, TextYields
<1>8. CASE ask.mode = "symbol" /\ tree[e].kind = "file" /\ tree[e].coded /\ tree[e].wanted
  <2>1. Consume(st, e) = Symbols(st, e)
    BY <1>8 DEF Consume
  <2> QED BY <1>8, <2>1, SymbolsYield
<1> QED BY <1>1, <1>2, <1>3, <1>4, <1>5, <1>6, <1>7, <1>8 DEF Modes

-------------------------------------------------------------------------------
(* What one entry makes of a state                                         *)

LEMMA StateFacts ==
  ASSUME AskInv, NEW st \in States
  PROVE  /\ IsFiniteSet(st.frontier) /\ Cardinality(st.frontier) \in Nat
         /\ Len(st.pending) \in Nat /\ Retained(st) = Cardinality(st.frontier) + Len(st.pending)
         /\ st.pending = NoRow => Len(st.pending) = 0
<1>1. IsFiniteSet(DOMAIN tree)
  <2>1. Len(tree) \in Nat /\ DOMAIN tree = 1 .. Len(tree)
    BY TreeFacts
  <2> QED BY <2>1, FS_Interval
<1>2. st.frontier \in SUBSET DOMAIN tree /\ st.pending \in Seq(RowSet)
  BY DEF States
<1>3. IsFiniteSet(st.frontier)
  BY <1>1, <1>2, FS_Subset
<1>4. Cardinality(st.frontier) \in Nat
  BY <1>3, FS_CardinalityType
<1>5. Len(st.pending) \in Nat
  BY <1>2
<1>6. Len(NoRow) = 0
  BY DEF NoRow
<1> QED BY <1>3, <1>4, <1>5, <1>6 DEF Retained

(* The rows and the reason of e are added, unless that fails.              *)
Took(st, new, e, cut) ==
  /\ new \in States /\ new.frontier = st.frontier /\ new.seen = st.seen
  /\ new.files = st.files /\ new.dirs = st.dirs
  /\ IF new.code # "none" THEN new.pending = NoRow
     ELSE /\ Within(new)
          /\ \E with :
               /\ Grown(cut, with, e) /\ new.pending = RowPart(with, e)
               /\ \A c \in Codes : new.warned[c] = st.warned[c] + IF Own(e, with) = c THEN 1 ELSE 0

LEMMA ApplyFacts ==
  ASSUME AskInv, NEW st \in States, Within(st), st.code = "none", st.pending = NoRow,
         NEW e \in Reached, NEW cut, NEW r, Settled(st, e, cut, r)
  PROVE  Took(st, Apply(st, e, r), e, cut)
<1> DEFINE new == Apply(st, e, r)
<1>0. e \in Nat
  BY ReachedFacts, EntryFacts
<1>1. CASE r.code # "none"
  <2>1. r.code \in Errors
    BY <1>1 DEF Settled
  <2>2. new = [st EXCEPT !.code = r.code]
    BY <1>1 DEF Apply, Failed
  <2> HIDE DEF new
  <2>3. new \in States
    BY <2>1, <2>2 DEF States
  <2> QED BY <1>1, <2>2, <2>3 DEF Took, new, States
<1>2. CASE r.code = "none" /\ Len(r.rows) > budget.retained - Retained(st)
  <2>1. new = [st EXCEPT !.code = "record_exceeds_budget"]
    BY <1>2 DEF Apply, Failed
  <2> HIDE DEF new
  <2>2. new \in States
    BY <2>1 DEF States, Errors
  <2> QED BY <2>1, <2>2 DEF Took, new, States
<1>3. CASE r.code = "none" /\ ~ (Len(r.rows) > budget.retained - Retained(st))
  <2>1. PICK keys, with :
          /\ keys \in Seq(Nat) /\ Grown(cut, with, e) /\ r.warning = Own(e, with)
          /\ r.rows = Rows(e, keys) /\ RowPart(with, e) = Rows(e, Ascending(ToSet(keys)))
    BY <1>3 DEF Settled, Yield
  <2>2. /\ r.content \in Nat /\ r.parser \in Nat
        /\ st.bytes + r.content <= budget.bytes /\ st.parsed + r.parser <= budget.parsed
        /\ r.warning \in Codes \cup {"none"}
    BY <1>3 DEF Settled, Yield
  <2> DEFINE rows == IF r.rows = <<>> THEN st.pending ELSE Distinct(e, r.rows)
             warned == IF r.warning = "none" THEN st.warned
                       ELSE [st.warned EXCEPT ![r.warning] = st.warned[r.warning] + 1]
  <2>3. new = [st EXCEPT !.bytes = st.bytes + r.content, !.parsed = st.parsed + r.parser,
                         !.warned = warned, !.pending = rows]
    BY <1>3, <2>2 DEF Apply, Warned, States
  <2>4. rows = RowPart(with, e) /\ rows \in Seq(RowSet) /\ Len(rows) <= Len(r.rows)
    <3>1. /\ Distinct(e, r.rows) = Rows(e, Ascending(ToSet(keys))) /\ Distinct(e, r.rows) \in Seq(RowSet)
          /\ Len(Distinct(e, r.rows)) <= Len(keys) /\ Len(r.rows) = Len(keys)
          /\ r.rows = NoRow <=> keys = NoRow
      BY <1>0, <2>1, DistinctFacts, RowFacts DEF NoRow
    <3>2. CASE r.rows = NoRow
      <4>1. Rows(e, Ascending(ToSet(keys))) = NoRow
        BY <1>0, <3>1, <3>2, AscendingOne
      <4>2. rows = NoRow
        BY <3>2 DEF NoRow
      <4>3. NoRow \in Seq(RowSet) /\ Len(NoRow) <= Len(NoRow)
        BY DEF NoRow
      <4> HIDE DEF rows
      <4> QED BY <2>1, <3>2, <4>1, <4>2, <4>3
    <3>3. CASE r.rows # NoRow
      <4>1. rows = Distinct(e, r.rows)
        BY <3>3 DEF NoRow
      <4> HIDE DEF rows
      <4> QED BY <2>1, <3>1, <4>1
    <3> QED BY <3>2, <3>3
  <2>5. warned \in [Codes -> Nat]
        /\ \A c \in Codes : warned[c] = st.warned[c] + IF r.warning = c THEN 1 ELSE 0
    <3>1. st.warned \in [Codes -> Nat]
      BY DEF States
    <3>2. "none" \notin Codes
      BY DEF Codes
    <3> QED BY <2>2, <3>1, <3>2
  <2> HIDE DEF rows, warned, new
  <2>6. st.bytes \in Nat /\ st.parsed \in Nat /\ st.bytes + r.content \in Nat /\ st.parsed + r.parser \in Nat
    BY <2>2 DEF States
  <2>7. /\ new \in States /\ new.frontier = st.frontier /\ new.seen = st.seen
        /\ new.files = st.files /\ new.dirs = st.dirs /\ new.code = "none" /\ new.pending = rows
        /\ new.warned = warned /\ new.bytes = st.bytes + r.content /\ new.parsed = st.parsed + r.parser
    BY <2>3, <2>4, <2>5, <2>6 DEF States
  <2>8. Retained(new) <= budget.retained
    <3>1. Len(r.rows) \in Nat /\ budget.retained \in Nat /\ Len(rows) \in Nat
      BY <1>0, <2>1, <2>4, RowFacts, TreeFacts
    <3>2. Retained(st) = Cardinality(st.frontier) /\ Cardinality(st.frontier) \in Nat
      <4>1. Retained(st) = Cardinality(st.frontier) + Len(st.pending) /\ Len(st.pending) = 0
            /\ Cardinality(st.frontier) \in Nat
        BY StateFacts
      <4> QED BY <4>1
    <3>3. Retained(new) = Cardinality(st.frontier) + Len(rows)
      BY <2>7, StateFacts
    <3> QED BY <1>3, <2>4, <3>1, <3>2, <3>3
  <2>9. Within(new)
    BY <2>2, <2>7, <2>8 DEF Within
  <2>10. \E w :
           /\ Grown(cut, w, e) /\ new.pending = RowPart(w, e)
           /\ \A c \in Codes : new.warned[c] = st.warned[c] + IF Own(e, w) = c THEN 1 ELSE 0
    BY <2>1, <2>4, <2>5, <2>7
  <2>11. Took(st, new, e, cut)
    BY <2>7, <2>9, <2>10 DEF Took
  <2> QED BY <2>11 DEF new
<1> QED BY <1>1, <1>2, <1>3

(* One field of a state at a time.                                         *)
LEMMA FieldFacts ==
  ASSUME NEW st \in States
  PROVE  /\ \A x \in SUBSET DOMAIN tree : [st EXCEPT !.frontier = x] \in States
         /\ \A x \in Seq(RowSet) : [st EXCEPT !.pending = x] \in States
         /\ \A x \in Nat : [st EXCEPT !.files = x] \in States
         /\ \A x \in Nat : [st EXCEPT !.dirs = x] \in States
         /\ \A x \in Nat : [st EXCEPT !.bytes = x] \in States
         /\ \A x \in [Codes -> Nat] : [st EXCEPT !.warned = x] \in States
         /\ \A x \in SUBSET Nat : [st EXCEPT !.seen = x] \in States
         /\ \A x \in {"none"} \cup Errors : [st EXCEPT !.code = x] \in States
BY DEF States

(* The scan has come to the entry e, which is off its frontier.            *)
Standing(st, rows, cut, e) ==
  /\ st \in States /\ Within(st) /\ st.code = "none" /\ st.pending = NoRow
  /\ e \in Reached /\ cut \in CutsBefore(e)
  /\ st.frontier = { c \in Reached : e < c /\ tree[c].up < e }
  /\ rows = Delivered(cut, e)
  /\ st.seen = Ids(e)
  /\ st.warned = [c \in Codes |-> Count(cut, e, c)]

(* The scan is done with e.                                                *)
Processed(st, rows, e) ==
  /\ st \in States
  /\ IF st.code # "none" THEN BrokenOff(st, rows)
     ELSE Within(st) /\ \E cut \in SUBSET Cuttable(Reached) : Caught(st, rows, cut, e + 1)

LEMMA ReachedKinds ==
  ASSUME AskInv, NEW e \in Reached
  PROVE  /\ e \in DOMAIN tree /\ e \in Nat /\ tree[e].kind \in {"dir", "file"}
         /\ e # 1 => ~ Explicit /\ Selects(e)
         /\ ~ Opens(e) => e # 1
         /\ { c \in Reached : c # e /\ tree[c].up = e } = IF Lists(e, Reached) THEN Units(e) ELSE {}
<1>1. /\ Reached \subseteq DOMAIN tree /\ 1 \in Reached /\ (Explicit => Reached = {1})
      /\ \A n \in DOMAIN tree \ {1} : n \in Reached <=> n \in Units(tree[n].up) /\ Lists(tree[n].up, Reached)
  BY ReachedFacts
<1>2. e \in DOMAIN tree /\ e \in Nat /\ tree[1].up = 1 /\ tree[1].kind \in {"dir", "file"} /\ Opens(1)
  BY <1>1, TreeFacts, EntryFacts
<1>3. ASSUME e # 1 PROVE tree[e].kind \in {"dir", "file"} /\ ~ Explicit /\ Selects(e)
  BY <1>1, <1>2, <1>3 DEF Units
<1>4. ASSUME NEW c \in DOMAIN tree, c # e, tree[c].up = e
      PROVE  c \in Reached <=> c \in Units(e) /\ Lists(e, Reached)
  BY <1>1, <1>2, <1>4
<1>5. \A c \in Units(e) : c \in DOMAIN tree /\ c # e /\ tree[c].up = e
  BY DEF Units, Children
<1>6. { c \in Reached : c # e /\ tree[c].up = e } = IF Lists(e, Reached) THEN Units(e) ELSE {}
  BY <1>1, <1>4, <1>5
<1> QED BY <1>2, <1>3, <1>6

LEMMA CutsBeforeFacts ==
  ASSUME AskInv, NEW e \in Reached, NEW cut \in CutsBefore(e), NEW with, Grown(cut, with, e)
  PROVE  /\ e \notin cut /\ with \in CutsBefore(e + 1) /\ with \in SUBSET Cuttable(Reached)
         /\ e \in 1 .. Whole /\ e + 1 \in 1 .. Whole /\ e + 1 \in 2 .. Whole
         /\ Delivered(cut, e) \in Seq(RowSet) /\ Delivered(cut, e) \o NoRow = Delivered(cut, e)
         /\ Delivered(with, e + 1) = Delivered(cut, e) \o RowPart(with, e)
         /\ \A c : Count(with, e, c) = Count(cut, e, c)
<1>1. /\ Earlier(e + 1) = Earlier(e) \cup {e} /\ e \notin Earlier(e) /\ e \in 1 .. Whole /\ e + 1 \in 2 .. Whole
  BY EarlierFacts
<1>2. e + 1 \in 1 .. Whole /\ e \in DOMAIN tree
  BY <1>1, ReachedKinds
<1>3. e \notin cut /\ with \in CutsBefore(e + 1) /\ with \in SUBSET Cuttable(Reached)
  BY <1>1 DEF CutsBefore, Grown
<1>4. \A x \in Earlier(e) : x \in cut <=> x \in with
  BY <1>1 DEF Grown
<1>5. Delivered(cut, e) = Delivered(with, e)
  BY <1>1, <1>4, DeliveredSame
<1>6. Delivered(with, e + 1) = Delivered(cut, e) \o RowPart(with, e)
  BY <1>1, <1>2, <1>5, DeliveredFacts
<1>7. Delivered(cut, e) \in Seq(RowSet)
  BY <1>1, DeliveredFacts
<1>8. Delivered(cut, e) \o NoRow = Delivered(cut, e)
  BY <1>7 DEF NoRow
<1>9. \A c : Count(with, e, c) = Count(cut, e, c)
  BY <1>4, CountSame
<1> QED BY <1>1, <1>2, <1>3, <1>6, <1>7, <1>8, <1>9

LEMMA StandingFacts ==
  ASSUME AskInv, NEW st, NEW rows, NEW cut, NEW e, Standing(st, rows, cut, e),
         NEW with, Grown(cut, with, e)
  PROVE  /\ cut \in SUBSET Cuttable(Reached) /\ with \in SUBSET Cuttable(Reached)
         /\ with \in CutsBefore(e + 1) /\ e \in 1 .. Whole /\ e + 1 \in 1 .. Whole
         /\ rows \o NoRow = Delivered(cut, e)
         /\ rows \o RowPart(with, e) = Delivered(with, e + 1)
         /\ \A c : Count(with, e, c) = Count(cut, e, c)
<1>1. e \in Reached /\ cut \in CutsBefore(e) /\ rows = Delivered(cut, e)
  BY DEF Standing
<1>2. cut \in SUBSET Cuttable(Reached)
  BY <1>1 DEF CutsBefore
<1>3. /\ with \in CutsBefore(e + 1) /\ with \in SUBSET Cuttable(Reached)
      /\ e \in 1 .. Whole /\ e + 1 \in 1 .. Whole
      /\ Delivered(cut, e) \o NoRow = Delivered(cut, e)
      /\ Delivered(with, e + 1) = Delivered(cut, e) \o RowPart(with, e)
  BY <1>1, CutsBeforeFacts
<1>4. \A c : Count(with, e, c) = Count(cut, e, c)
  BY <1>1, CutsBeforeFacts
<1> QED BY <1>1, <1>2, <1>3, <1>4

(* A failure at e leaves what was delivered before it, or with it.         *)
LEMMA BrokenOffFacts ==
  ASSUME AskInv, NEW st, NEW rows, NEW cut, NEW e, Standing(st, rows, cut, e), NEW new,
         NEW with, Grown(cut, with, e),
         new.pending \in {NoRow, RowPart(with, e)}
  PROVE  BrokenOff(new, rows)
<1>1. /\ e \in 1 .. Whole /\ e + 1 \in 1 .. Whole
      /\ cut \in SUBSET Cuttable(Reached) /\ with \in SUBSET Cuttable(Reached)
      /\ rows \o NoRow = Delivered(cut, e) /\ rows \o RowPart(with, e) = Delivered(with, e + 1)
  BY StandingFacts
<1>2. CASE new.pending = NoRow
  BY <1>1, <1>2 DEF BrokenOff
<1>3. CASE new.pending = RowPart(with, e)
  BY <1>1, <1>3 DEF BrokenOff
<1> QED BY <1>2, <1>3

(* What the entry e does to the state, as the specification has it.        *)
Effect(st, new, with, e) ==
  /\ new \in States /\ new.pending = RowPart(with, e)
  /\ new.frontier = st.frontier \cup { c \in Reached : c # e /\ tree[c].up = e }
  /\ new.seen = IF tree[e].kind = "dir" /\ Opens(e) THEN st.seen \cup {tree[e].id} ELSE st.seen
  /\ \A c \in Codes :
       new.warned[c] = st.warned[c] + (IF Reason(e, Reached, with) = c THEN 1 ELSE 0)
                         + (IF e \in Enumerated(Reached) THEN Cardinality(Reported(e, c)) ELSE 0)

LEMMA Advance ==
  ASSUME AskInv, NEW st, NEW rows, NEW cut, NEW e, Standing(st, rows, cut, e),
         NEW with, Grown(cut, with, e), NEW new, Effect(st, new, with, e)
  PROVE  Caught(new, rows, with, e + 1) /\ with \in SUBSET Cuttable(Reached)
<1>1. e \in Reached /\ cut \in CutsBefore(e) /\ rows = Delivered(cut, e)
  BY DEF Standing
<1>2. /\ with \in CutsBefore(e + 1) /\ with \in SUBSET Cuttable(Reached) /\ e + 1 \in 1 .. Whole
      /\ Delivered(with, e + 1) = rows \o RowPart(with, e)
      /\ \A c : Count(with, e, c) = Count(cut, e, c)
  BY StandingFacts
<1>3. Earlier(e + 1) = Earlier(e) \cup {e}
  BY <1>1, EarlierFacts
<1>4. new.frontier = { c \in Reached : e + 1 <= c /\ tree[c].up < e + 1 }
  <2>1. st.frontier = { c \in Reached : e < c /\ tree[c].up < e }
    BY DEF Standing
  <2>2. ASSUME NEW c \in Reached
        PROVE  e + 1 <= c /\ tree[c].up < e + 1 <=> (e < c /\ tree[c].up < e) \/ (c # e /\ tree[c].up = e)
    <3>1. c \in Nat /\ e \in Nat /\ tree[c].up \in Nat /\ c \in DOMAIN tree
      BY <1>1, ReachedKinds, EntryFacts
    <3>2. c # 1 => tree[c].up \in 1 .. c - 1
      BY <3>1, TreeFacts
    <3>3. tree[1].up = 1
      BY TreeFacts
    <3> QED BY <3>1, <3>2, <3>3
  <2> QED BY <2>1, <2>2 DEF Effect
<1>5. new.seen = Ids(e + 1)
  <2>1. st.seen = Ids(e)
    BY DEF Standing
  <2>2. CASE tree[e].kind = "dir" /\ Opens(e)
    BY <1>3, <2>1, <2>2 DEF Ids, Effect
  <2>3. CASE ~ (tree[e].kind = "dir" /\ Opens(e))
    <3>1. { x \in Earlier(e + 1) : tree[x].kind = "dir" /\ Opens(x) }
            = { x \in Earlier(e) : tree[x].kind = "dir" /\ Opens(x) }
      BY <1>3, <2>3
    <3> QED BY <2>1, <2>3, <3>1 DEF Ids, Effect
  <2> QED BY <2>2, <2>3
<1>6. new.warned = [c \in Codes |-> Count(with, e + 1, c)]
  <2>1. \A c \in Codes : new.warned[c] = Count(with, e + 1, c)
    <3> TAKE c \in Codes
    <3>1. st.warned[c] = Count(with, e, c)
      BY <1>2 DEF Standing
    <3>2. new.warned[c] = st.warned[c] + (IF Reason(e, Reached, with) = c THEN 1 ELSE 0)
                             + (IF e \in Enumerated(Reached) THEN Cardinality(Reported(e, c)) ELSE 0)
      BY DEF Effect
    <3>3. Count(with, e + 1, c) =
            Count(with, e, c) + (IF Reason(e, Reached, with) = c THEN 1 ELSE 0)
              + (IF e \in Enumerated(Reached) THEN Cardinality(Reported(e, c)) ELSE 0)
      BY <1>1, CountStep
    <3> QED BY <3>1, <3>2, <3>3
  <2>2. new.warned \in [Codes -> Nat]
    BY DEF Effect, States
  <2> QED BY <2>1, <2>2
<1>7. new.pending = RowPart(with, e)
  BY DEF Effect
<1>8. Caught(new, rows, with, e + 1)
  BY <1>2, <1>4, <1>5, <1>6, <1>7 DEF Caught
<1> QED BY <1>2, <1>8

(* An entry that cannot be opened is warned of.                            *)
LEMMA ClosedProcessed ==
  ASSUME AskInv, NEW st, NEW rows, NEW cut, NEW e, Standing(st, rows, cut, e), ~ Opens(e)
  PROVE  Processed(Warned(st, OpenWarning[tree[e].fate]), rows, e)
<1> DEFINE w == OpenWarning[tree[e].fate]
           new == Warned(st, w)
<1>1. /\ e \in Reached /\ st \in States /\ Within(st) /\ st.code = "none" /\ st.pending = NoRow
      /\ tree[e].fate \in DOMAIN OpenWarning
  BY DEF Standing, Opens
<1>2. w \in Codes
  BY <1>1 DEF OpenWarning, Codes
<1> HIDE DEF w
<1>3. new = [st EXCEPT !.warned[w] = st.warned[w] + 1] /\ st.warned \in [Codes -> Nat]
  BY <1>1 DEF Warned, States
<1> HIDE DEF new
<1>4. /\ new \in States /\ new.frontier = st.frontier /\ new.pending = NoRow /\ new.seen = st.seen
      /\ new.code = "none" /\ new.files = st.files /\ new.dirs = st.dirs
      /\ new.bytes = st.bytes /\ new.parsed = st.parsed
      /\ \A c \in Codes : new.warned[c] = st.warned[c] + IF w = c THEN 1 ELSE 0
  <2>1. st \in States /\ st.pending = NoRow /\ st.code = "none"
    BY <1>1
  <2>2. [st.warned EXCEPT ![w] = st.warned[w] + 1] \in [Codes -> Nat]
    BY <1>2, <1>3
  <2>3. new \in States
    BY <1>3, <2>1, <2>2, FieldFacts
  <2>4. /\ new.frontier = st.frontier /\ new.pending = st.pending /\ new.seen = st.seen
        /\ new.code = st.code /\ new.files = st.files /\ new.dirs = st.dirs
        /\ new.bytes = st.bytes /\ new.parsed = st.parsed
        /\ new.warned = [st.warned EXCEPT ![w] = st.warned[w] + 1]
    BY <1>3, <2>1 DEF States
  <2> QED BY <1>2, <1>3, <2>1, <2>3, <2>4
<1>5. Within(new)
  BY <1>1, <1>4 DEF Within, Retained
<1>6. RowPart(cut, e) = NoRow /\ Reason(e, Reached, cut) = w
  BY <1>1 DEF RowPart, NoRow, Reason, w
<1>7. e \notin Enumerated(Reached) /\ ~ Lists(e, Reached)
  BY DEF Enumerated, Lists
<1>8. { c \in Reached : c # e /\ tree[c].up = e } = {}
  BY <1>1, <1>7, ReachedKinds
<1>9. \A c \in Codes : st.warned[c] \in Nat
  BY <1>3
<1>10. Grown(cut, cut, e)
  BY DEF Grown
<1>11. Caught(new, rows, cut, e + 1) /\ cut \in SUBSET Cuttable(Reached)
  <2>1. \A c \in Codes :
          new.warned[c] = st.warned[c] + (IF Reason(e, Reached, cut) = c THEN 1 ELSE 0)
                            + (IF e \in Enumerated(Reached) THEN Cardinality(Reported(e, c)) ELSE 0)
    BY <1>4, <1>6, <1>7, <1>9
  <2>2. Effect(st, new, cut, e)
    BY <1>4, <1>6, <1>8, <2>1 DEF Effect
  <2> QED BY <1>10, <2>2, Advance
<1>12. Processed(new, rows, e)
  BY <1>4, <1>5, <1>11 DEF Processed
<1> QED BY <1>12 DEF new, w

(* A file that is read shows its rows, or fails.                           *)
LEMMA ReadProcessed ==
  ASSUME AskInv, NEW st, NEW rows, NEW cut, NEW e, Standing(st, rows, cut, e), Opens(e), tree[e].kind = "file"
  PROVE  Processed(Read(st, e), rows, e)
<1> DEFINE opened == [st EXCEPT !.files = st.files + 1]
           new == Read(st, e)
<1>1. /\ e \in Reached /\ st \in States /\ Within(st) /\ st.code = "none" /\ st.pending = NoRow
      /\ cut \in CutsBefore(e)
  BY DEF Standing
<1>2. e \notin cut
  BY <1>1, EarlierFacts DEF CutsBefore
<1>3. Grown(cut, cut, e)
  BY DEF Grown
<1>4. CASE st.files >= budget.files
  <2>1. new = [st EXCEPT !.code = "budget_exceeded"]
    BY <1>4 DEF Read, Failed
  <2> HIDE DEF new
  <2>2. new \in States /\ new.pending = NoRow /\ new.code # "none"
    BY <1>1, <2>1 DEF States, Errors
  <2>3. BrokenOff(new, rows)
    BY <1>3, <2>2, BrokenOffFacts
  <2>4. Processed(new, rows, e)
    BY <2>2, <2>3 DEF Processed
  <2> QED BY <2>4 DEF new
<1>5. CASE ~ (st.files >= budget.files)
  <2>1. new = Apply(opened, e, Consume(opened, e))
    BY <1>5 DEF Read
  <2>0. opened = [st EXCEPT !.files = st.files + 1] /\ st.files \in Nat /\ budget.files \in Nat
    BY <1>1, TreeFacts DEF States
  <2> HIDE DEF opened, new
  <2>2. /\ opened \in States /\ opened.pending = NoRow /\ opened.code = "none" /\ opened.frontier = st.frontier
        /\ opened.seen = st.seen /\ opened.warned = st.warned /\ opened.files = st.files + 1
        /\ opened.dirs = st.dirs /\ opened.bytes = st.bytes /\ opened.parsed = st.parsed
    <3>1. st \in States /\ st.pending = NoRow /\ st.code = "none"
      BY <1>1
    <3>2. opened \in States
      <4>1. st.files + 1 \in Nat
        BY <2>0
      <4> QED BY <2>0, <3>1, <4>1, FieldFacts
    <3>3. /\ opened.pending = st.pending /\ opened.code = st.code /\ opened.frontier = st.frontier
          /\ opened.seen = st.seen /\ opened.warned = st.warned /\ opened.files = st.files + 1
          /\ opened.dirs = st.dirs /\ opened.bytes = st.bytes /\ opened.parsed = st.parsed
      BY <2>0, <3>1 DEF States
    <3> QED BY <3>1, <3>2, <3>3
  <2>3. Within(opened)
    <3>1. st.files + 1 <= budget.files
      BY <1>5, <2>0
    <3> QED BY <1>1, <2>2, <3>1 DEF Within, Retained
  <2>4. Settled(opened, e, cut, Consume(opened, e))
    BY <1>1, <1>2, <2>2, <2>3, ConsumeFacts
  <2>5. Took(opened, new, e, cut)
    BY <1>1, <2>1, <2>2, <2>3, <2>4, ApplyFacts
  <2>6. CASE new.code # "none"
    <3>1. new \in States /\ new.pending = NoRow
      BY <2>5, <2>6 DEF Took
    <3>2. BrokenOff(new, rows)
      BY <1>3, <3>1, BrokenOffFacts
    <3> QED BY <2>6, <3>1, <3>2 DEF Processed, new
  <2>7. CASE new.code = "none"
    <3>1. PICK with :
            /\ Grown(cut, with, e) /\ new.pending = RowPart(with, e)
            /\ \A c \in Codes : new.warned[c] = opened.warned[c] + IF Own(e, with) = c THEN 1 ELSE 0
      BY <2>5, <2>7 DEF Took
    <3>2. new \in States /\ Within(new) /\ new.frontier = st.frontier /\ new.seen = st.seen
      BY <2>2, <2>5, <2>7 DEF Took
    <3>3. e \notin Enumerated(Reached) /\ ~ Lists(e, Reached) /\ ~ (tree[e].kind = "dir" /\ Opens(e))
      BY DEF Enumerated, Lists
    <3>4. Reason(e, Reached, with) = Own(e, with)
      <4>1. tree[e].fate # "torn"
        BY <1>1, TreeFacts, ReachedKinds
      <4> QED BY <4>1 DEF Reason, Own
    <3>5. { c \in Reached : c # e /\ tree[c].up = e } = {}
      BY <1>1, <3>3, ReachedKinds
    <3>6. \A c \in Codes : st.warned[c] \in Nat
      BY <1>1 DEF States
    <3>7. \A c \in Codes :
            new.warned[c] = st.warned[c] + (IF Reason(e, Reached, with) = c THEN 1 ELSE 0)
                              + (IF e \in Enumerated(Reached) THEN Cardinality(Reported(e, c)) ELSE 0)
      BY <2>2, <3>1, <3>3, <3>4, <3>6
    <3>8. Caught(new, rows, with, e + 1) /\ with \in SUBSET Cuttable(Reached)
      <4>1. Effect(st, new, with, e)
        BY <3>1, <3>2, <3>3, <3>5, <3>7 DEF Effect
      <4> QED BY <3>1, <4>1, Advance
    <3> QED BY <2>7, <3>2, <3>8 DEF Processed, new
  <2> QED BY <2>6, <2>7
<1> QED BY <1>4, <1>5

(* A file cut off by the deadline is left out and warned of.               *)
LEMMA LateProcessed ==
  ASSUME AskInv, NEW st, NEW rows, NEW cut, NEW e, Standing(st, rows, cut, e), Opens(e), tree[e].kind = "file",
         e # 1, ask.mode = "symbol", st.files < budget.files,
         NEW read \in Nat, read <= budget.bytes - st.bytes
  PROVE  Processed([Warned(st, "parser_skipped") EXCEPT !.files = @ + 1, !.bytes = @ + read], rows, e)
<1> DEFINE w == "parser_skipped"
           new == [Warned(st, w) EXCEPT !.files = @ + 1, !.bytes = @ + read]
           with == cut \cup {e}
<1>1. e \in Reached /\ st \in States /\ Within(st) /\ st.code = "none" /\ st.pending = NoRow
  BY DEF Standing
<1>2. ~ Explicit /\ tree[e].wanted /\ tree[e].coded
  BY <1>1, ReachedKinds DEF Selects
<1>3. e \in Looked(Reached) /\ e \in Looked({e}) /\ e \in Cuttable(Reached)
  BY <1>1, <1>2 DEF Looked, Cuttable
<1>4. w \in Codes
  BY DEF Codes
<1>5. /\ new = [st EXCEPT !.warned[w] = st.warned[w] + 1, !.files = st.files + 1, !.bytes = st.bytes + read]
      /\ st.warned \in [Codes -> Nat]
  BY <1>1 DEF Warned, States
<1> HIDE DEF new, w
<1>6. /\ new \in States /\ new.frontier = st.frontier /\ new.pending = NoRow /\ new.seen = st.seen
      /\ new.code = "none" /\ new.files = st.files + 1 /\ new.dirs = st.dirs
      /\ new.bytes = st.bytes + read /\ new.parsed = st.parsed
      /\ \A c \in Codes : new.warned[c] = st.warned[c] + IF w = c THEN 1 ELSE 0
  <2>1. st \in States /\ st.pending = NoRow /\ st.code = "none" /\ st.files + 1 \in Nat /\ st.bytes + read \in Nat
    BY <1>1 DEF States
  <2>2. [st.warned EXCEPT ![w] = st.warned[w] + 1] \in [Codes -> Nat]
    BY <1>4, <1>5
  <2>3. new \in States
    <3>1. [st EXCEPT !.warned = [st.warned EXCEPT ![w] = st.warned[w] + 1]] \in States
      BY <2>1, <2>2, FieldFacts
    <3>2. [st EXCEPT !.warned = [st.warned EXCEPT ![w] = st.warned[w] + 1], !.files = st.files + 1] \in States
      BY <2>1, <3>1, FieldFacts
    <3> QED BY <1>5, <2>1, <3>2, FieldFacts
  <2>4. /\ new.frontier = st.frontier /\ new.pending = st.pending /\ new.seen = st.seen
        /\ new.code = st.code /\ new.files = st.files + 1 /\ new.dirs = st.dirs
        /\ new.bytes = st.bytes + read /\ new.parsed = st.parsed
        /\ new.warned = [st.warned EXCEPT ![w] = st.warned[w] + 1]
    BY <1>5, <2>1 DEF States
  <2> QED BY <1>4, <1>5, <2>1, <2>3, <2>4
<1>7. Within(new)
  <2>1. st.files \in Nat /\ budget.files \in Nat /\ st.bytes \in Nat /\ budget.bytes \in Nat
    BY <1>1, TreeFacts DEF States
  <2> QED BY <1>1, <1>6, <2>1 DEF Within, Retained
<1>8. Grown(cut, with, e)
  BY <1>3 DEF Grown
<1>9. RowPart(with, e) = NoRow /\ Reason(e, Reached, with) = w
  <2>1. tree[e].fate # "torn"
    BY <1>1, TreeFacts, ReachedKinds
  <2> QED BY <1>3, <2>1 DEF RowPart, NoRow, Reason, w
<1>10. e \notin Enumerated(Reached) /\ ~ Lists(e, Reached) /\ ~ (tree[e].kind = "dir" /\ Opens(e))
  BY DEF Enumerated, Lists
<1>11. { c \in Reached : c # e /\ tree[c].up = e } = {}
  BY <1>1, <1>10, ReachedKinds
<1> HIDE DEF with
<1>12. \A c \in Codes :
         new.warned[c] = st.warned[c] + (IF Reason(e, Reached, with) = c THEN 1 ELSE 0)
                           + (IF e \in Enumerated(Reached) THEN Cardinality(Reported(e, c)) ELSE 0)
  BY <1>5, <1>6, <1>9, <1>10
<1>13. Caught(new, rows, with, e + 1) /\ with \in SUBSET Cuttable(Reached)
  <2>1. Effect(st, new, with, e)
    BY <1>6, <1>9, <1>10, <1>11, <1>12 DEF Effect
  <2> QED BY <1>8, <2>1, Advance
<1>14. Processed(new, rows, e)
  BY <1>6, <1>7, <1>13 DEF Processed
<1> QED BY <1>14 DEF new, w

LEMMA ChildrenFacts ==
  ASSUME AskInv, NEW e
  PROVE  /\ IsFiniteSet(Children(e)) /\ Cardinality(Children(e)) \in Nat
         /\ IsFiniteSet(Units(e)) /\ Cardinality(Units(e)) \in Nat /\ Units(e) \in SUBSET DOMAIN tree
<1>1. IsFiniteSet(DOMAIN tree)
  <2>1. Len(tree) \in Nat /\ DOMAIN tree = 1 .. Len(tree)
    BY TreeFacts
  <2> QED BY <2>1, FS_Interval
<1>2. Children(e) \in SUBSET DOMAIN tree /\ Units(e) \in SUBSET DOMAIN tree
  BY DEF Units, Children
<1>3. IsFiniteSet(Children(e)) /\ IsFiniteSet(Units(e))
  BY <1>1, <1>2, FS_Subset
<1> QED BY <1>2, <1>3, FS_CardinalityType

(* A directory that is read adds its entries, or what it could not show.   *)
LEMMA EnumerateProcessed ==
  ASSUME AskInv, NEW st, NEW rows, NEW cut, NEW e, Standing(st, rows, cut, e),
         Opens(e), tree[e].kind = "dir", e \in Enumerated(Reached),
         NEW with, Grown(cut, with, e), Own(e, with) = "none",
         NEW shown \in States, Within(shown), shown.code = "none", shown.pending = RowPart(with, e),
         shown.frontier = st.frontier, shown.seen = st.seen \cup {tree[e].id},
         \A c \in Codes : shown.warned[c] = st.warned[c]
  PROVE  Processed(Enumerate(shown, e), rows, e)
<1> DEFINE size == Cardinality(Children(e))
           noted == [c \in Codes |-> shown.warned[c] + Cardinality(Reported(e, c))]
           listed == [shown EXCEPT !.bytes = shown.bytes + size, !.warned = noted]
           failed == Failed(shown, "budget_exceeded")
           new == Enumerate(shown, e)
<1>1. Processed(failed, rows, e)
  <2>1. failed = [shown EXCEPT !.code = "budget_exceeded"] /\ "budget_exceeded" \in {"none"} \cup Errors
    BY DEF Failed, Errors
  <2> HIDE DEF failed
  <2>2. failed \in States
    BY <2>1, FieldFacts
  <2>3. failed.pending = RowPart(with, e) /\ failed.code # "none"
    BY <2>1 DEF States
  <2>4. BrokenOff(failed, rows)
    BY <2>3, BrokenOffFacts
  <2> QED BY <2>2, <2>3, <2>4 DEF Processed
<1>2. size \in Nat /\ IsFiniteSet(Units(e)) /\ Cardinality(Units(e)) \in Nat /\ Units(e) \in SUBSET DOMAIN tree
  BY ChildrenFacts
<1>3. /\ st \in States /\ shown.bytes \in Nat /\ shown.warned \in [Codes -> Nat] /\ st.warned \in [Codes -> Nat]
      /\ e \in Reached
  BY DEF Standing, States
<1>4. noted \in [Codes -> Nat] /\ \A c \in Codes : noted[c] = st.warned[c] + Cardinality(Reported(e, c))
  BY <1>3, ReportedFacts
<1> HIDE DEF noted, size
<1>5. /\ listed \in States /\ listed.frontier = st.frontier /\ listed.pending = RowPart(with, e)
      /\ listed.seen = st.seen \cup {tree[e].id} /\ listed.warned = noted /\ listed.code = "none"
      /\ listed.files = shown.files /\ listed.dirs = shown.dirs /\ listed.parsed = shown.parsed
      /\ listed.bytes = shown.bytes + size
  <2>1. shown.bytes + size \in Nat
    BY <1>2, <1>3
  <2>2. listed \in States
    <3>1. [shown EXCEPT !.bytes = shown.bytes + size] \in States
      BY <2>1, FieldFacts
    <3> QED BY <1>4, <3>1, FieldFacts
  <2>3. /\ listed.frontier = shown.frontier /\ listed.pending = shown.pending
        /\ listed.seen = shown.seen /\ listed.warned = noted /\ listed.code = shown.code
        /\ listed.files = shown.files /\ listed.dirs = shown.dirs /\ listed.parsed = shown.parsed
        /\ listed.bytes = shown.bytes + size
    BY DEF States
  <2> HIDE DEF listed
  <2> QED BY <2>2, <2>3
<1>6. new = IF size > budget.bytes - shown.bytes THEN failed
            ELSE IF Listed(shown, Units(e)) THEN failed
            ELSE IF tree[e].fate = "torn" THEN Warned(listed, "unreadable")
            ELSE [listed EXCEPT !.frontier = listed.frontier \cup Units(e)]
  BY DEF Enumerate, size, noted
<1> HIDE DEF listed, failed, new
<1>7. CASE size > budget.bytes - shown.bytes \/ Listed(shown, Units(e))
  <2>1. new = failed
    BY <1>6, <1>7
  <2> QED BY <1>1, <2>1 DEF new
<1>8. CASE ~ (size > budget.bytes - shown.bytes) /\ ~ Listed(shown, Units(e))
  <2>1. listed.bytes <= budget.bytes /\ budget \in [files : Nat, dirs : Nat, bytes : Nat, parsed : Nat, retained : Nat]
    <3>1. budget \in [files : Nat, dirs : Nat, bytes : Nat, parsed : Nat, retained : Nat]
      BY TreeFacts
    <3> QED BY <1>2, <1>3, <1>5, <1>8, <3>1
  <2>2. /\ Retained(shown) = Cardinality(st.frontier) + Len(shown.pending) /\ Len(shown.pending) \in Nat
        /\ IsFiniteSet(st.frontier) /\ Cardinality(st.frontier) \in Nat
        /\ Retained(shown) + Cardinality(Units(e)) <= budget.retained
    <3>1. /\ Retained(shown) = Cardinality(shown.frontier) + Len(shown.pending) /\ Len(shown.pending) \in Nat
          /\ IsFiniteSet(shown.frontier) /\ Cardinality(shown.frontier) \in Nat
      BY StateFacts
    <3>2. ~ (Retained(shown) + Cardinality(Units(e)) > budget.retained)
      BY <1>8 DEF Listed
    <3> QED BY <1>2, <2>1, <3>1, <3>2
  <2>3. CASE tree[e].fate = "torn"
    <3> DEFINE w == "unreadable"
    <3>1. w \in Codes
      BY DEF Codes
    <3>2. new = [listed EXCEPT !.warned = [noted EXCEPT ![w] = noted[w] + 1]]
      BY <1>5, <1>6, <1>8, <2>3 DEF Warned, States
    <3> HIDE DEF w
    <3>3. [noted EXCEPT ![w] = noted[w] + 1] \in [Codes -> Nat]
      BY <1>4, <3>1
    <3>4. new \in States
      BY <1>5, <3>2, <3>3, FieldFacts
    <3>5. /\ new.frontier = listed.frontier /\ new.pending = listed.pending /\ new.seen = listed.seen
          /\ new.code = listed.code /\ new.files = listed.files /\ new.dirs = listed.dirs
          /\ new.parsed = listed.parsed /\ new.bytes = listed.bytes
          /\ new.warned = [noted EXCEPT ![w] = noted[w] + 1]
      BY <1>5, <3>2 DEF States
    <3>6. Within(new)
      <4>1. Retained(new) = Cardinality(st.frontier) + Len(shown.pending)
        BY <1>5, <3>5 DEF Retained
      <4> QED BY <1>2, <1>5, <2>1, <2>2, <3>5, <4>1 DEF Within
    <3>7. Reason(e, Reached, with) = w /\ ~ Lists(e, Reached)
      <4>1. tree[e].depth < ask.depth /\ ~ SeenBefore(e, Reached)
        BY DEF Enumerated
      <4> QED BY <2>3, <4>1 DEF Reason, Lists, w
    <3>8. { c \in Reached : c # e /\ tree[c].up = e } = {}
      BY <1>3, <3>7, ReachedKinds
    <3>9. \A c \in Codes :
            new.warned[c] = st.warned[c] + (IF Reason(e, Reached, with) = c THEN 1 ELSE 0)
                              + (IF e \in Enumerated(Reached) THEN Cardinality(Reported(e, c)) ELSE 0)
      <4> TAKE c \in Codes
      <4>1. st.warned[c] \in Nat /\ Cardinality(Reported(e, c)) \in Nat
        BY <1>3, ReportedFacts
      <4>2. new.warned[c] = noted[c] + IF w = c THEN 1 ELSE 0
        BY <1>4, <3>1, <3>5
      <4> QED BY <1>4, <3>7, <4>1, <4>2
    <3>10. Effect(st, new, with, e)
      BY <1>5, <3>4, <3>5, <3>8, <3>9 DEF Effect
    <3>11. Caught(new, rows, with, e + 1) /\ with \in SUBSET Cuttable(Reached)
      BY <3>10, Advance
    <3>12. new.code = "none"
      BY <1>5, <3>5
    <3> QED BY <3>4, <3>6, <3>11, <3>12 DEF Processed, new
  <2>4. CASE tree[e].fate # "torn"
    <3>2. new = [listed EXCEPT !.frontier = st.frontier \cup Units(e)]
      BY <1>5, <1>6, <1>8, <2>4
    <3>3. st.frontier \cup Units(e) \in SUBSET DOMAIN tree
      BY <1>2, <1>3 DEF States
    <3>4. new \in States
      BY <1>5, <3>2, <3>3, FieldFacts
    <3>5. /\ new.frontier = st.frontier \cup Units(e) /\ new.pending = listed.pending /\ new.seen = listed.seen
          /\ new.code = listed.code /\ new.files = listed.files /\ new.dirs = listed.dirs
          /\ new.parsed = listed.parsed /\ new.bytes = listed.bytes /\ new.warned = noted
      BY <1>5, <3>2 DEF States
    <3>6. Within(new)
      <4>1. Retained(new) = Cardinality(st.frontier \cup Units(e)) + Len(shown.pending)
        BY <1>5, <3>5 DEF Retained
      <4>2. /\ Cardinality(st.frontier \cup Units(e)) \in Nat
            /\ Cardinality(st.frontier \cup Units(e)) <= Cardinality(st.frontier) + Cardinality(Units(e))
        <5>1. Cardinality(st.frontier \cup Units(e))
                = Cardinality(st.frontier) + Cardinality(Units(e)) - Cardinality(st.frontier \cap Units(e))
          BY <1>2, <2>2, FS_Union
        <5>2. IsFiniteSet(st.frontier \cup Units(e)) /\ IsFiniteSet(st.frontier \cap Units(e))
          BY <1>2, <2>2, FS_Union, FS_Intersection
        <5>3. Cardinality(st.frontier \cup Units(e)) \in Nat /\ Cardinality(st.frontier \cap Units(e)) \in Nat
          BY <5>2, FS_CardinalityType
        <5> QED BY <1>2, <2>2, <5>1, <5>3
      <4>3. Retained(new) <= budget.retained
        BY <1>2, <2>1, <2>2, <4>1, <4>2
      <4> QED BY <1>5, <2>1, <3>5, <4>3 DEF Within
    <3>7. Reason(e, Reached, with) = "none" /\ Lists(e, Reached)
      BY <2>4 DEF Reason, Own, Lists
    <3>8. { c \in Reached : c # e /\ tree[c].up = e } = Units(e)
      BY <1>3, <3>7, ReachedKinds
    <3>9. \A c \in Codes :
            new.warned[c] = st.warned[c] + (IF Reason(e, Reached, with) = c THEN 1 ELSE 0)
                              + (IF e \in Enumerated(Reached) THEN Cardinality(Reported(e, c)) ELSE 0)
      <4> TAKE c \in Codes
      <4>1. st.warned[c] \in Nat /\ Cardinality(Reported(e, c)) \in Nat
        BY <1>3, ReportedFacts
      <4>2. "none" # c
        BY DEF Codes
      <4> QED BY <1>4, <3>5, <3>7, <4>1, <4>2
    <3>10. Effect(st, new, with, e)
      BY <1>5, <3>4, <3>5, <3>8, <3>9 DEF Effect
    <3>11. Caught(new, rows, with, e + 1) /\ with \in SUBSET Cuttable(Reached)
      BY <3>10, Advance
    <3>12. new.code = "none"
      BY <1>5, <3>5
    <3> QED BY <3>4, <3>6, <3>11, <3>12 DEF Processed, new
  <2> QED BY <2>3, <2>4
<1> QED BY <1>7, <1>8

(* A directory is known by its object when a smaller name led to it.       *)
LEMMA SeenFacts ==
  ASSUME AskInv, NEW st, NEW rows, NEW cut, NEW e, Standing(st, rows, cut, e), tree[e].kind = "dir"
  PROVE  tree[e].id \in st.seen <=> SeenBefore(e, Reached)
<1>1. e \in Reached /\ st.seen = Ids(e)
  BY DEF Standing
<1>2. \A d \in Reached : d \in DOMAIN tree
  BY ReachedFacts
<1>3. \A d \in Reached : tree[d].id = tree[e].id => tree[d].kind = "dir"
  BY <1>1, <1>2, TreeFacts
<1> QED BY <1>1, <1>3 DEF Ids, Earlier, SeenBefore

LEMMA VisitProcessed ==
  ASSUME AskInv, NEW st, NEW rows, NEW cut, NEW e, Standing(st, rows, cut, e), Opens(e), tree[e].kind = "dir"
  PROVE  Processed(Visit(st, e), rows, e)
<1> DEFINE again == tree[e].id \in st.seen
           seen == st.seen \cup {tree[e].id}
           dirs == IF again THEN st.dirs ELSE st.dirs + 1
           opened == [st EXCEPT !.seen = seen, !.dirs = dirs]
           shown == Apply(opened, e, Consume(opened, e))
           new == Visit(st, e)
<1>1. /\ e \in Reached /\ st \in States /\ Within(st) /\ st.code = "none" /\ st.pending = NoRow
      /\ cut \in CutsBefore(e)
  BY DEF Standing
<1>2. e \notin cut
  BY <1>1, EarlierFacts DEF CutsBefore
<1>3. Grown(cut, cut, e)
  BY DEF Grown
<1>4. again <=> SeenBefore(e, Reached)
  BY SeenFacts
<1>5. new = IF ~ again /\ st.dirs >= budget.dirs THEN Failed(st, "budget_exceeded")
            ELSE IF shown.code # "none" \/ again \/ tree[e].depth >= ask.depth THEN shown
            ELSE Enumerate(shown, e)
  BY DEF Visit
<1>6. st.dirs \in Nat /\ budget.dirs \in Nat /\ st.seen \in SUBSET Nat /\ seen \in SUBSET Nat /\ dirs \in Nat
      /\ st.warned \in [Codes -> Nat]
  <2>1. tree[e].id \in Nat
    BY <1>1, ReachedFacts, EntryFacts
  <2> QED BY <1>1, <2>1, TreeFacts DEF States
<1> HIDE DEF again, new
<1>7. CASE ~ again /\ st.dirs >= budget.dirs
  <2>1. new = [st EXCEPT !.code = "budget_exceeded"] /\ "budget_exceeded" \in {"none"} \cup Errors
    BY <1>5, <1>7 DEF Failed, Errors
  <2>2. new \in States
    BY <1>1, <2>1, FieldFacts
  <2>3. new.pending = st.pending /\ new.code # "none"
    <3>1. st \in States
      BY <1>1
    <3> QED BY <2>1, <3>1 DEF States
  <2>4. BrokenOff(new, rows)
    BY <1>1, <1>3, <2>3, BrokenOffFacts
  <2> QED BY <2>2, <2>3, <2>4 DEF Processed, new
<1>8. CASE ~ (~ again /\ st.dirs >= budget.dirs)
  <2>1. new = IF shown.code # "none" \/ again \/ tree[e].depth >= ask.depth THEN shown
              ELSE Enumerate(shown, e)
    BY <1>5, <1>8
  <2>2. dirs <= budget.dirs
    <3>1. st.dirs <= budget.dirs
      BY <1>1 DEF Within
    <3> QED BY <1>6, <1>8, <3>1
  <2> HIDE DEF dirs, seen
  <2>3. /\ opened \in States /\ opened.pending = NoRow /\ opened.code = "none" /\ opened.frontier = st.frontier
        /\ opened.seen = seen /\ opened.warned = st.warned /\ opened.files = st.files
        /\ opened.dirs = dirs /\ opened.bytes = st.bytes /\ opened.parsed = st.parsed
    <3>1. st \in States /\ st.pending = NoRow /\ st.code = "none"
      BY <1>1
    <3>2. opened \in States
      <4>1. [st EXCEPT !.seen = seen] \in States
        BY <1>6, <3>1, FieldFacts
      <4> QED BY <1>6, <4>1, FieldFacts
    <3>3. /\ opened.pending = st.pending /\ opened.code = st.code /\ opened.frontier = st.frontier
          /\ opened.seen = seen /\ opened.warned = st.warned /\ opened.files = st.files
          /\ opened.dirs = dirs /\ opened.bytes = st.bytes /\ opened.parsed = st.parsed
      <4>1. st \in States
        BY <3>1
      <4> QED BY <4>1 DEF States
    <3> HIDE DEF opened
    <3> QED BY <3>1, <3>2, <3>3
  <2> HIDE DEF opened
  <2>4. Within(opened)
    BY <1>1, <2>2, <2>3 DEF Within, Retained
  <2>5. Settled(opened, e, cut, Consume(opened, e))
    BY <1>1, <1>2, <2>3, <2>4, ConsumeFacts
  <2>6. Took(opened, shown, e, cut)
    BY <1>1, <2>3, <2>4, <2>5, ApplyFacts
  <2> HIDE DEF shown
  <2>7. CASE shown.code # "none"
    <3>1. shown \in States /\ shown.pending = NoRow /\ new = shown
      BY <2>1, <2>6, <2>7 DEF Took
    <3>2. BrokenOff(shown, rows)
      BY <1>3, <3>1, BrokenOffFacts
    <3>3. Processed(shown, rows, e)
      BY <2>7, <3>1, <3>2 DEF Processed
    <3> QED BY <3>1, <3>3 DEF new
  <2>8. CASE shown.code = "none"
    <3>1. PICK with :
            /\ Grown(cut, with, e) /\ shown.pending = RowPart(with, e)
            /\ \A c \in Codes : shown.warned[c] = opened.warned[c] + IF Own(e, with) = c THEN 1 ELSE 0
      BY <2>6, <2>8 DEF Took
    <3>2. /\ shown \in States /\ Within(shown) /\ shown.frontier = st.frontier
          /\ shown.seen = st.seen \cup {tree[e].id}
      BY <2>3, <2>6, <2>8 DEF Took, seen
    <3>3. Own(e, with) = "none"
      BY DEF Own, Looked
    <3>4. \A c \in Codes : shown.warned[c] = st.warned[c] /\ st.warned[c] \in Nat /\ c # "none"
      <4>1. \A c \in Codes : st.warned[c] \in Nat /\ c # "none"
        BY <1>6 DEF Codes
      <4> QED BY <2>3, <3>1, <3>3, <4>1
    <3>5. CASE again \/ tree[e].depth >= ask.depth
      <4>1. e \notin Enumerated(Reached) /\ ~ Lists(e, Reached)
        <5>1. tree[e].depth \in Nat /\ ask.depth \in Nat
          BY <1>1, ReachedFacts, EntryFacts, TreeFacts
        <5>2. ~ (tree[e].depth < ask.depth /\ ~ SeenBefore(e, Reached))
          BY <1>4, <3>5, <5>1
        <5> QED BY <5>2 DEF Enumerated, Lists
      <4>2. Reason(e, Reached, with) = "none"
        <5>1. ~ (tree[e].depth < ask.depth /\ ~ SeenBefore(e, Reached))
          BY <1>1, <4>1 DEF Enumerated
        <5> QED BY <3>3, <5>1 DEF Reason, Own
      <4>3. { c \in Reached : c # e /\ tree[c].up = e } = {}
        BY <1>1, <4>1, ReachedKinds
      <4>4. \A c \in Codes :
              shown.warned[c] = st.warned[c] + (IF Reason(e, Reached, with) = c THEN 1 ELSE 0)
                                + (IF e \in Enumerated(Reached) THEN Cardinality(Reported(e, c)) ELSE 0)
        BY <3>4, <4>1, <4>2
      <4>5. Effect(st, shown, with, e)
        BY <3>1, <3>2, <4>3, <4>4 DEF Effect
      <4>6. Caught(shown, rows, with, e + 1) /\ with \in SUBSET Cuttable(Reached)
        BY <3>1, <4>5, Advance
      <4>7. Processed(shown, rows, e)
        BY <2>8, <3>2, <4>6 DEF Processed
      <4>8. new = shown
        BY <2>1, <3>5
      <4> QED BY <4>7, <4>8 DEF new
    <3>6. CASE ~ (again \/ tree[e].depth >= ask.depth)
      <4>1. e \in Enumerated(Reached)
        <5>1. tree[e].depth \in Nat /\ ask.depth \in Nat
          BY <1>1, ReachedFacts, EntryFacts, TreeFacts
        <5>2. tree[e].depth < ask.depth /\ ~ SeenBefore(e, Reached)
          BY <1>4, <3>6, <5>1
        <5> QED BY <1>1, <5>2 DEF Enumerated
      <4>2. new = Enumerate(shown, e)
        BY <2>1, <2>8, <3>6
      <4>3. \A c \in Codes : shown.warned[c] = st.warned[c]
        BY <3>4
      <4>4. Processed(Enumerate(shown, e), rows, e)
        BY <2>8, <3>1, <3>2, <3>3, <4>1, <4>3, EnumerateProcessed
      <4> QED BY <4>2, <4>4 DEF new
    <3> QED BY <3>5, <3>6
  <2> QED BY <2>7, <2>8
<1> QED BY <1>7, <1>8

(* The scan opens the entry that was asked for.                            *)
LEMMA OpeningProcessed ==
  ASSUME AskInv
  PROVE  Processed(Opening, <<>>, 1) /\ 1 + 1 \in 2 .. Whole
<1> DEFINE cut == {}
<1>1. 1 \in Reached /\ Opens(1) /\ tree[1].kind \in {"dir", "file"} /\ tree[1].up = 1
  BY ReachedFacts, TreeFacts
<1>2. Earlier(1) = {} /\ 1 + 1 \in 2 .. Whole /\ 1 \in 1 .. Whole
  BY <1>1, EarlierFacts
<1>3. cut \in CutsBefore(1)
  BY <1>2 DEF CutsBefore
<1>4. Delivered(cut, 1) = <<>>
  BY <1>2, DeliveredFacts
<1>5. \A c : Count(cut, 1, c) = 0
  <2> TAKE c
  <2>1. { e \in Earlier(1) : Reason(e, Reached, cut) = c } = {}
    BY <1>2
  <2>2. UNION { Reported(d, c) : d \in Enumerated(Reached) \cap Earlier(1) } = {}
    BY <1>2
  <2>3. Cardinality({}) = 0
    BY FS_EmptySet
  <2> QED BY <2>1, <2>2, <2>3 DEF Count
<1>6. NoWarnings = [c \in Codes |-> Count(cut, 1, c)] /\ NoWarnings \in [Codes -> Nat]
  BY <1>5 DEF NoWarnings
<1>7. Ids(1) = {}
  BY <1>2 DEF Ids
<1>8. { c \in Reached : 1 < c /\ tree[c].up < 1 } = {}
  <2> SUFFICES ASSUME NEW c \in Reached, 1 < c, tree[c].up < 1 PROVE FALSE
    OBVIOUS
  <2>1. c \in DOMAIN tree \ {1} /\ c \in Nat
    BY ReachedKinds
  <2>2. tree[c].up \in 1 .. c - 1
    BY <2>1, TreeFacts
  <2> QED BY <2>1, <2>2
<1>9. Fresh \in States /\ Fresh.code = "none" /\ Fresh.pending = NoRow /\ Fresh.frontier = {} /\ Fresh.seen = {}
      /\ Fresh.warned = NoWarnings
  BY <1>6 DEF Fresh, States, NoRow
<1>10. Within(Fresh)
  <2>1. Cardinality({}) = 0
    BY FS_EmptySet
  <2>2. /\ budget.retained \in Nat /\ budget.files \in Nat /\ budget.dirs \in Nat
        /\ budget.bytes \in Nat /\ budget.parsed \in Nat
    BY TreeFacts
  <2> QED BY <2>1, <2>2 DEF Within, Retained, Fresh
<1>11. Standing(Fresh, <<>>, cut, 1)
  BY <1>1, <1>3, <1>4, <1>6, <1>7, <1>8, <1>9, <1>10 DEF Standing
<1>12. Processed(Opening, <<>>, 1)
  <2>1. CASE Explicit
    BY <1>1, <1>11, <2>1, ReadProcessed DEF Opening, Explicit
  <2>2. CASE ~ Explicit
    BY <1>1, <1>11, <2>2, VisitProcessed DEF Opening, Explicit
  <2> QED BY <2>1, <2>2
<1> QED BY <1>2, <1>12

(* The next entry of a scan that goes on is the first one of its frontier. *)
LEMMA NextEntry ==
  ASSUME AskInv, NEW st \in States, Within(st), st.code = "none", st.pending = NoRow, st.frontier # {},
         NEW rows \in Seq(RowSet), NEW n \in 2 .. Whole, NEW cut, Caught(st, rows, cut, n)
  PROVE  LET e == First(st)
         IN  /\ Standing(Popped(st), rows, cut, e) /\ e # 1 /\ e + 1 \in 2 .. Whole
             /\ \A c \in Reached : e + 1 <= c => e < c
<1> DEFINE e == First(st)
           new == Popped(st)
<1>1. st.frontier = Ahead(n) /\ n \in 1 .. Whole
  BY DEF Caught, Ahead
<1>2. /\ e \in Ahead(n) /\ Earlier(e) = Earlier(n)
      /\ Ahead(n) \ {e} = { c \in Reached : e < c /\ tree[c].up < e }
  BY <1>1, AheadFacts DEF First
<1>0. new = [st EXCEPT !.frontier = st.frontier \ {e}]
  BY DEF Popped
<1> HIDE DEF e, new
<1>3. e \in Reached /\ n <= e
  BY <1>2 DEF Ahead
<1>4. e \in Nat /\ n \in Nat /\ 2 <= n /\ e # 1 /\ e \in 1 .. Whole /\ e + 1 \in 2 .. Whole
  <2>1. e \in Nat /\ e \in 1 .. Whole /\ e + 1 \in 2 .. Whole
    BY <1>3, ReachedKinds, EarlierFacts
  <2>2. Whole \in Nat
    BY TreeFacts DEF Whole
  <2> QED BY <1>3, <2>1, <2>2
<1>5. /\ new \in States /\ new.frontier = st.frontier \ {e} /\ new.pending = NoRow /\ new.code = "none"
      /\ new.seen = st.seen /\ new.warned = st.warned /\ new.files = st.files
      /\ new.dirs = st.dirs /\ new.bytes = st.bytes /\ new.parsed = st.parsed
  <2>1. st \in States /\ st.pending = NoRow /\ st.code = "none"
    OBVIOUS
  <2>2. st.frontier \ {e} \in SUBSET DOMAIN tree
    BY <2>1 DEF States
  <2>3. new \in States
    BY <1>0, <2>1, <2>2, FieldFacts
  <2>4. /\ new.frontier = st.frontier \ {e} /\ new.pending = st.pending /\ new.code = st.code
        /\ new.seen = st.seen /\ new.warned = st.warned /\ new.files = st.files
        /\ new.dirs = st.dirs /\ new.bytes = st.bytes /\ new.parsed = st.parsed
    BY <1>0, <2>1 DEF States
  <2> QED BY <2>1, <2>3, <2>4
<1>6. Within(new)
  <2>1. IsFiniteSet(st.frontier) /\ Cardinality(st.frontier) \in Nat /\ Retained(st) \in Nat
        /\ Retained(st) = Cardinality(st.frontier) + Len(st.pending) /\ Len(st.pending) = 0
    BY StateFacts
  <2>2. Cardinality(new.frontier) = Cardinality(st.frontier) - 1
    <3>1. e \in st.frontier /\ IsFiniteSet(st.frontier)
      BY <1>1, <1>2, <2>1
    <3>2. Cardinality(st.frontier \ {e}) = Cardinality(st.frontier) - 1
      BY <3>1, FS_RemoveElement
    <3> QED BY <1>5, <3>2
  <2>3. Retained(new) = Cardinality(st.frontier) - 1
    <3>1. new \in States /\ new.pending = NoRow
      BY <1>5
    <3>2. Retained(new) = Cardinality(new.frontier) + Len(new.pending) /\ Len(new.pending) = 0
      BY <3>1, StateFacts
    <3> QED BY <2>1, <2>2, <3>2
  <2>4. Retained(new) <= budget.retained
    <3>1. budget.retained \in Nat /\ Retained(st) <= budget.retained
      BY TreeFacts DEF Within
    <3> QED BY <2>1, <2>3, <3>1
  <2> QED BY <1>5, <2>4 DEF Within
<1>7. cut \in CutsBefore(e) /\ cut \in CutsBefore(n)
  BY <1>2 DEF Caught, CutsBefore
<1>8. rows = Delivered(cut, e)
  <2>1. rows \o st.pending = Delivered(cut, n)
    BY DEF Caught
  <2>2. rows \o NoRow = rows
    BY DEF NoRow
  <2>3. Delivered(cut, n) = Delivered(cut, e)
    BY <1>1, <1>2, <1>4, DeliveredSame
  <2> QED BY <2>1, <2>2, <2>3
<1>9. new.seen = Ids(e)
  BY <1>2, <1>5 DEF Caught, Ids
<1>10. new.warned = [c \in Codes |-> Count(cut, e, c)]
  <2>1. \A c : Count(cut, n, c) = Count(cut, e, c)
    BY <1>2, CountSame
  <2> QED BY <1>5, <2>1 DEF Caught
<1>11. Standing(new, rows, cut, e)
  BY <1>1, <1>2, <1>3, <1>5, <1>6, <1>7, <1>8, <1>9, <1>10 DEF Standing
<1>12. \A c \in Reached : e + 1 <= c => e < c
  <2>1. \A c \in Reached : c \in Nat
    BY ReachedKinds
  <2> QED BY <1>4, <2>1
<1> QED BY <1>4, <1>11, <1>12 DEF e, new

LEMMA NextProcessed ==
  ASSUME AskInv, NEW st \in States, Within(st), st.code = "none", st.pending = NoRow, st.frontier # {},
         NEW rows \in Seq(RowSet), NEW n \in 2 .. Whole, NEW cut, Caught(st, rows, cut, n)
  PROVE  LET e == First(st)
         IN  /\ e + 1 \in 2 .. Whole
             /\ \A c \in Reached : e + 1 <= c => e < c
             /\ Processed(ProcessNext(st), rows, e)
             /\ ask.mode = "symbol" /\ tree[e].kind = "file" /\ Opens(e) /\ st.files < budget.files =>
                  \A read \in Nat : read <= budget.bytes - st.bytes => Processed(Late(st, read), rows, e)
<1> DEFINE e == First(st)
           popped == Popped(st)
<1>1. /\ Standing(popped, rows, cut, e) /\ e # 1 /\ e + 1 \in 2 .. Whole
      /\ \A c \in Reached : e + 1 <= c => e < c
  BY NextEntry
<1>2. ProcessNext(st) =
        IF ~ Opens(e) THEN Warned(popped, OpenWarning[tree[e].fate])
        ELSE IF tree[e].kind = "dir" THEN Visit(popped, e) ELSE Read(popped, e)
  BY DEF ProcessNext, Opens
<1>3. \A read : Late(st, read) = [Warned(popped, "parser_skipped") EXCEPT !.files = @ + 1, !.bytes = @ + read]
  BY DEF Late
<1>4. popped.files = st.files /\ popped.bytes = st.bytes
  <2>1. st \in States
    OBVIOUS
  <2> QED BY <2>1 DEF Popped, States
<1> HIDE DEF e, popped
<1>5. tree[e].kind \in {"dir", "file"}
  <2>1. e \in Reached
    BY <1>1 DEF Standing
  <2> QED BY <2>1, ReachedKinds
<1>6. Processed(ProcessNext(st), rows, e)
  <2>1. CASE ~ Opens(e)
    BY <1>1, <1>2, <2>1, ClosedProcessed
  <2>2. CASE Opens(e) /\ tree[e].kind = "dir"
    BY <1>1, <1>2, <2>2, VisitProcessed
  <2>3. CASE Opens(e) /\ tree[e].kind = "file"
    BY <1>1, <1>2, <2>3, ReadProcessed
  <2> QED BY <1>5, <2>1, <2>2, <2>3
<1>7. ASSUME ask.mode = "symbol", tree[e].kind = "file", Opens(e), st.files < budget.files,
             NEW read \in Nat, read <= budget.bytes - st.bytes
      PROVE  Processed(Late(st, read), rows, e)
  <2>1. popped.files < budget.files /\ read <= budget.bytes - popped.bytes
    BY <1>4, <1>7
  <2>2. Processed([Warned(popped, "parser_skipped") EXCEPT !.files = @ + 1, !.bytes = @ + read], rows, e)
    BY <1>1, <1>7, <2>1, LateProcessed
  <2> QED BY <1>3, <2>2
<1> QED BY <1>1, <1>6, <1>7 DEF e

(* A scan with nothing ahead and nothing waiting has delivered the tree.   *)
LEMMA EndFacts ==
  ASSUME AskInv, NEW st, NEW rows \in Seq(RowSet), NEW n \in 2 .. Whole, NEW cut, Caught(st, rows, cut, n),
         st.frontier = {}, st.pending = <<>>
  PROVE  rows = RowsBut(Reached, cut) /\ st.warned = WarningsBut(Reached, cut)
<1>1. Earlier(n) = Reached /\ Earlier(Whole) = Reached
  <2>1. Ahead(n) = {}
    BY DEF Caught, Ahead
  <2> QED BY <2>1, AheadFacts, EarlierFacts
<1>2. n \in 1 .. Whole /\ Whole \in 1 .. Whole
  <2>1. Whole \in Nat /\ 1 <= Whole
    BY TreeFacts DEF Whole
  <2> QED BY <2>1 DEF Caught
<1>3. rows = RowsBut(Reached, cut)
  <2>1. rows = Delivered(cut, n)
    <3>1. rows \o <<>> = rows
      OBVIOUS
    <3> QED BY <3>1 DEF Caught
  <2>2. Delivered(cut, n) = Delivered(cut, Whole)
    BY <1>1, <1>2, DeliveredSame
  <2> QED BY <1>2, <2>1, <2>2, DeliveredFacts
<1>4. st.warned = WarningsBut(Reached, cut)
  <2>1. \A c : Count(cut, n, c) = Count(cut, Whole, c)
    BY <1>1, CountSame
  <2>2. Enumerated(Reached) \cap Earlier(Whole) = Enumerated(Reached)
    BY <1>1 DEF Enumerated
  <2>3. \A c : Count(cut, Whole, c) = Cardinality({ e \in Reached : Reason(e, Reached, cut) = c })
                                       + Cardinality(UNION { Reported(d, c) : d \in Enumerated(Reached) })
    BY <1>1, <2>2 DEF Count
  <2> QED BY <2>1, <2>3 DEF Caught, WarningsBut
<1> QED BY <1>3, <1>4

-------------------------------------------------------------------------------
(* What a call makes of a lineage                                          *)

LEMMA BeyondFacts ==
  ASSUME AskInv, NEW st \in States, NEW from \in States
  PROVE  /\ Beyond(st, from) => st # from
         /\ \A new \in States :
              /\ st.frontier # {} /\ (st = from \/ Beyond(st, from)) /\ (\A c \in new.frontier : First(st) < c)
                   => Beyond(new, from)
              /\ new.frontier = st.frontier /\ Len(new.pending) < Len(st.pending)
                   /\ (st = from \/ Beyond(st, from)) => Beyond(new, from)
<1>1. \A s \in States : /\ s.frontier # {} => First(s) \in s.frontier
                        /\ \A c \in s.frontier : c \in Nat
                        /\ Len(s.pending) \in Nat
  <2> TAKE s \in States
  <2>1. s.frontier \in SUBSET DOMAIN tree /\ s.pending \in Seq(RowSet)
    BY DEF States
  <2>2. s.frontier \in SUBSET Nat
    <3>1. Len(tree) \in Nat /\ DOMAIN tree = 1 .. Len(tree)
      BY TreeFacts
    <3> QED BY <2>1, <3>1
  <2>3. s.frontier # {} => First(s) \in s.frontier
    BY <2>2, LeastNumber DEF First
  <2> QED BY <2>1, <2>2, <2>3
<1>2. Beyond(st, from) => st # from
  <2> SUFFICES ASSUME Beyond(st, st), st = from PROVE FALSE
    OBVIOUS
  <2> QED BY <1>1 DEF Beyond
<1>3. ASSUME NEW new \in States, st.frontier # {}, st = from \/ Beyond(st, from),
             \A c \in new.frontier : First(st) < c
      PROVE  Beyond(new, from)
  <2>1. First(st) \in st.frontier /\ First(st) \in Nat /\ \A c \in new.frontier : c \in Nat
    BY <1>1, <1>3
  <2>2. CASE st.frontier = from.frontier
    <3>1. First(st) = First(from)
      BY <2>2 DEF First
    <3> QED BY <1>3, <2>2, <3>1 DEF Beyond
  <2>3. CASE from.frontier # {} /\ \A c \in st.frontier : First(from) < c
    <3>1. First(from) \in Nat
      BY <1>1, <2>3
    <3>2. First(from) < First(st)
      BY <2>1, <2>3
    <3>3. \A c \in new.frontier : First(from) < c
      BY <1>3, <2>1, <3>1, <3>2
    <3> QED BY <2>3, <3>3 DEF Beyond
  <2> QED BY <1>3, <2>2, <2>3 DEF Beyond
<1>4. ASSUME NEW new \in States, new.frontier = st.frontier, Len(new.pending) < Len(st.pending),
             st = from \/ Beyond(st, from)
      PROVE  Beyond(new, from)
  <2>1. Len(new.pending) \in Nat /\ Len(st.pending) \in Nat /\ Len(from.pending) \in Nat
    BY <1>1
  <2> QED BY <1>4, <2>1 DEF Beyond
<1> QED BY <1>2, <1>3, <1>4

LEMMA IdleFacts ==
  ASSUME AskInv, NEW l, NEW rows
  PROVE  Fresh \in States /\ CallAt(Idle, l, rows)
<1>1. NoWarnings \in [Codes -> Nat]
  BY DEF NoWarnings
<1>2. Fresh \in States
  BY <1>1 DEF Fresh, States
<1>3. /\ Idle \in [on : BOOLEAN, st : States, out : Seq(RowSet), progressed : BOOLEAN, late : BOOLEAN]
      /\ ~ Idle.on
  <2> HIDE DEF Fresh
  <2> QED BY <1>2 DEF Idle
<1> QED BY <1>2, <1>3 DEF CallAt

(* What is known of a call that has not failed.                            *)
LEMMA RunningFacts ==
  ASSUME AskInv, NEW l, NEW rows \in Seq(RowSet), NEW c, CallAt(c, l, rows), c.on, c.st.code = "none"
  PROVE  /\ c.st \in States /\ c.out \in Seq(RowSet) /\ Within(c.st) /\ l.kind \in {"new", "scan"}
         /\ rows \o c.out \in Seq(RowSet) /\ c.st.pending \in Seq(RowSet)
         /\ \E n \in 2 .. Whole, cut \in SUBSET Cuttable(Reached) : Caught(c.st, rows \o c.out, cut, n)
         /\ l.kind = "scan" /\ c.progressed => Beyond(c.st, l.st)
         /\ l.kind = "scan" /\ ~ c.progressed => c.st = l.st /\ c.out = <<>>
         /\ c.progressed \in BOOLEAN
<1>1. c.st \in States /\ c.out \in Seq(RowSet) /\ c.progressed \in BOOLEAN
  BY DEF CallAt
<1>2. rows \o c.out \in Seq(RowSet)
  BY <1>1
<1>3. c.st.pending \in Seq(RowSet)
  BY <1>1 DEF States
<1> QED BY <1>1, <1>2, <1>3 DEF CallAt

(* One more entry.                                                         *)
LEMMA EntryKeeps ==
  ASSUME AskInv, NEW l, NEW last, NEW rows \in Seq(RowSet), LineageAt(l, rows, last),
         NEW c, CallAt(c, l, rows), c.on, c.st.code = "none", c.st.pending = <<>>, c.st.frontier # {},
         NEW d, d \in [on : BOOLEAN, st : {d.st}, out : Seq(RowSet), progressed : BOOLEAN, late : BOOLEAN],
         d.on, d.out = c.out, d.progressed,
         \/ d.st = ProcessNext(c.st)
         \/ LET e == First(c.st)
            IN  /\ ask.mode = "symbol" /\ tree[e].kind = "file" /\ Opens(e)
                /\ c.st.files < budget.files
                /\ \E read \in Nat : read <= budget.bytes - c.st.bytes /\ d.st = Late(c.st, read)
  PROVE  CallAt(d, l, rows)
<1> DEFINE st == c.st
           new == d.st
           before == rows \o c.out
           e == First(st)
<1>1. /\ st \in States /\ Within(st) /\ before \in Seq(RowSet) /\ l.kind \in {"new", "scan"}
      /\ l.kind = "scan" => st = l.st \/ Beyond(st, l.st)
      /\ st.code = "none" /\ st.pending = NoRow /\ st.frontier # {}
  BY RunningFacts DEF NoRow
<1>2. PICK n \in 2 .. Whole, cut \in SUBSET Cuttable(Reached) : Caught(st, before, cut, n)
  BY RunningFacts
<1>3. /\ e + 1 \in 2 .. Whole
      /\ \A x \in Reached : e + 1 <= x => e < x
      /\ Processed(new, before, e)
  <2>1. /\ e + 1 \in 2 .. Whole
        /\ \A x \in Reached : e + 1 <= x => e < x
        /\ Processed(ProcessNext(st), before, e)
        /\ ask.mode = "symbol" /\ tree[e].kind = "file" /\ Opens(e) /\ st.files < budget.files =>
             \A read \in Nat : read <= budget.bytes - st.bytes => Processed(Late(st, read), before, e)
    <3> HIDE DEF st, before
    <3> QED BY <1>1, <1>2, NextProcessed DEF e
  <2> QED BY <2>1
<1>4. d \in [on : BOOLEAN, st : States, out : Seq(RowSet), progressed : BOOLEAN, late : BOOLEAN]
  <2>1. new \in States
    BY <1>3 DEF Processed
  <2> QED BY <2>1
<1>5. CASE new.code # "none"
  <2>1. BrokenOff(new, before)
    BY <1>3, <1>5 DEF Processed
  <2> QED BY <1>1, <1>4, <1>5, <2>1 DEF CallAt
<1>6. CASE new.code = "none"
  <2>1. new \in States /\ Within(new)
    BY <1>3, <1>6 DEF Processed
  <2>2. PICK with \in SUBSET Cuttable(Reached) : Caught(new, before, with, e + 1)
    BY <1>3, <1>6 DEF Processed
  <2>3. \A x \in new.frontier : e < x
    BY <1>3, <2>2 DEF Caught
  <2>4. l.kind = "scan" => Beyond(new, l.st)
    <3>1. l.st \in States
      BY DEF LineageAt
    <3> HIDE DEF st, new
    <3> QED BY <1>1, <2>1, <2>3, <3>1, BeyondFacts DEF e
  <2>5. \E n1 \in 2 .. Whole, cut1 \in SUBSET Cuttable(Reached) : Caught(d.st, rows \o d.out, cut1, n1)
    BY <1>3, <2>2
  <2> QED BY <1>1, <1>4, <1>6, <2>1, <2>4, <2>5 DEF CallAt
<1> QED BY <1>5, <1>6

(* One more row.                                                           *)
LEMMA RowKeeps ==
  ASSUME AskInv, NEW l, NEW last, NEW rows \in Seq(RowSet), LineageAt(l, rows, last),
         NEW c, CallAt(c, l, rows), c.on, c.st.code = "none", c.st.pending # <<>>,
         NEW d, d \in [on : BOOLEAN, st : {d.st}, out : {d.out}, progressed : BOOLEAN, late : BOOLEAN],
         d.on, d.out = Append(c.out, Head(c.st.pending)), d.progressed,
         d.st = [c.st EXCEPT !.pending = Tail(c.st.pending)]
  PROVE  CallAt(d, l, rows)
<1> DEFINE st == c.st
           new == d.st
<1>1. /\ st \in States /\ Within(st) /\ c.out \in Seq(RowSet) /\ st.pending \in Seq(RowSet)
      /\ l.kind \in {"new", "scan"} /\ (l.kind = "scan" => st = l.st \/ Beyond(st, l.st))
  BY RunningFacts
<1>2. PICK n \in 2 .. Whole, cut \in SUBSET Cuttable(Reached) : Caught(st, rows \o c.out, cut, n)
  BY RunningFacts
<1>3. /\ d.out \in Seq(RowSet) /\ Tail(st.pending) \in Seq(RowSet) /\ Len(Tail(st.pending)) < Len(st.pending)
      /\ (rows \o d.out) \o Tail(st.pending) = (rows \o c.out) \o st.pending
  <2> DEFINE out == c.out
             waits == c.st.pending
             rest == Tail(waits)
             longer == Append(out, Head(waits))
  <2>1. /\ rows \in Seq(RowSet) /\ out \in Seq(RowSet) /\ waits \in Seq(RowSet)
        /\ d.out = longer /\ Shifts(out, waits, longer, rest)
    BY <1>1 DEF Shifts
  <2> HIDE DEF out, waits, rest, longer
  <2>2. /\ longer \in Seq(RowSet) /\ rest \in Seq(RowSet) /\ Len(rest) < Len(waits)
        /\ SameRows(rows, out, waits, longer, rest)
    BY <2>1, HeadMoves
  <2>3. /\ d.out \in Seq(RowSet) /\ rest \in Seq(RowSet) /\ Len(rest) < Len(waits)
        /\ (rows \o d.out) \o rest = (rows \o out) \o waits
    BY <2>1, <2>2 DEF SameRows
  <2> QED BY <2>3 DEF out, waits, rest
<1>4. /\ new \in States /\ new.pending = Tail(st.pending) /\ new.code = "none" /\ new.frontier = st.frontier
      /\ new.seen = st.seen /\ new.warned = st.warned /\ new.files = st.files
      /\ new.dirs = st.dirs /\ new.bytes = st.bytes /\ new.parsed = st.parsed
  <2>1. st \in States /\ st.code = "none"
    BY <1>1
  <2>2. new = [st EXCEPT !.pending = Tail(st.pending)]
    OBVIOUS
  <2> HIDE DEF st, new
  <2>3. new \in States
    BY <1>3, <2>1, <2>2, FieldFacts
  <2>4. /\ new.pending = Tail(st.pending) /\ new.code = st.code /\ new.frontier = st.frontier
        /\ new.seen = st.seen /\ new.warned = st.warned /\ new.files = st.files
        /\ new.dirs = st.dirs /\ new.bytes = st.bytes /\ new.parsed = st.parsed
    BY <2>1, <2>2 DEF States
  <2> QED BY <2>1, <2>3, <2>4
<1>5. Within(new)
  <2>1. Retained(st) \in Nat /\ Retained(new) \in Nat /\ Retained(new) <= Retained(st)
    <3>1. /\ Cardinality(st.frontier) \in Nat /\ Len(st.pending) \in Nat
          /\ Retained(st) = Cardinality(st.frontier) + Len(st.pending)
      BY <1>1, StateFacts
    <3>2. Len(new.pending) \in Nat /\ Retained(new) = Cardinality(new.frontier) + Len(new.pending)
      BY <1>4, StateFacts
    <3>3. Len(new.pending) < Len(st.pending)
      BY <1>3, <1>4
    <3> HIDE DEF st, new
    <3> QED BY <1>4, <3>1, <3>2, <3>3
  <2>2. Retained(new) <= budget.retained
    <3>1. budget.retained \in Nat /\ Retained(st) <= budget.retained
      BY <1>1, TreeFacts DEF Within
    <3> QED BY <2>1, <3>1
  <2> QED BY <1>1, <1>4, <2>2 DEF Within
<1>6. Caught(new, rows \o d.out, cut, n)
  <2>1. (rows \o d.out) \o new.pending = (rows \o c.out) \o st.pending
    BY <1>3, <1>4
  <2> HIDE DEF st, new
  <2> QED BY <1>2, <1>4, <2>1 DEF Caught
<1>7. l.kind = "scan" => Beyond(new, l.st)
  <2>1. l.st \in States
    BY DEF LineageAt
  <2>2. Len(new.pending) < Len(st.pending)
    BY <1>3, <1>4
  <2> HIDE DEF st, new
  <2> QED BY <1>1, <1>4, <2>1, <2>2, BeyondFacts
<1>8. d \in [on : BOOLEAN, st : States, out : Seq(RowSet), progressed : BOOLEAN, late : BOOLEAN]
  BY <1>3, <1>4
<1>9. \E n1 \in 2 .. Whole, cut1 \in SUBSET Cuttable(Reached) : Caught(d.st, rows \o d.out, cut1, n1)
  BY <1>6
<1> QED BY <1>1, <1>4, <1>5, <1>7, <1>8, <1>9 DEF CallAt

(* A page with a cursor goes out.                                          *)
LEMMA PageKeeps ==
  ASSUME AskInv, NEW l, NEW last, NEW rows \in Seq(RowSet), LineageAt(l, rows, last),
         NEW c, CallAt(c, l, rows), c.on, c.st.code = "none",
         c.progressed \/ c.out # <<>>, c.st.pending # <<>> \/ c.st.frontier # {},
         NEW next, next = [kind |-> "scan", st |-> c.st]
  PROVE  LineageAt(next, rows \o c.out, last) /\ Resumable(next.st) /\ next # l
<1>1. /\ c.st \in States /\ Within(c.st) /\ c.progressed \in BOOLEAN
      /\ \E n \in 2 .. Whole, cut \in SUBSET Cuttable(Reached) : Caught(c.st, rows \o c.out, cut, n)
      /\ l.kind = "scan" /\ c.progressed => Beyond(c.st, l.st)
      /\ l.kind = "scan" /\ ~ c.progressed => c.out = <<>>
  BY RunningFacts
<1>2. Resumable(c.st)
  <2>1. /\ IsFiniteSet(c.st.frontier) /\ Cardinality(c.st.frontier) \in Nat /\ Len(c.st.pending) \in Nat
        /\ Retained(c.st) = Cardinality(c.st.frontier) + Len(c.st.pending)
    BY <1>1, StateFacts
  <2>2. c.st.frontier # {} => Cardinality(c.st.frontier) # 0
    BY <2>1, FS_EmptySet
  <2>3. c.st.pending # <<>> => Len(c.st.pending) # 0
    <3>1. c.st.pending \in Seq(RowSet)
      BY <1>1 DEF States
    <3> QED BY <3>1
  <2>4. budget.retained \in Nat /\ Retained(c.st) <= budget.retained
    BY <1>1, TreeFacts DEF Within
  <2>5. Retained(c.st) \in 1 .. budget.retained
    BY <2>1, <2>2, <2>3, <2>4
  <2> QED BY <1>1, <2>5 DEF Resumable, Within
<1>3. next # l
  <2> SUFFICES ASSUME next = l PROVE FALSE
    OBVIOUS
  <2>1. l.kind = "scan" /\ c.st = l.st
    OBVIOUS
  <2>2. Beyond(c.st, l.st)
    BY <1>1, <2>1
  <2> QED BY <1>1, <2>1, <2>2, BeyondFacts
<1>4. next.kind = "scan" /\ next.st = c.st /\ next \in [kind : {"new", "scan", "summary", "over", "lost"}, st : States]
  BY <1>1
<1> QED BY <1>1, <1>2, <1>3, <1>4 DEF LineageAt

(* The last page goes out.                                                 *)
LEMMA LastKeeps ==
  ASSUME AskInv, NEW l, NEW rows \in Seq(RowSet),
         NEW c, CallAt(c, l, rows), c.on, c.st.code = "none", c.st.pending = <<>>, c.st.frontier = {},
         NEW kind \in {"over", "summary"}, NEW next, next = [kind |-> kind, st |-> c.st],
         NEW last, kind = "over" => last = c.st.warned
  PROVE  LineageAt(next, rows \o c.out, last)
<1>1. /\ c.st \in States
      /\ \E n \in 2 .. Whole, cut \in SUBSET Cuttable(Reached) : Caught(c.st, rows \o c.out, cut, n)
  BY RunningFacts
<1>2. next.kind = kind /\ next.st = c.st /\ next \in [kind : {"new", "scan", "summary", "over", "lost"}, st : States]
  BY <1>1
<1> QED BY <1>1, <1>2 DEF LineageAt

(* A lineage that is lost has shown what it had shown.                     *)
LEMMA LostKeeps ==
  ASSUME AskInv, NEW l, NEW rows, NEW last, LineageAt(l, rows, last), l.kind # "new",
         NEW next, next = [l EXCEPT !.kind = "lost"]
  PROVE  LineageAt(next, rows, last)
<1>1. /\ next.kind = "lost" /\ next.st = l.st
      /\ next \in [kind : {"new", "scan", "summary", "over", "lost"}, st : States]
  BY DEF LineageAt
<1> QED BY <1>1 DEF LineageAt

(* The first call.                                                         *)
LEMMA FirstKeeps ==
  ASSUME AskInv, NEW l, l.kind = "new", NEW rows, rows = <<>>,
         NEW c, c = [on |-> TRUE, st |-> Opening, out |-> <<>>, progressed |-> TRUE, late |-> FALSE]
  PROVE  CallAt(c, l, rows)
<1> DEFINE st == Opening
<1>1. Processed(st, <<>>, 1) /\ 1 + 1 \in 2 .. Whole
  BY OpeningProcessed
<1> HIDE DEF st
<1>2. st \in States /\ <<>> \in Seq(RowSet)
  BY <1>1 DEF Processed
<1>3. /\ c \in [on : BOOLEAN, st : States, out : Seq(RowSet), progressed : BOOLEAN, late : BOOLEAN]
      /\ c.on /\ c.st = st /\ c.out = <<>> /\ c.progressed
  BY <1>2 DEF st
<1>4. rows \o c.out = <<>>
  BY <1>3
<1>5. CASE st.code # "none"
  <2>1. BrokenOff(c.st, rows \o c.out)
    BY <1>1, <1>3, <1>4, <1>5 DEF Processed
  <2> QED BY <1>3, <1>5, <2>1 DEF CallAt
<1>6. CASE st.code = "none"
  <2>1. Within(st)
    BY <1>1, <1>6 DEF Processed
  <2>2. PICK cut \in SUBSET Cuttable(Reached) : Caught(st, <<>>, cut, 1 + 1)
    BY <1>1, <1>6 DEF Processed
  <2>3. \E n \in 2 .. Whole, cut1 \in SUBSET Cuttable(Reached) : Caught(c.st, rows \o c.out, cut1, n)
    BY <1>1, <1>3, <1>4, <2>2
  <2> QED BY <1>3, <1>6, <2>1, <2>3 DEF CallAt
<1> QED BY <1>5, <1>6

-------------------------------------------------------------------------------
(* Every step                                                              *)

(* What is asked does not change.                                          *)
LEMMA Frozen ==
  ASSUME AskInv, UNCHANGED <<tree, ask, budget>>, sent' \in Seq(RowSet),
         LineageAt(lineage', sent', told'), CallAt(call', lineage', sent')
  PROVE  ScanInv'
<1>1. Reached' = Reached
  BY DEF Reached, Units, Children, Skipped, Selects, Lists, Enumerated, SeenBefore, Opens
<1>2. Cuttable(Reached)' = Cuttable(Reached)
  BY <1>1 DEF Cuttable, Looked, Opens, Explicit
<1>3. Whole' = Whole /\ States' = States
  BY DEF Whole, States
<1>4. \A n : Earlier(n)' = Earlier(n)
  BY <1>1 DEF Earlier
<1>5. \A cut, n : Delivered(cut, n)' = Delivered(cut, n)
  BY <1>1 DEF Delivered, RowParts, RowPart, Opens, RowsOf, Looked
<1>6. \A e, cut : Reason(e, Reached, cut)' = Reason(e, Reached, cut)
  BY <1>1 DEF Reason, Opens, SeenBefore, Looked
<1>7. Enumerated(Reached)' = Enumerated(Reached)
  BY <1>1 DEF Enumerated, Opens, SeenBefore
<1>8. \A d, c : Reported(d, c)' = Reported(d, c)
  BY DEF Reported, Children, Skipped
<1>9. \A cut, n, c : Count(cut, n, c)' = Count(cut, n, c)
  BY <1>4, <1>6, <1>7, <1>8 DEF Count
<1>10. \A n : Ids(n)' = Ids(n) /\ CutsBefore(n)' = CutsBefore(n)
  BY <1>2, <1>4 DEF Ids, Opens, CutsBefore
<1>11. \A st, rows, cut, n : Caught(st, rows, cut, n)' <=> Caught(st, rows, cut, n)
  BY <1>1, <1>3, <1>5, <1>9, <1>10 DEF Caught
<1>12. \A st, rows : BrokenOff(st, rows)' <=> BrokenOff(st, rows)
  BY <1>2, <1>3, <1>5 DEF BrokenOff
<1>13. \A st : (Within(st)' <=> Within(st)) /\ (Resumable(st)' <=> Resumable(st))
  BY DEF Within, Resumable
<1>14. LineageAt(lineage, sent, told)'
  BY <1>2, <1>3, <1>11, <1>13 DEF LineageAt
<1>15. CallAt(call, lineage, sent)'
  BY <1>2, <1>3, <1>11, <1>12, <1>13 DEF CallAt
<1>16. AskInv'
  BY DEF AskInv, Explicit
<1> QED BY <1>14, <1>15, <1>16 DEF ScanInv

LEMMA ScanStarts == ScanInit => ScanInv
<1> SUFFICES ASSUME ScanInit PROVE ScanInv
  OBVIOUS
<1>1. AskInv /\ sent = <<>> /\ call = Idle /\ lineage = [kind |-> "new", st |-> Fresh]
  BY DEF ScanInit, AskInv
<1>2. sent \in Seq(RowSet)
  BY <1>1
<1>3. Fresh \in States /\ CallAt(call, lineage, sent)
  BY <1>1, IdleFacts
<1>4. LineageAt(lineage, sent, told)
  <2>1. lineage.kind = "new" /\ lineage \in [kind : {"new", "scan", "summary", "over", "lost"}, st : States]
    <3> HIDE DEF Fresh
    <3> QED BY <1>1, <1>3
  <2> QED BY <1>1, <2>1 DEF LineageAt
<1> QED BY <1>1, <1>2, <1>3, <1>4 DEF ScanInv

LEMMA ScanStep == ScanInv /\ [ScanNext]_scanVars => ScanInv'
<1> SUFFICES ASSUME ScanInv, [ScanNext]_scanVars PROVE ScanInv'
  OBVIOUS
<1> DEFINE Good == LineageAt(lineage', sent', told') /\ CallAt(call', lineage', sent')
<1>1. AskInv /\ sent \in Seq(RowSet) /\ LineageAt(lineage, sent, told) /\ CallAt(call, lineage, sent)
  BY DEF ScanInv
<1>2. /\ lineage \in [kind : {"new", "scan", "summary", "over", "lost"}, st : States]
      /\ call \in [on : BOOLEAN, st : States, out : Seq(RowSet), progressed : BOOLEAN, late : BOOLEAN]
  BY <1>1 DEF LineageAt, CallAt
<1>3. \A l, rows : CallAt(Idle, l, rows)
  BY <1>1, IdleFacts
<1>4. call.on => sent \o call.out \in Seq(RowSet)
  BY <1>1, <1>2
<1>5. CASE Begin
  <2>1. /\ call' = [on |-> TRUE, st |-> Opening, out |-> <<>>, progressed |-> TRUE, late |-> FALSE]
        /\ lineage.kind = "new" /\ UNCHANGED <<tree, ask, budget, lineage, sent, told>>
    <3> HIDE DEF Fresh
    <3> QED BY <1>5 DEF Begin, Idle
  <2>2. sent = <<>>
    BY <1>1, <2>1 DEF LineageAt
  <2>3. CallAt(call', lineage', sent')
    BY <1>1, <2>1, <2>2, FirstKeeps
  <2> QED BY <1>1, <2>1, <2>3, Frozen
<1>6. CASE Continue
  <2>1. /\ call' = [on |-> TRUE, st |-> lineage.st, out |-> <<>>, progressed |-> FALSE, late |-> FALSE]
        /\ lineage.kind = "scan" /\ UNCHANGED <<tree, ask, budget, lineage, sent, told>>
    <3> HIDE DEF Fresh
    <3> QED BY <1>6 DEF Continue, Idle
  <2>2. Resumable(lineage.st)
        /\ \E n \in 2 .. Whole, cut \in SUBSET Cuttable(Reached) : Caught(lineage.st, sent, cut, n)
    BY <1>1, <2>1 DEF LineageAt
  <2>3. Within(lineage.st) /\ lineage.st.code = "none"
    <3>1. /\ IsFiniteSet(lineage.st.frontier) /\ Retained(lineage.st) \in 1 .. budget.retained
      BY <1>1, <1>2, <2>2, StateFacts DEF Resumable
    <3>2. budget.retained \in Nat
      BY <1>1, TreeFacts
    <3> QED BY <2>2, <3>1, <3>2 DEF Within, Resumable
  <2>4. /\ call' \in [on : BOOLEAN, st : States, out : Seq(RowSet), progressed : BOOLEAN, late : BOOLEAN]
        /\ call'.on /\ call'.st = lineage.st /\ call'.out = <<>> /\ ~ call'.progressed
    <3>1. <<>> \in Seq(RowSet) /\ lineage.st \in States
      BY <1>2
    <3> QED BY <2>1, <3>1
  <2>5. sent \o call'.out = sent
    BY <1>1, <2>4
  <2>6. CallAt(call', lineage', sent')
    BY <2>1, <2>2, <2>3, <2>4, <2>5 DEF CallAt
  <2> QED BY <1>1, <2>1, <2>6, Frozen
<1>7. CASE ShowSummary
  <2>1. /\ lineage.kind = "summary" /\ lineage' = [lineage EXCEPT !.kind = "over"] /\ told' = lineage.st.warned
        /\ UNCHANGED <<tree, ask, budget, call, sent>>
    BY <1>7 DEF ShowSummary
  <2>2. lineage'.kind = "over" /\ lineage'.st = lineage.st
        /\ lineage' \in [kind : {"new", "scan", "summary", "over", "lost"}, st : States]
    BY <1>2, <2>1
  <2>3. LineageAt(lineage', sent', told')
    BY <1>1, <2>1, <2>2 DEF LineageAt
  <2>4. call' = Idle
    BY <1>1, <2>1 DEF CallAt
  <2> QED BY <1>1, <1>3, <2>1, <2>3, <2>4, Frozen
<1>8. CASE EmitRow
  <2>1. /\ call.on /\ call.st.code = "none" /\ call.st.pending # <<>>
        /\ UNCHANGED <<tree, ask, budget, lineage, sent, told>>
    BY <1>8 DEF EmitRow, Running
  <2>2. /\ call'.on /\ call'.out = Append(call.out, Head(call.st.pending)) /\ call'.progressed
        /\ call'.st = [call.st EXCEPT !.pending = Tail(call.st.pending)]
        /\ call' \in [on : BOOLEAN, st : {call'.st}, out : {call'.out}, progressed : BOOLEAN, late : BOOLEAN]
    <3>1. call' = [call EXCEPT !.out = Append(call.out, Head(call.st.pending)),
                              !.st = [call.st EXCEPT !.pending = Tail(call.st.pending)],
                              !.progressed = TRUE]
      BY <1>2, <1>8 DEF EmitRow
    <3> QED BY <1>2, <2>1, <3>1
  <2>3. CallAt(call', lineage', sent')
    BY <1>1, <2>1, <2>2, RowKeeps
  <2> QED BY <1>1, <2>1, <2>3, Frozen
<1>9. CASE Process
  <2>1. /\ call.on /\ call.st.code = "none" /\ call.st.pending = <<>> /\ call.st.frontier # {}
        /\ call' = [call EXCEPT !.st = ProcessNext(call.st), !.progressed = TRUE]
        /\ UNCHANGED <<tree, ask, budget, lineage, sent, told>>
    BY <1>2, <1>9 DEF Process, Drained, Running
  <2>2. /\ call'.on /\ call'.out = call.out /\ call'.progressed /\ call'.st = ProcessNext(call.st)
        /\ call' \in [on : BOOLEAN, st : {call'.st}, out : Seq(RowSet), progressed : BOOLEAN, late : BOOLEAN]
    BY <1>2, <2>1
  <2>3. CallAt(call', lineage', sent')
    BY <1>1, <2>1, <2>2, EntryKeeps
  <2> QED BY <1>1, <2>1, <2>3, Frozen
<1>10. CASE ProcessCut
  <2> DEFINE e == First(call.st)
  <2>5. PICK read \in 0 .. tree[e].size :
          /\ read <= budget.bytes - call.st.bytes
          /\ call' = [call EXCEPT !.st = Late(@, read), !.progressed = TRUE, !.late = TRUE]
    BY <1>10 DEF ProcessCut
  <2>6. read \in Nat
    OBVIOUS
  <2>1. /\ call.on /\ call.st.code = "none" /\ call.st.pending = <<>> /\ call.st.frontier # {}
        /\ call' = [call EXCEPT !.st = Late(call.st, read), !.progressed = TRUE, !.late = TRUE]
        /\ ask.mode = "symbol" /\ tree[First(call.st)].kind = "file" /\ Opens(First(call.st))
        /\ call.st.files < budget.files
        /\ UNCHANGED <<tree, ask, budget, lineage, sent, told>>
    BY <1>2, <1>10, <2>5 DEF ProcessCut, Drained, Running, Opens
  <2>2. /\ call'.on /\ call'.out = call.out /\ call'.progressed /\ call'.st = Late(call.st, read)
        /\ call' \in [on : BOOLEAN, st : {call'.st}, out : Seq(RowSet), progressed : BOOLEAN, late : BOOLEAN]
    BY <1>2, <2>1
  <2>3. CallAt(call', lineage', sent')
    BY <1>1, <2>1, <2>2, <2>5, <2>6, EntryKeeps
  <2> QED BY <1>1, <2>1, <2>3, Frozen
<1>11. CASE PageFull \/ DeadlinePage
  <2>1. /\ call.on /\ call.st.code = "none" /\ (call.progressed \/ call.out # <<>>)
        /\ (call.st.pending # <<>> \/ call.st.frontier # {})
        /\ sent' = sent \o call.out /\ lineage' = [kind |-> "scan", st |-> call.st] /\ call' = Idle
        /\ UNCHANGED <<tree, ask, budget, told>>
    BY <1>11 DEF PageFull, DeadlinePage, Partial, Drained, Running, Overfull
  <2>2. LineageAt(lineage', sent', told')
    BY <1>1, <2>1, PageKeeps
  <2> QED BY <1>1, <1>3, <1>4, <2>1, <2>2, Frozen
<1>12. CASE Finish
  <2>1. /\ call.on /\ call.st.code = "none" /\ call.st.pending = <<>> /\ call.st.frontier = {}
        /\ sent' = sent \o call.out /\ call' = Idle /\ UNCHANGED <<tree, ask, budget>>
        /\ \/ lineage' = [kind |-> "over", st |-> call.st] /\ told' = call.st.warned
           \/ lineage' = [kind |-> "summary", st |-> call.st]
    BY <1>12 DEF Finish, Drained, Running
  <2>2. LineageAt(lineage', sent', told')
    <3>1. CASE lineage' = [kind |-> "over", st |-> call.st] /\ told' = call.st.warned
      BY <1>1, <2>1, <3>1, LastKeeps
    <3>2. CASE lineage' = [kind |-> "summary", st |-> call.st]
      BY <1>1, <2>1, <3>2, LastKeeps
    <3> QED BY <2>1, <3>1, <3>2
  <2> QED BY <1>1, <1>3, <1>4, <2>1, <2>2, Frozen
<1>13. CASE CallFails
  <2>1. call.on /\ call' = Idle /\ UNCHANGED <<tree, ask, budget, sent, told>>
        /\ lineage' = IF lineage.kind = "new" THEN lineage ELSE [lineage EXCEPT !.kind = "lost"]
    BY <1>13 DEF CallFails
  <2>2. CASE lineage.kind = "new"
    BY <1>1, <1>3, <2>1, <2>2, Frozen
  <2>3. CASE lineage.kind # "new"
    <3>1. LineageAt(lineage', sent', told')
      BY <1>1, <2>1, <2>3, LostKeeps
    <3> QED BY <1>1, <1>3, <2>1, <3>1, Frozen
  <2> QED BY <2>2, <2>3
<1>14. CASE Forget
  <2>1. /\ lineage.kind # "new" /\ lineage' = [lineage EXCEPT !.kind = "lost"] /\ ~ call.on
        /\ UNCHANGED <<tree, ask, budget, call, sent, told>>
    BY <1>14 DEF Forget
  <2>2. LineageAt(lineage', sent', told')
    BY <1>1, <2>1, LostKeeps
  <2>3. call' = Idle
    BY <1>1, <2>1 DEF CallAt
  <2> QED BY <1>1, <1>3, <2>1, <2>2, <2>3, Frozen
<1>15. CASE UNCHANGED scanVars
  BY <1>1, <1>15, Frozen DEF scanVars
<1> QED BY <1>5, <1>6, <1>7, <1>8, <1>9, <1>10, <1>11, <1>12, <1>13, <1>14, <1>15 DEF ScanNext, CallStep

(* What is known of a scan is what it promises.                            *)
LEMMA Promise ==
  ASSUME ScanInv
  PROVE  RowsExact
<1>1. AskInv /\ sent \in Seq(RowSet) /\ LineageAt(lineage, sent, told) /\ CallAt(call, lineage, sent)
  BY DEF ScanInv
<1> DEFINE out == sent \o call.out \o call.st.pending
<1>2. ASSUME NEW cut \in SUBSET Cuttable(Reached), NEW n \in 1 .. Whole, NEW rows \in Seq(RowSet),
             NEW more \in Seq(RowSet), rows \o more = Delivered(cut, n)
      PROVE  IsPrefix(rows, RowsBut(Reached, cut)) /\ IsPrefix(rows \o more, RowsBut(Reached, cut))
  <2>1. PICK t \in Seq(RowSet) : RowsBut(Reached, cut) = Delivered(cut, n) \o t
    BY <1>1, DeliveredFacts
  <2>2. rows \o more \in Seq(RowSet)
    OBVIOUS
  <2>3. IsPrefix(rows \o more, RowsBut(Reached, cut))
    <3> DEFINE s == rows \o more
    <3>1. s \in Seq(RowSet) /\ RowsBut(Reached, cut) = s \o t
      BY <1>2, <2>1, <2>2
    <3> HIDE DEF s
    <3>2. IsPrefix(s, RowsBut(Reached, cut))
      BY <3>1, PrefixFacts
    <3> QED BY <3>2 DEF s
  <2>4. IsPrefix(rows, RowsBut(Reached, cut))
    <3>1. Associates(rows, more, t) /\ more \o t \in Seq(RowSet)
      BY Associative
    <3> DEFINE s == more \o t
    <3>2. RowsBut(Reached, cut) = rows \o s /\ s \in Seq(RowSet)
      BY <1>2, <2>1, <3>1 DEF Associates
    <3> HIDE DEF s
    <3> QED BY <3>2, PrefixFacts
  <2> QED BY <2>3, <2>4
<1>3. \E cut \in SUBSET Cuttable(Reached) : IsPrefix(out, RowsBut(Reached, cut))
  <2>1. CASE call.on
    <3>1. /\ call.st \in States /\ sent \o call.out \in Seq(RowSet) /\ call.st.pending \in Seq(RowSet)
      <4>1. call.st \in States /\ call.out \in Seq(RowSet)
        BY <1>1 DEF CallAt
      <4>2. call.st.pending \in Seq(RowSet)
        BY <4>1 DEF States
      <4> QED BY <1>1, <4>1, <4>2
    <3>2. PICK cut \in SUBSET Cuttable(Reached), n \in 1 .. Whole :
            (sent \o call.out) \o call.st.pending = Delivered(cut, n)
      <4>1. CASE call.st.code = "none"
        BY <1>1, <2>1, <4>1 DEF CallAt, Caught
      <4>2. CASE call.st.code # "none"
        BY <1>1, <2>1, <4>2 DEF CallAt, BrokenOff
      <4> QED BY <4>1, <4>2
    <3>3. IsPrefix((sent \o call.out) \o call.st.pending, RowsBut(Reached, cut))
      BY <1>2, <3>1, <3>2
    <3> QED BY <3>3
  <2>2. CASE ~ call.on
    <3>1. call.out = <<>> /\ call.st.pending = <<>>
      BY <1>1, <2>2 DEF CallAt, Idle, Fresh
    <3>2. out = sent
      BY <1>1, <3>1
    <3>3. CASE lineage.kind = "new"
      <4> DEFINE cut == {}
      <4>1. sent = <<>> /\ cut \in SUBSET Cuttable(Reached)
        BY <1>1, <3>3 DEF LineageAt
      <4>2. 1 \in 1 .. Whole
        BY <1>1, TreeFacts DEF Whole
      <4>3. Delivered(cut, 1) = <<>>
        BY <1>1, <4>2, DeliveredFacts
      <4>4. <<>> \in Seq(RowSet) /\ sent \o <<>> = Delivered(cut, 1)
        BY <1>1, <4>1, <4>3
      <4>5. IsPrefix(sent, RowsBut(Reached, cut))
        BY <1>1, <1>2, <4>1, <4>2, <4>4
      <4> QED BY <3>2, <4>1, <4>5
    <3>4. CASE lineage.kind # "new"
      <4>1. PICK n \in 2 .. Whole, cut \in SUBSET Cuttable(Reached) : Caught(lineage.st, sent, cut, n)
        BY <1>1, <3>4 DEF LineageAt
      <4>2. lineage.st \in States
        BY <1>1 DEF LineageAt
      <4>3. lineage.st.pending \in Seq(RowSet) /\ n \in 1 .. Whole
            /\ sent \o lineage.st.pending = Delivered(cut, n)
        BY <4>1, <4>2 DEF States, Caught
      <4>4. IsPrefix(sent, RowsBut(Reached, cut))
        BY <1>1, <1>2, <4>3
      <4> QED BY <3>2, <4>4
    <3> QED BY <3>3, <3>4
  <2> QED BY <2>1, <2>2
<1>4. ASSUME lineage.kind = "over"
      PROVE  \E cut \in SUBSET Cuttable(Reached) :
               sent = RowsBut(Reached, cut) /\ told = WarningsBut(Reached, cut)
  <2>1. PICK n \in 2 .. Whole, cut \in SUBSET Cuttable(Reached) : Caught(lineage.st, sent, cut, n)
    BY <1>1, <1>4 DEF LineageAt
  <2>2. lineage.st.frontier = {} /\ lineage.st.pending = <<>> /\ told = lineage.st.warned
    BY <1>1, <1>4 DEF LineageAt
  <2> QED BY <1>1, <2>1, <2>2, EndFacts
<1> QED BY <1>3, <1>4 DEF RowsExact

-------------------------------------------------------------------------------
(* The cache                                                               *)

(* A charge is summed up entry by entry.                                   *)
Sums(L, c) ==
  /\ c \in [0 .. Len(L) -> Nat] /\ c[0] = 0
  /\ \A k \in 1 .. Len(L) : c[k] = c[k - 1] + Footprint[L[k]]

LEMMA ChargeLoop ==
  ASSUME NEW L \in Seq(Files)
  PROVE  \E c : Sums(L, c) /\ ChargeOf(L) = c[Len(L)]
<1> DEFINE n == Len(L)
           Adds(h) == h = [k \in 0 .. n |-> IF k = 0 THEN 0 ELSE h[k - 1] + Footprint[L[k]]]
           c == CHOOSE h : Adds(h)
           G == [p \in Nat \X (1 .. n) |-> p[1] + Footprint[L[p[2]]]]
<1>1. ChargeOf(L) = c[n]
  BY DEF ChargeOf, Looped
<1>2. n \in Nat /\ \A k \in 1 .. n : Footprint[L[k]] \in Nat
  BY CacheAssumption
<1>3. PICK h : Computes(n, Nat, 0, G, h)
  <2>1. G \in [Nat \X (1 .. n) -> Nat]
    <3>1. \A p \in Nat \X (1 .. n) : p[1] + Footprint[L[p[2]]] \in Nat
      BY <1>2
    <3> QED BY <3>1
  <2> HIDE DEF n, G
  <2> QED BY <1>2, <2>1, Recursion
<1>4. Adds(h)
  <2>1. \A k \in 1 .. n : k - 1 \in 0 .. n
    BY <1>2
  <2>2. \A k \in 1 .. n : h[k] = h[k - 1] + Footprint[L[k]]
    <3> TAKE k \in 1 .. n
    <3>1. h[k - 1] \in Nat
      BY <1>3, <2>1 DEF Computes
    <3>2. h[k] = G[<<h[k - 1], k>>]
      BY <1>3 DEF Computes
    <3> QED BY <3>1, <3>2
  <2>3. h \in [0 .. n -> Nat] /\ h[0] = 0
    BY <1>3 DEF Computes
  <2> HIDE DEF n, G
  <2> QED BY <1>2, <2>2, <2>3
<1>5. Adds(c)
  <2> HIDE DEF Adds
  <2> QED BY <1>4
<1>6. c[0] = 0 /\ \A k \in 1 .. n : c[k] = c[k - 1] + Footprint[L[k]]
  <2> HIDE DEF c
  <2> QED BY <1>2, <1>5
<1>7. \A k \in 0 .. n : c[k] \in Nat
  <2> DEFINE T == {k \in 0 .. n : c[k] \in Nat}
  <2>1. 0 \in T /\ \A k \in 0 + 1 .. n : k - 1 \in T => k \in T
    BY <1>2, <1>6
  <2>2. \A k \in 0 .. n : k \in T
    <3> HIDE DEF T, c, n
    <3> QED BY <1>2, <2>1, Upward
  <2> QED BY <2>2
<1>8. c \in [0 .. n -> Nat]
  <2>1. DOMAIN c = 0 .. n /\ c = [k \in 0 .. n |-> c[k]]
    <3> HIDE DEF c
    <3> QED BY <1>5
  <2> HIDE DEF c
  <2> QED BY <1>7, <2>1
<1> QED BY <1>1, <1>6, <1>8 DEF Sums

(* What is charged for two lists, one behind the other.                    *)
LEMMA ChargeOfBoth ==
  ASSUME NEW L \in Seq(Files), NEW M \in Seq(Files)
  PROVE  /\ ChargeOf(L) \in Nat
         /\ ChargeOf(L \o M) = ChargeOf(L) + ChargeOf(M)
<1>1. PICK a : Sums(L, a) /\ ChargeOf(L) = a[Len(L)]
  BY ChargeLoop
<1>2. PICK b : Sums(M, b) /\ ChargeOf(M) = b[Len(M)]
  BY ChargeLoop
<1>3. L \o M \in Seq(Files) /\ Len(L \o M) = Len(L) + Len(M) /\ Len(L) \in Nat /\ Len(M) \in Nat
  OBVIOUS
<1>4. PICK c : Sums(L \o M, c) /\ ChargeOf(L \o M) = c[Len(L \o M)]
  BY <1>3, ChargeLoop
<1>5. \A k \in 1 .. Len(L) : (L \o M)[k] = L[k] /\ Footprint[L[k]] \in Nat
  BY CacheAssumption
<1>6. \A k \in 1 .. Len(M) : (L \o M)[Len(L) + k] = M[k] /\ Footprint[M[k]] \in Nat
  BY CacheAssumption
<1>7. /\ a[0] = 0 /\ \A k \in 1 .. Len(L) : a[k - 1] \in Nat /\ a[k] = a[k - 1] + Footprint[L[k]]
      /\ b[0] = 0 /\ \A k \in 1 .. Len(M) : b[k - 1] \in Nat /\ b[k] = b[k - 1] + Footprint[M[k]]
      /\ c[0] = 0 /\ \A k \in 1 .. Len(L) + Len(M) : c[k] = c[k - 1] + Footprint[(L \o M)[k]]
      /\ a[Len(L)] \in Nat
  <2>1. \A k \in 1 .. Len(L) : k - 1 \in 0 .. Len(L)
    BY <1>3
  <2>2. \A k \in 1 .. Len(M) : k - 1 \in 0 .. Len(M)
    BY <1>3
  <2>3. Len(L) \in 0 .. Len(L)
    BY <1>3
  <2> QED BY <1>1, <1>2, <1>3, <1>4, <2>1, <2>2, <2>3 DEF Sums
<1> DEFINE S == {k \in 0 .. Len(L) : c[k] = a[k]}
           T == {k \in 0 .. Len(M) : c[Len(L) + k] = a[Len(L)] + b[k]}
<1> HIDE DEF Sums
<1>8. \A k \in 0 .. Len(L) : k \in S
  <2>1. 0 \in S
    BY <1>3, <1>7
  <2>2. ASSUME NEW k \in 0 + 1 .. Len(L), k - 1 \in S PROVE k \in S
    <3>1. k \in 1 .. Len(L) + Len(M) /\ k \in 1 .. Len(L) /\ k \in 0 .. Len(L)
      BY <1>3
    <3> QED BY <1>5, <1>7, <2>2, <3>1
  <2> HIDE DEF S
  <2> QED BY <1>3, <2>1, <2>2, Upward
<1>9. \A k \in 0 .. Len(M) : k \in T
  <2>1. 0 \in T
    <3>1. Len(L) \in 0 .. Len(L) /\ Len(L) + 0 = Len(L)
      BY <1>3
    <3>2. c[Len(L)] = a[Len(L)]
      BY <1>8, <3>1
    <3> QED BY <1>3, <1>7, <3>1, <3>2
  <2>2. ASSUME NEW k \in 0 + 1 .. Len(M), k - 1 \in T PROVE k \in T
    <3>1. Len(L) + k \in 1 .. Len(L) + Len(M) /\ k \in 1 .. Len(M) /\ k \in 0 .. Len(M) /\ Len(L) + k - 1 = Len(L) + (k - 1)
      BY <1>3
    <3>2. c[Len(L) + k] = c[Len(L) + (k - 1)] + Footprint[M[k]]
      BY <1>6, <1>7, <3>1
    <3>3. b[k] = b[k - 1] + Footprint[M[k]] /\ b[k - 1] \in Nat /\ Footprint[M[k]] \in Nat
      BY <1>6, <1>7, <3>1
    <3>4. c[Len(L) + (k - 1)] = a[Len(L)] + b[k - 1]
      BY <2>2
    <3>5. c[Len(L) + k] = a[Len(L)] + b[k]
      BY <1>7, <3>2, <3>3, <3>4
    <3> QED BY <3>1, <3>5
  <2> HIDE DEF T
  <2> QED BY <1>3, <2>1, <2>2, Upward
<1>10. Len(M) \in 0 .. Len(M)
  BY <1>3
<1> QED BY <1>1, <1>2, <1>3, <1>4, <1>7, <1>9, <1>10

(* The first so many of a list.                                            *)
LEMMA FirstFacts ==
  ASSUME NEW S, NEW L \in Seq(S), NEW n \in 0 .. Len(L)
  PROVE  /\ SubSeq(L, 1, n) \in Seq(S) /\ Len(SubSeq(L, 1, n)) = n
         /\ \A i \in 1 .. n : SubSeq(L, 1, n)[i] = L[i]
         /\ n = Len(L) => SubSeq(L, 1, n) = L
         /\ n = 0 => SubSeq(L, 1, n) = <<>>
<1>1. /\ SubSeq(L, 1, n) \in Seq(S) /\ Len(SubSeq(L, 1, n)) = n
      /\ \A i \in 1 .. n : SubSeq(L, 1, n)[i] = L[i]
  <2>1. \A i \in 1 .. n : L[i] \in S
    OBVIOUS
  <2> QED BY <2>1, SubSeqProperties
<1>2. n = Len(L) => SubSeq(L, 1, n) = L
  BY <1>1
<1>3. n = 0 => SubSeq(L, 1, n) = <<>>
  BY <1>1
<1> QED BY <1>1, <1>2, <1>3

LEMMA OneCharged == \A f \in Files : ChargeOf(<<f>>) = Footprint[f] /\ ChargeOf(<<>>) = 0
<1> TAKE f \in Files
<1>1. <<f>> \in Seq(Files) /\ Len(<<f>>) = 1 /\ <<f>>[1] = f
  OBVIOUS
<1>2. PICK c : Sums(<<f>>, c) /\ ChargeOf(<<f>>) = c[1]
  BY <1>1, ChargeLoop
<1>3. ChargeOf(<<f>>) = Footprint[f]
  <2>1. c[0] = 0 /\ c[1] = c[1 - 1] + Footprint[f]
    BY <1>1, <1>2 DEF Sums
  <2> QED BY <1>2, <2>1, CacheAssumption
<1>4. ChargeOf(<<>>) = 0
  <2>1. <<>> \in Seq(Files) /\ Len(<<>>) = 0
    OBVIOUS
  <2> QED BY <2>1, ChargeLoop DEF Sums
<1> QED BY <1>3, <1>4

(* A list is what comes before one of its members, the member and what     *)
(* comes behind.                                                           *)
LEMMA SplitFacts ==
  ASSUME NEW S, NEW L \in Seq(S), NEW k \in 1 .. Len(L)
  PROVE  /\ SubSeq(L, 1, k - 1) \in Seq(S) /\ SubSeq(L, k + 1, Len(L)) \in Seq(S)
         /\ L = SubSeq(L, 1, k - 1) \o (<<L[k]>> \o SubSeq(L, k + 1, Len(L)))
<1>1. Len(L) \in Nat /\ k - 1 + 1 = k
  OBVIOUS
<1>2. SubSeq(L, 1, k - 1) \in Seq(S) /\ SubSeq(L, k + 1, Len(L)) \in Seq(S)
  BY SubSeqProperties
<1>3. SubSeq(L, k, Len(L)) = <<L[k]>> \o SubSeq(L, k + 1, Len(L))
  BY <1>1, SubSeqRecursiveFirst
<1>4. SubSeq(L, 1, k - 1) \o SubSeq(L, k, Len(L)) = SubSeq(L, 1, Len(L))
  <2>1. 1 \in 1 .. Len(L) + 1 /\ k - 1 \in 1 - 1 .. Len(L) /\ Len(L) \in k - 1 .. Len(L)
    BY <1>1
  <2> QED BY <1>1, <2>1, ConcatAdjacentSubSeq
<1> QED BY <1>2, <1>3, <1>4, SubSeqFull

(* Taking an entry out of an order, and putting it in front.               *)
Orders == { L \in Seq(Files) : IsInjective(L) }

LEMMA WithoutFacts ==
  ASSUME NEW L \in Orders, NEW f \in Files
  PROVE  /\ Without(L, f) \in Orders /\ ToSet(Without(L, f)) = ToSet(L) \ {f}
         /\ f \in ToSet(L) => /\ Len(Without(L, f)) = Len(L) - 1
                              /\ ChargeOf(L) = ChargeOf(Without(L, f)) + Footprint[f]
         /\ f \notin ToSet(L) => Without(L, f) = L
         /\ \A n \in 1 .. Len(L) : f = L[n] => Without(L, f) = SubSeq(L, 1, n - 1) \o SubSeq(L, n + 1, Len(L))
<1>0. L \in Seq(Files) /\ IsInjective(L)
  BY DEF Orders
<1>1. CASE f \notin ToSet(L)
  <2>1. \A n \in 1 .. Len(L) : f # L[n]
    BY <1>0, <1>1 DEF ToSet
  <2> QED BY <1>1, <2>1 DEF Without
<1>2. CASE f \in ToSet(L)
  <2> DEFINE k == CHOOSE i \in DOMAIN L : L[i] = f
  <2>1. k \in DOMAIN L /\ L[k] = f
    <3>1. \E i \in DOMAIN L : L[i] = f
      BY <1>2 DEF ToSet
    <3> QED BY <3>1
  <2>2. Without(L, f) = RemoveAt(L, k)
    BY <1>2 DEF Without
  <2> HIDE DEF k
  <2>3. /\ RemoveAt(L, k) \in Seq(Files) /\ Len(RemoveAt(L, k)) = Len(L) - 1
        /\ IsInjective(RemoveAt(L, k)) /\ ToSet(RemoveAt(L, k)) = ToSet(L) \ {L[k]}
    BY <1>0, <2>1, RemoveAtFacts
  <2> DEFINE a == SubSeq(L, 1, k - 1)
             b == SubSeq(L, k + 1, Len(L))
  <2>4. k \in 1 .. Len(L) /\ Len(L) \in Nat
    BY <1>0, <2>1
  <2>5. a \in Seq(Files) /\ b \in Seq(Files) /\ L = a \o (<<f>> \o b)
    BY <1>0, <2>1, <2>4, SplitFacts
  <2>6. RemoveAt(L, k) = a \o b
    BY DEF RemoveAt
  <2>7. ChargeOf(L) = ChargeOf(a) + (ChargeOf(<<f>>) + ChargeOf(b))
    <3>1. <<f>> \in Seq(Files) /\ <<f>> \o b \in Seq(Files)
      BY <2>5
    <3>2. ChargeOf(<<f>> \o b) = ChargeOf(<<f>>) + ChargeOf(b)
      BY <2>5, <3>1, ChargeOfBoth
    <3>3. ChargeOf(a \o (<<f>> \o b)) = ChargeOf(a) + ChargeOf(<<f>> \o b)
      BY <2>5, <3>1, ChargeOfBoth
    <3> HIDE DEF a, b
    <3> QED BY <2>5, <3>2, <3>3
  <2>8. ChargeOf(a) \in Nat /\ ChargeOf(b) \in Nat /\ ChargeOf(a \o b) = ChargeOf(a) + ChargeOf(b)
    BY <2>5, ChargeOfBoth
  <2>9. \A n \in 1 .. Len(L) : f = L[n] => n = k
    BY <1>0, <2>1, <2>4 DEF IsInjective
  <2>10. ChargeOf(<<f>>) = Footprint[f] /\ Footprint[f] \in Nat
    BY OneCharged, CacheAssumption
  <2>11. \A n \in 1 .. Len(L) : f = L[n] => Without(L, f) = SubSeq(L, 1, n - 1) \o SubSeq(L, n + 1, Len(L))
    BY <2>2, <2>6, <2>9
  <2>12. ChargeOf(L) = ChargeOf(Without(L, f)) + Footprint[f]
    <3> HIDE DEF a, b
    <3> QED BY <2>2, <2>6, <2>7, <2>8, <2>10
  <2> QED BY <1>2, <2>1, <2>2, <2>3, <2>11, <2>12 DEF Orders
<1> QED BY <1>1, <1>2

(* A longer part of a list is charged more.                                *)
LEMMA FirstCharged ==
  ASSUME NEW L \in Seq(Files), NEW n \in 1 .. Len(L)
  PROVE  /\ ChargeOf(SubSeq(L, 1, n)) = ChargeOf(SubSeq(L, 1, n - 1)) + Footprint[L[n]]
         /\ ChargeOf(SubSeq(L, 1, n - 1)) \in Nat
<1>1. /\ SubSeq(L, 1, n - 1) \in Seq(Files) /\ <<L[n]>> \in Seq(Files) /\ L[n] \in Files
      /\ SubSeq(L, 1, n) = SubSeq(L, 1, n - 1) \o <<L[n]>>
  OBVIOUS
<1> QED BY <1>1, ChargeOfBoth, OneCharged

(* What the cache holds and what it is charged, one as long as the other.  *)
Honest(cache, L) == cache = [lru |-> L, bytes |-> ChargeOf(L)]

LEMMA EmptyFits == Fitting(<<>>) /\ <<>> \in Orders /\ Honest(EmptyCache, <<>>)
<1>1. ChargeOf(<<>>) = 0
  <2>1. <<>> \in Seq(Files) /\ Len(<<>>) = 0
    OBVIOUS
  <2> QED BY <2>1, ChargeLoop DEF Sums
<1>2. <<>> \in Seq(Files) /\ Len(<<>>) = 0 /\ IsInjective(<<>>)
  BY DEF IsInjective
<1> QED BY <1>1, <1>2, CacheAssumption DEF Fitting, Orders, Honest, EmptyCache

(* The last entry goes.                                                    *)
LEMMA LastRemoved ==
  ASSUME NEW L \in Orders, NEW cache, Honest(cache, L), L # <<>>
  PROVE  /\ SubSeq(L, 1, Len(L) - 1) \in Orders
         /\ Honest(Removed(cache, Last(L)), SubSeq(L, 1, Len(L) - 1))
<1> DEFINE n == Len(L)
           F == SubSeq(L, 1, n - 1)
<1>1. L \in Seq(Files) /\ n \in Nat \ {0} /\ n \in 1 .. n /\ Last(L) = L[n] /\ L[n] \in Files
  BY DEF Orders, Last
<1>2. L[n] \in ToSet(L)
  BY <1>1 DEF ToSet
<1>3. Without(L, L[n]) \in Orders /\ Without(L, L[n]) = F \o SubSeq(L, n + 1, n)
  BY <1>1, WithoutFacts
<1>4. SubSeq(L, n + 1, n) = <<>> /\ F \in Seq(Files)
  <2>1. SubSeq(L, n + 1, n) = <<>>
    BY <1>1, SubSeqEmpty
  <2> QED BY <1>1, <2>1, SplitFacts
<1>5. Without(L, L[n]) = F
  <2> HIDE DEF F, n
  <2> QED BY <1>3, <1>4, ConcatEmptySeq
<1>6. ChargeOf(L) = ChargeOf(F) + Footprint[L[n]] /\ ChargeOf(F) \in Nat /\ Footprint[L[n]] \in Nat
  <2>1. ChargeOf(L) = ChargeOf(Without(L, L[n])) + Footprint[L[n]]
    BY <1>1, <1>2, WithoutFacts
  <2> HIDE DEF F, n
  <2> QED BY <1>1, <1>4, <1>5, <2>1, ChargeOfBoth, CacheAssumption
<1>7. Removed(cache, L[n]) = [lru |-> F, bytes |-> ChargeOf(F)]
  <2>1. cache.lru = L /\ cache.bytes = ChargeOf(L)
    BY DEF Honest
  <2>2. ~ (Footprint[L[n]] > ChargeOf(L)) /\ ChargeOf(L) - Footprint[L[n]] = ChargeOf(F)
    <3> HIDE DEF F, n
    <3> QED BY <1>6
  <2> HIDE DEF F, n
  <2> QED BY <1>2, <1>5, <2>1, <2>2 DEF Removed, Cached
<1> QED BY <1>1, <1>3, <1>5, <1>7 DEF Honest

(* The longest part of an order that fits is what eviction leaves.         *)
LongestFit(L, n) ==
  /\ n \in 0 .. Len(L) /\ Fitting(SubSeq(L, 1, n))
  /\ \A m \in 0 .. Len(L) : Fitting(SubSeq(L, 1, m)) => m <= n

Caches == [lru : Seq(Files), bytes : Nat]

DropBack(c) == IF Full(c) THEN Removed(c, Last(c.lru)) ELSE c

LEMMA RoundTyped == \A c \in Caches : DropBack(c) \in Caches
<1> SUFFICES ASSUME NEW c \in Caches, c.lru # <<>> PROVE Removed(c, Last(c.lru)) \in Caches
  <2>1. \A c \in Caches : c.lru = <<>> => Removed(c, Last(c.lru)) = c
    BY DEF Removed, Cached, ToSet
  <2> QED BY <2>1 DEF DropBack
<1>1. c.lru \in Seq(Files) /\ Len(c.lru) \in 1 .. Len(c.lru) /\ Last(c.lru) = c.lru[Len(c.lru)] /\ Last(c.lru) \in Files
  BY DEF Caches, Last
<1> DEFINE f == Last(c.lru)
           k == CHOOSE i \in DOMAIN c.lru : c.lru[i] = f
<1>2. f \in ToSet(c.lru)
  BY <1>1 DEF ToSet
<1>3. k \in 1 .. Len(c.lru)
  <2>1. \E i \in DOMAIN c.lru : c.lru[i] = f
    BY <1>1
  <2> QED BY <1>1, <2>1
<1>4. Without(c.lru, f) \in Seq(Files)
  <2>1. Without(c.lru, f) = RemoveAt(c.lru, k)
    BY <1>2 DEF Without
  <2>2. SubSeq(c.lru, 1, k - 1) \in Seq(Files) /\ SubSeq(c.lru, k + 1, Len(c.lru)) \in Seq(Files)
    <3> HIDE DEF k
    <3> QED BY <1>1, <1>3, SplitFacts
  <2> HIDE DEF k
  <2> QED BY <2>1, <2>2 DEF RemoveAt
<1>5. Footprint[f] \in Nat /\ c.bytes \in Nat
  BY <1>1, CacheAssumption DEF Caches
<1> HIDE DEF f, k
<1>6. Removed(c, f) \in Caches
  BY <1>2, <1>4, <1>5 DEF Removed, Cached, Caches
<1> QED BY <1>6 DEF f

LEMMA EvictionLoop ==
  ASSUME NEW cache \in Caches, NEW n, n = Len(cache.lru)
  PROVE  \E e : /\ e[0] = cache /\ Evicted(cache) = e[n]
                /\ \A k \in 1 .. n : e[k] = DropBack(e[k - 1])
<1> DEFINE Drops(h) == h = [k \in 0 .. n |-> IF k = 0 THEN cache ELSE DropBack(h[k - 1])]
           e == CHOOSE h : Drops(h)
           G == [p \in Caches \X (1 .. n) |-> DropBack(p[1])]
<1>1. n \in Nat
  BY DEF Caches
<1>2. Evicted(cache) = e[n]
  BY DEF Evicted, Looped, DropBack
<1>3. PICK h : Computes(n, Caches, cache, G, h)
  <2>1. G \in [Caches \X (1 .. n) -> Caches]
    <3>1. \A p \in Caches \X (1 .. n) : DropBack(p[1]) \in Caches
      BY RoundTyped
    <3> QED BY <3>1
  <2> HIDE DEF G
  <2> QED BY <1>1, <2>1, Recursion
<1>4. Drops(h)
  <2>1. \A k \in 1 .. n : k - 1 \in 0 .. n
    BY <1>1
  <2>2. \A k \in 1 .. n : h[k] = DropBack(h[k - 1])
    <3> TAKE k \in 1 .. n
    <3>1. h[k - 1] \in Caches
      BY <1>3, <2>1 DEF Computes
    <3>2. h[k] = G[<<h[k - 1], k>>]
      BY <1>3 DEF Computes
    <3> QED BY <3>1, <3>2
  <2>3. h \in [0 .. n -> Caches] /\ h[0] = cache
    BY <1>3 DEF Computes
  <2> HIDE DEF G
  <2> QED BY <1>1, <2>2, <2>3
<1>5. Drops(e)
  <2> HIDE DEF Drops
  <2> QED BY <1>4
<1>6. e[0] = cache /\ \A k \in 1 .. n : e[k] = DropBack(e[k - 1])
  <2> HIDE DEF e
  <2> QED BY <1>1, <1>5
<1> QED BY <1>2, <1>6

LEMMA FirstOrders ==
  ASSUME NEW L \in Orders, NEW m \in 0 .. Len(L)
  PROVE  /\ SubSeq(L, 1, m) \in Orders /\ Len(SubSeq(L, 1, m)) = m
         /\ m # 0 => SubSeq(SubSeq(L, 1, m), 1, m - 1) = SubSeq(L, 1, m - 1)
<1>1. L \in Seq(Files) /\ IsInjective(L)
  BY DEF Orders
<1>2. /\ SubSeq(L, 1, m) \in Seq(Files) /\ Len(SubSeq(L, 1, m)) = m
      /\ \A i \in 1 .. m : SubSeq(L, 1, m)[i] = L[i]
  BY <1>1, FirstFacts
<1>3. IsInjective(SubSeq(L, 1, m))
  <2>1. \A i, j \in 1 .. Len(L) : L[i] = L[j] => i = j
    BY <1>1 DEF IsInjective
  <2>2. \A i \in 1 .. m : i \in 1 .. Len(L)
    BY <1>1
  <2>3. DOMAIN SubSeq(L, 1, m) = 1 .. m
    BY <1>2
  <2> QED BY <1>2, <2>1, <2>2, <2>3 DEF IsInjective
<1>4. ASSUME m # 0 PROVE SubSeq(SubSeq(L, 1, m), 1, m - 1) = SubSeq(L, 1, m - 1)
  <2> DEFINE P == SubSeq(L, 1, m)
  <2>1. m - 1 \in 0 .. Len(L) /\ m - 1 \in 0 .. m
    BY <1>1, <1>4
  <2>2. /\ SubSeq(L, 1, m - 1) \in Seq(Files) /\ Len(SubSeq(L, 1, m - 1)) = m - 1
        /\ \A i \in 1 .. m - 1 : SubSeq(L, 1, m - 1)[i] = L[i]
    BY <1>1, <2>1, FirstFacts
  <2>3. /\ SubSeq(P, 1, m - 1) \in Seq(Files) /\ Len(SubSeq(P, 1, m - 1)) = m - 1
        /\ \A i \in 1 .. m - 1 : SubSeq(P, 1, m - 1)[i] = P[i]
    <3> HIDE DEF P
    <3> QED BY <1>2, <2>1, FirstFacts DEF P
  <2>4. \A i \in 1 .. m - 1 : P[i] = L[i]
    BY <1>2
  <2> HIDE DEF P
  <2>5. SubSeq(P, 1, m - 1) = SubSeq(L, 1, m - 1)
    BY <2>2, <2>3, <2>4, SeqEqual
  <2> QED BY <2>5 DEF P
<1> QED BY <1>1, <1>2, <1>3, <1>4 DEF Orders

LEMMA FullIsNotFitting ==
  ASSUME NEW L \in Orders, NEW cache, Honest(cache, L)
  PROVE  Full(cache) <=> ~ Fitting(L)
<1>1. Len(L) \in Nat /\ ChargeOf(L) \in Nat
  BY ChargeOfBoth DEF Orders
<1> QED BY <1>1, CacheAssumption DEF Full, Fitting, Honest

LEMMA EvictionKeepsLongest ==
  ASSUME NEW L \in Orders, NEW cache, Honest(cache, L)
  PROVE  \E n : LongestFit(L, n) /\ Honest(Evicted(cache), SubSeq(L, 1, n))
<1> DEFINE N == Len(L)
           Newest(m) == SubSeq(L, 1, m)
<1>1. cache \in Caches /\ cache.lru = L /\ L \in Seq(Files) /\ N \in Nat
  BY ChargeOfBoth DEF Honest, Caches, Orders
<1>2. PICK e : /\ e[0] = cache /\ Evicted(cache) = e[N]
               /\ \A k \in 1 .. N : e[k] = DropBack(e[k - 1])
  BY <1>1, EvictionLoop
<1> DEFINE Left(k, m) == /\ Honest(e[k], Newest(m)) /\ (m = N - k \/ ~ Full(e[k]))
                         /\ \A j \in m + 1 .. N : ~ Fitting(Newest(j))
           T == {k \in 0 .. N : \E m \in 0 .. N : Left(k, m)}
<1> HIDE DEF N
<1>3. 0 \in T
  <2>1. Newest(N) = L
    BY <1>1, FirstFacts DEF N
  <2>2. N = N - 0 /\ N + 1 .. N = {}
    BY <1>1
  <2>3. Honest(e[0], Newest(N))
    <3> HIDE DEF Newest
    <3> QED BY <1>2, <2>1
  <2>4. Left(0, N)
    BY <2>2, <2>3
  <2> QED BY <1>1, <2>4
<1>4. ASSUME NEW k \in 0 + 1 .. N, k - 1 \in T PROVE k \in T
  <2>1. PICK m \in 0 .. N : Left(k - 1, m)
    BY <1>4
  <2>2. Newest(m) \in Orders /\ Len(Newest(m)) = m
    BY <1>1, FirstOrders DEF N
  <2>3. k \in 1 .. N /\ k \in 0 .. N /\ e[k] = DropBack(e[k - 1])
    BY <1>1, <1>2
  <2>4. CASE ~ Full(e[k - 1])
    <3>1. e[k] = e[k - 1]
      BY <2>3, <2>4 DEF DropBack
    <3>2. Left(k, m)
      BY <2>1, <2>4, <3>1
    <3> QED BY <2>3, <3>2
  <2>5. CASE Full(e[k - 1])
    <3>1. m = N - (k - 1) /\ m # 0 /\ m - 1 \in 0 .. N
      BY <1>1, <2>1, <2>3, <2>5
    <3>2. ~ Fitting(Newest(m))
      <4> HIDE DEF Newest
      <4> QED BY <2>1, <2>2, <2>5, FullIsNotFitting
    <3>3. e[k] = Removed(e[k - 1], Last(Newest(m)))
      <4>1. e[k - 1].lru = Newest(m)
        BY <2>1 DEF Honest
      <4> QED BY <2>3, <2>5, <4>1 DEF DropBack
    <3>4. Honest(e[k], SubSeq(Newest(m), 1, m - 1))
      <4>1. Newest(m) # <<>>
        <5> HIDE DEF Newest
        <5> QED BY <2>2, <3>1
      <4>2. Honest(e[k - 1], Newest(m))
        BY <2>1
      <4> HIDE DEF Newest
      <4> QED BY <2>2, <3>3, <4>1, <4>2, LastRemoved
    <3>5. SubSeq(Newest(m), 1, m - 1) = Newest(m - 1)
      BY <1>1, <3>1, FirstOrders DEF N
    <3>6. \A j \in (m - 1) + 1 .. N : ~ Fitting(Newest(j))
      <4>1. \A j \in (m - 1) + 1 .. N : j = m \/ j \in m + 1 .. N
        BY <1>1
      <4> HIDE DEF Newest
      <4> QED BY <2>1, <3>2, <4>1
    <3>7. Left(k, m - 1)
      <4>1. m - 1 = N - k
        BY <1>1, <3>1
      <4> HIDE DEF Newest
      <4> QED BY <3>4, <3>5, <3>6, <4>1
    <3> QED BY <2>3, <3>1, <3>7
  <2> QED BY <2>4, <2>5
<1>5. N \in T
  <2> HIDE DEF T
  <2>1. \A k \in 0 .. N : k \in T
    BY <1>1, <1>3, <1>4, Upward
  <2> QED BY <1>1, <2>1
<1>6. PICK n \in 0 .. N : Left(N, n)
  BY <1>5
<1>7. Newest(n) \in Orders /\ Honest(e[N], Newest(n))
  BY <1>1, <1>6, FirstOrders DEF N
<1>8. Fitting(Newest(n))
  <2>1. CASE n = N - N
    <3>1. Newest(n) = <<>>
      BY <1>1, <2>1, FirstFacts DEF N
    <3> QED BY <3>1, EmptyFits
  <2>2. CASE ~ Full(e[N])
    <3> HIDE DEF Newest
    <3> QED BY <1>7, <2>2, FullIsNotFitting
  <2> QED BY <1>6, <2>1, <2>2
<1>9. \A m \in 0 .. N : Fitting(Newest(m)) => m <= n
  <2>1. \A m \in 0 .. N : m <= n \/ m \in n + 1 .. N
    BY <1>1
  <2> HIDE DEF Newest
  <2> QED BY <1>6, <2>1
<1> QED BY <1>2, <1>6, <1>7, <1>8, <1>9 DEF LongestFit, N

(* What a use makes of the cache and of what was held.                     *)
InOrder(cache, held) == held \in Orders /\ Honest(cache, held) /\ Fitting(held)

LEMMA UseKeepsRight ==
  ASSUME NEW cache, NEW held, InOrder(cache, held), NEW u \in [put : BOOLEAN, file : Files]
  PROVE  InOrder(Handled(cache, u.put, u.file), Kept(held, u))
<1> DEFINE f == u.file
           rest == Without(held, f)
           newest == <<f>> \o rest
           F == { n \in 0 .. Len(newest) : Fitting(SubSeq(newest, 1, n)) }
           best == CHOOSE n \in F : \A m \in F : m <= n
<1>1. /\ f \in Files /\ u.put \in BOOLEAN /\ held \in Orders /\ held \in Seq(Files)
      /\ cache.lru = held /\ cache.bytes = ChargeOf(held) /\ ChargeOf(held) \in Nat
  BY ChargeOfBoth DEF InOrder, Honest, Orders
<1>2. /\ rest \in Orders /\ rest \in Seq(Files) /\ IsInjective(rest) /\ ToSet(rest) = ToSet(held) \ {f}
      /\ f \in ToSet(held) => /\ Len(rest) = Len(held) - 1
                              /\ ChargeOf(held) = ChargeOf(rest) + Footprint[f]
      /\ f \notin ToSet(held) => rest = held
  BY <1>1, WithoutFacts DEF Orders
<1>3. newest \in Orders /\ newest \in Seq(Files) /\ Len(newest) = Len(rest) + 1 /\ f \notin ToSet(rest)
  <2> HIDE DEF rest, f
  <2>1. f \notin ToSet(rest)
    BY <1>2
  <2>2. <<f>> \o rest \in Seq(Files) /\ IsInjective(<<f>> \o rest)
    BY <1>1, <1>2, <2>1, ConsFacts
  <2>3. Len(<<f>> \o rest) = Len(rest) + 1
    BY <1>1, <1>2
  <2> QED BY <2>1, <2>2, <2>3 DEF Orders
<1>4. ChargeOf(newest) = Footprint[f] + ChargeOf(rest) /\ Footprint[f] \in Nat /\ ChargeOf(rest) \in Nat
  <2>1. <<f>> \in Seq(Files)
    BY <1>1
  <2>2. ChargeOf(<<f>> \o rest) = ChargeOf(<<f>>) + ChargeOf(rest) /\ ChargeOf(rest) \in Nat
    <3> HIDE DEF rest
    <3> QED BY <1>2, <2>1, ChargeOfBoth
  <2> HIDE DEF rest
  <2> QED BY <1>1, <2>2, OneCharged, CacheAssumption
<1>5. Kept(held, u) = IF IF u.put THEN ~ Fitting(<<f>>) ELSE f \notin ToSet(held) THEN held
                      ELSE SubSeq(newest, 1, best)
  BY DEF Kept
<1>6. Fitting(<<f>>) <=> ~ (MaxEntries = 0 \/ Footprint[f] > MaxBytes)
  <2>1. Len(<<f>>) = 1 /\ ChargeOf(<<f>>) = Footprint[f]
    BY <1>1, OneCharged
  <2> QED BY <1>4, <2>1, CacheAssumption DEF Fitting
<1>7. \A n : LongestFit(newest, n) => best = n
  <2> TAKE n
  <2> HAVE LongestFit(newest, n)
  <2>1. n \in F /\ (\A i \in F : i <= n) /\ \A i \in F : i \in Int
    <3> HIDE DEF newest
    <3> QED BY DEF LongestFit
  <2> HIDE DEF F
  <2>2. \A m \in F : (\A i \in F : i <= m) => m = n
    BY <2>1
  <2> QED BY <2>1, <2>2
<1> HIDE DEF f, rest, F, best
<1>8. CASE u.put
  <2>1. CASE MaxEntries = 0 \/ Footprint[f] > MaxBytes
    <3>1. Handled(cache, u.put, f) = cache /\ Kept(held, u) = held
      BY <1>5, <1>6, <1>8, <2>1 DEF Handled, Put
    <3> QED BY <3>1 DEF f
  <2>2. CASE ~ (MaxEntries = 0 \/ Footprint[f] > MaxBytes)
    <3> DEFINE pushed == Pushed(Removed(cache, f), f)
    <3>1. Handled(cache, u.put, f) = Evicted(pushed) /\ Kept(held, u) = SubSeq(newest, 1, best)
      BY <1>5, <1>6, <1>8, <2>2 DEF Handled, Put
    <3>2. Honest(Removed(cache, f), rest)
      <4>1. CASE f \in ToSet(held)
        <5>1. ~ (Footprint[f] > ChargeOf(held)) /\ ChargeOf(held) - Footprint[f] = ChargeOf(rest)
          BY <1>2, <1>4, <4>1
        <5> QED BY <1>1, <4>1, <5>1 DEF Removed, Cached, Honest, rest
      <4>2. CASE f \notin ToSet(held)
        BY <1>1, <1>2, <4>2 DEF Removed, Cached, Honest, InOrder
      <4> QED BY <4>1, <4>2
    <3>3. Honest(pushed, newest)
      <4>1. Pushed([lru |-> rest, bytes |-> ChargeOf(rest)], f)
              = [lru |-> newest, bytes |-> ChargeOf(rest) + Footprint[f]]
        BY DEF Pushed
      <4>2. ChargeOf(rest) + Footprint[f] = ChargeOf(newest)
        <5> HIDE DEF newest
        <5> QED BY <1>4
      <4> HIDE DEF newest
      <4> QED BY <3>2, <4>1, <4>2 DEF Honest
    <3> HIDE DEF pushed, newest
    <3>4. PICK n : LongestFit(newest, n) /\ Honest(Evicted(pushed), SubSeq(newest, 1, n))
      BY <1>3, <3>3, EvictionKeepsLongest
    <3>5. SubSeq(newest, 1, n) \in Orders
      BY <1>3, <3>4, FirstOrders DEF LongestFit
    <3> QED BY <1>7, <3>1, <3>4, <3>5 DEF InOrder, LongestFit, f
  <2> QED BY <2>1, <2>2
<1>9. CASE ~ u.put
  <2>1. CASE f \notin ToSet(held)
    <3>1. Handled(cache, u.put, f) = cache /\ Kept(held, u) = held
      BY <1>1, <1>5, <1>9, <2>1 DEF Handled, Cached
    <3> QED BY <3>1 DEF f
  <2>2. CASE f \in ToSet(held)
    <3>1. Handled(cache, u.put, f) = Used(cache, f) /\ Kept(held, u) = SubSeq(newest, 1, best)
      BY <1>1, <1>5, <1>9, <2>2 DEF Handled, Cached
    <3>2. ChargeOf(newest) = ChargeOf(held) /\ Len(newest) = Len(held)
      <4>1. Len(rest) \in Nat /\ Len(held) \in Nat
        BY <1>1, <1>2
      <4> HIDE DEF newest
      <4> QED BY <1>2, <1>3, <1>4, <2>2, <4>1
    <3>3. Honest(Used(cache, f), newest)
      <4>1. Used([lru |-> held, bytes |-> ChargeOf(held)], f) = [lru |-> newest, bytes |-> ChargeOf(held)]
        BY DEF Used, rest
      <4> HIDE DEF newest
      <4> QED BY <3>2, <4>1 DEF Honest, InOrder
    <3>4. Fitting(newest)
      BY <3>2 DEF Fitting, InOrder
    <3> HIDE DEF newest
    <3>5. LongestFit(newest, Len(newest))
      <4>1. Len(newest) \in Nat /\ SubSeq(newest, 1, Len(newest)) = newest
        BY <1>3, FirstFacts
      <4>2. Len(newest) \in 0 .. Len(newest) /\ \A m \in 0 .. Len(newest) : m <= Len(newest)
        BY <4>1
      <4> QED BY <3>4, <4>1, <4>2 DEF LongestFit
    <3>6. SubSeq(newest, 1, best) = newest
      BY <1>3, <1>7, <3>5, SubSeqFull
    <3> QED BY <1>3, <3>1, <3>3, <3>4, <3>6 DEF InOrder, f
  <2> QED BY <2>1, <2>2
<1> QED BY <1>1, <1>8, <1>9

LEMMA UsesKeepRight ==
  ASSUME NEW n \in Nat, NEW uses \in [1 .. n -> [put : BOOLEAN, file : Files]], Len(uses) = n
  PROVE  CacheRight(uses)
<1> DEFINE Pairs == { p \in Caches \X Orders : InOrder(p[1], p[2]) }
           Do(c, k) == Handled(c, uses[k].put, uses[k].file)
           Keep(held, k) == Kept(held, uses[k])
           G == [p \in Pairs \X (1 .. n) |-> <<Do(p[1][1], p[2]), Keep(p[1][2], p[2])>>]
           Does(h) == h = [k \in 0 .. n |-> IF k = 0 THEN EmptyCache ELSE Do(h[k - 1], k)]
           Keeps(h) == h = [k \in 0 .. n |-> IF k = 0 THEN <<>> ELSE Keep(h[k - 1], k)]
           c == CHOOSE h : Does(h)
           d == CHOOSE h : Keeps(h)
<1>1. /\ After(uses) = c[n]
      /\ Looped(LAMBDA held, k : Kept(held, uses[k]), <<>>, Len(uses)) = d[n]
  BY DEF After, Looped
<1>2. \A p \in Caches : p = [lru |-> p.lru, bytes |-> p.bytes]
  BY DEF Caches
<1>3. \A q, held : InOrder(q, held) => q \in Caches /\ held \in Orders
  BY ChargeOfBoth DEF InOrder, Honest, Caches, Orders
<1>4. \A p \in Pairs, k \in 1 .. n :
        /\ InOrder(Do(p[1], k), Keep(p[2], k))
        /\ <<Do(p[1], k), Keep(p[2], k)>> \in Pairs
  <2> TAKE p \in Pairs, k \in 1 .. n
  <2>1. uses[k] \in [put : BOOLEAN, file : Files]
    OBVIOUS
  <2>2. InOrder(Do(p[1], k), Keep(p[2], k))
    BY <2>1, UseKeepsRight
  <2> HIDE DEF Do, Keep
  <2> QED BY <1>3, <2>2
<1>5. <<EmptyCache, <<>>>> \in Pairs
  <2>1. InOrder(EmptyCache, <<>>)
    BY EmptyFits DEF InOrder
  <2> QED BY <1>3, <2>1
<1>6. PICK h : Computes(n, Pairs, <<EmptyCache, <<>>>>, G, h)
  <2>1. G \in [Pairs \X (1 .. n) -> Pairs]
    <3>1. \A p \in Pairs \X (1 .. n) : <<Do(p[1][1], p[2]), Keep(p[1][2], p[2])>> \in Pairs
      <4> HIDE DEF Do, Keep, Pairs
      <4> QED BY <1>4
    <3> HIDE DEF Do, Keep, Pairs
    <3> QED BY <3>1
  <2> HIDE DEF G, Pairs
  <2> QED BY <1>5, <2>1, Recursion
<1> DEFINE c1 == [k \in 0 .. n |-> h[k][1]]
           d1 == [k \in 0 .. n |-> h[k][2]]
<1>7. /\ \A k \in 0 .. n : h[k] \in Pairs
      /\ h[0] = <<EmptyCache, <<>>>>
      /\ \A k \in 1 .. n : h[k] = <<Do(h[k - 1][1], k), Keep(h[k - 1][2], k)>>
  <2>1. \A k \in 1 .. n : k - 1 \in 0 .. n
    OBVIOUS
  <2>2. h \in [0 .. n -> Pairs] /\ h[0] = <<EmptyCache, <<>>>> /\ \A k \in 1 .. n : h[k] = G[<<h[k - 1], k>>]
    BY <1>6 DEF Computes
  <2>3. \A k \in 1 .. n : h[k] = <<Do(h[k - 1][1], k), Keep(h[k - 1][2], k)>>
    <3> TAKE k \in 1 .. n
    <3>1. <<h[k - 1], k>> \in Pairs \X (1 .. n)
      <4> HIDE DEF G, Pairs
      <4> QED BY <2>1, <2>2
    <3> HIDE DEF Do, Keep, Pairs
    <3> QED BY <2>2, <3>1
  <2> HIDE DEF G, Pairs, Do, Keep
  <2> QED BY <2>2, <2>3
<1> HIDE DEF Do, Keep, Pairs, G
<1>8. Does(c1) /\ Keeps(d1)
  <2>1. \A k \in 1 .. n : k - 1 \in 0 .. n /\ k \in 0 .. n
    OBVIOUS
  <2>2. \A k \in 0 .. n : c1[k] = IF k = 0 THEN EmptyCache ELSE Do(c1[k - 1], k)
    BY <1>7, <2>1
  <2>3. \A k \in 0 .. n : d1[k] = IF k = 0 THEN <<>> ELSE Keep(d1[k - 1], k)
    BY <1>7, <2>1
  <2> QED BY <2>2, <2>3
<1>9. Does(c) /\ Keeps(d)
  <2> HIDE DEF Does, Keeps
  <2> QED BY <1>8
<1> HIDE DEF c, d
<1>10. /\ c[0] = EmptyCache /\ \A k \in 1 .. n : c[k] = Do(c[k - 1], k)
       /\ d[0] = <<>> /\ \A k \in 1 .. n : d[k] = Keep(d[k - 1], k)
  BY <1>9
<1> DEFINE T == {k \in 0 .. n : c[k] = h[k][1] /\ d[k] = h[k][2]}
<1>11. n \in T
  <2>1. 0 \in T
    BY <1>7, <1>10
  <2>2. ASSUME NEW k \in 0 + 1 .. n, k - 1 \in T PROVE k \in T
    <3>1. k \in 1 .. n /\ k \in 0 .. n
      OBVIOUS
    <3> QED BY <1>7, <1>10, <2>2, <3>1
  <2> HIDE DEF T
  <2>3. \A k \in 0 .. n : k \in T
    BY <2>1, <2>2, Upward
  <2> QED BY <2>3
<1>12. InOrder(c[n], d[n])
  BY <1>7, <1>11 DEF Pairs
<1>13. c[n].lru = d[n] /\ c[n].bytes = ChargeOf(c[n].lru) /\ Fitting(c[n].lru)
  BY <1>12 DEF InOrder, Honest
<1> HIDE DEF c, d
<1> QED BY <1>1, <1>13 DEF CacheRight

-------------------------------------------------------------------------------
(* Patterns                                                                *)

Onward(size, length, many, fits, w, s) ==
  IF s.next > length THEN s.at .. size \subseteq many
  ELSE IF s.at \in many THEN w[Stretches(s)]
  ELSE IF s.at <= size /\ fits[s.at][s.next] THEN w[Consumes(s)]
  ELSE s.last # 0 /\ w[Retries(s)]

(* Every step goes up in this order: by the last element that matched many,*)
(* by what went to it, by the element.                                     *)
Effort(size, length, s) == s.last * ((length + 1) * (size + 2)) + s.taken * (size + 2) + s.at

LEMMA Product ==
  ASSUME NEW a \in Nat, NEW b \in Nat, NEW c \in Nat
  PROVE  a * c \in Nat /\ (a < b => b * c >= a * c + c)
<1>1. a * c \in Nat /\ b * c \in Nat
  OBVIOUS
<1>2. ASSUME a < b PROVE b * c >= a * c + c
  <2> DEFINE d == b - a - 1
  <2>1. d \in Nat /\ b = a + 1 + d
    BY <1>2
  <2> HIDE DEF d
  <2>2. d * c \in Nat
    BY <2>1
  <2>3. b * c = a * c + c + d * c
    BY <2>1
  <2> QED BY <1>1, <2>2, <2>3
<1> QED BY <1>1, <1>2

LEMMA StepTyped ==
  ASSUME NEW size \in Nat, NEW length \in Nat, NEW many \in SUBSET (1 .. size),
         NEW s \in Progress(size, length), ~ (s.next > length)
  PROVE  /\ s.at \in many => Stretches(s) \in Progress(size, length)
         /\ s.at <= size => Consumes(s) \in Progress(size, length)
         /\ s.last # 0 => Retries(s) \in Progress(size, length)
<1>1. /\ s.at \in 1 .. size + 1 /\ s.next \in 1 .. length + 1 /\ s.last \in 0 .. size
      /\ s.taken \in 0 .. length /\ s.last < s.at /\ s.taken < s.next
      /\ s \in [at : 1 .. size + 1, next : 1 .. length + 1, last : 0 .. size, taken : 0 .. length]
  BY DEF Progress
<1>2. s.at \in many => Stretches(s) \in Progress(size, length)
  BY <1>1 DEF Progress, Stretches
<1>3. s.at <= size => Consumes(s) \in Progress(size, length)
  BY <1>1 DEF Progress, Consumes
<1>4. s.last # 0 => Retries(s) \in Progress(size, length)
  BY <1>1 DEF Progress, Retries
<1> QED BY <1>2, <1>3, <1>4

LEMMA StepUpward ==
  ASSUME NEW size \in Nat, NEW length \in Nat, NEW many \in SUBSET (1 .. size),
         NEW s \in Progress(size, length), ~ (s.next > length)
  PROVE  /\ Effort(size, length, s) \in Nat
         /\ s.at \in many => Effort(size, length, Stretches(s)) > Effort(size, length, s)
         /\ Effort(size, length, Consumes(s)) > Effort(size, length, s)
         /\ Effort(size, length, Retries(s)) > Effort(size, length, s)
<1> DEFINE B == size + 2
           A == (length + 1) * B
<1>1. /\ s.at \in 1 .. size + 1 /\ s.next \in 1 .. length + 1 /\ s.last \in 0 .. size
      /\ s.taken \in 0 .. length /\ s.last < s.at /\ s.taken < s.next
  BY DEF Progress
<1>2. B \in Nat /\ A \in Nat
  BY Product
<1> HIDE DEF A, B
<1>3. s.last * A \in Nat /\ s.taken * B \in Nat
  BY <1>1, <1>2, Product
<1>4. s.at * A >= s.last * A + A /\ s.at * A \in Nat
  <2>1. s.at \in Nat /\ s.last \in Nat
    BY <1>1
  <2> QED BY <1>1, <1>2, <2>1, Product
<1>5. (s.next - 1) * B >= s.taken * B /\ (s.next - 1) * B \in Nat
  <2>1. CASE s.taken = s.next - 1
    BY <1>3, <2>1
  <2>2. CASE s.taken < s.next - 1
    <3>1. s.taken \in Nat /\ s.next - 1 \in Nat
      BY <1>1
    <3> QED BY <1>2, <1>3, <2>2, <3>1, Product
  <2> QED BY <1>1, <2>1, <2>2
<1>6. (s.taken + 1) * B >= s.taken * B + B /\ (s.taken + 1) * B \in Nat
  <2>1. s.taken \in Nat /\ s.taken + 1 \in Nat /\ s.taken < s.taken + 1
    BY <1>1
  <2> QED BY <1>2, <2>1, Product
<1>7. /\ Effort(size, length, s) = s.last * A + s.taken * B + s.at
      /\ Effort(size, length, Stretches(s)) = s.at * A + (s.next - 1) * B + (s.at + 1)
      /\ Effort(size, length, Consumes(s)) = s.last * A + s.taken * B + (s.at + 1)
      /\ Effort(size, length, Retries(s)) = s.last * A + (s.taken + 1) * B + (s.last + 1)
  BY DEF Effort, Stretches, Consumes, Retries, A, B
<1>8. B > s.at
  BY <1>1 DEF B
<1> QED BY <1>1, <1>2, <1>3, <1>4, <1>5, <1>6, <1>7, <1>8

LEMMA EffortBound ==
  ASSUME NEW size \in Nat, NEW length \in Nat
  PROVE  \E N \in Nat : \A s \in Progress(size, length) :
            Effort(size, length, s) \in Nat /\ Effort(size, length, s) <= N
<1> DEFINE B == size + 2
           A == (length + 1) * B
<1>1. B \in Nat /\ A \in Nat
  BY Product
<1> HIDE DEF A, B
<1>2. size * A \in Nat /\ length * B \in Nat
  BY <1>1, Product
<1>3. ASSUME NEW s \in Progress(size, length)
      PROVE  /\ Effort(size, length, s) \in Nat
             /\ Effort(size, length, s) <= size * A + length * B + size + 1
  <2>1. /\ s.at \in 1 .. size + 1 /\ s.last \in 0 .. size /\ s.taken \in 0 .. length
    BY DEF Progress
  <2>2. s.last * A <= size * A /\ s.last * A \in Nat
    <3>1. s.last \in Nat
      BY <2>1
    <3>2. CASE s.last = size
      BY <3>2, <1>2
    <3>3. CASE s.last < size
      BY <1>1, <1>2, <3>1, <3>3, Product
    <3> QED BY <2>1, <3>2, <3>3
  <2>3. s.taken * B <= length * B /\ s.taken * B \in Nat
    <3>1. s.taken \in Nat
      BY <2>1
    <3>2. CASE s.taken = length
      BY <3>2, <1>2
    <3>3. CASE s.taken < length
      BY <1>1, <1>2, <3>1, <3>3, Product
    <3> QED BY <2>1, <3>2, <3>3
  <2>4. Effort(size, length, s) = s.last * A + s.taken * B + s.at
    BY DEF Effort, A, B
  <2> QED BY <1>2, <2>1, <2>2, <2>3, <2>4
<1> QED BY <1>2, <1>3

(* The search ends.                                                        *)
Walkable(size, length, many, fits) ==
  \E w \in [Progress(size, length) -> BOOLEAN] :
     \A s \in Progress(size, length) : w[s] = Onward(size, length, many, fits, w, s)

LEMMA WalkExists ==
  ASSUME NEW size \in Nat, NEW length \in Nat, NEW many \in SUBSET (1 .. size), NEW fits
  PROVE  Walkable(size, length, many, fits)
<1> DEFINE S == Progress(size, length)
           On(w, s) == Onward(size, length, many, fits, w, s)
           X == [S -> BOOLEAN]
           All(w) == [s \in S |-> On(w, s)]
<1>1. PICK N \in Nat : \A s \in S : Effort(size, length, s) \in Nat /\ Effort(size, length, s) <= N
  BY EffortBound
<1> DEFINE Rest(s) == N - Effort(size, length, s)
           L == N + 2
           G == [p \in X \X (1 .. L) |-> All(p[1])]
           base == [s \in S |-> FALSE]
<1>2. \A w \in X : All(w) \in X
  <2> TAKE w \in X
  <2>1. \A s \in S : On(w, s) \in BOOLEAN
    <3> TAKE s \in S
    <3>1. CASE s.next > length
      BY <3>1 DEF Onward
    <3>2. CASE ~ (s.next > length)
      <4>1. /\ s.at \in many => Stretches(s) \in S
            /\ s.at <= size => Consumes(s) \in S
            /\ s.last # 0 => Retries(s) \in S
        BY <3>2, StepTyped
      <4> HIDE DEF S
      <4> QED BY <3>2, <4>1 DEF Onward
    <3> QED BY <3>1, <3>2
  <2> HIDE DEF S, On
  <2> QED BY <2>1
<1>3. ASSUME NEW k, NEW v \in X, NEW w \in X, \A s \in S : Rest(s) < k => v[s] = w[s], k \in Nat
      PROVE  \A s \in S : Rest(s) < k + 1 => On(v, s) = On(w, s)
  <2> TAKE s \in S
  <2> HAVE Rest(s) < k + 1
  <2>1. CASE s.next > length
    BY <2>1 DEF Onward
  <2>2. CASE ~ (s.next > length)
    <3>1. /\ s.at \in many => Stretches(s) \in S
          /\ s.at <= size => Consumes(s) \in S
          /\ s.last # 0 => Retries(s) \in S
      BY <2>2, StepTyped
    <3>2. /\ Effort(size, length, s) \in Nat
          /\ s.at \in many => Effort(size, length, Stretches(s)) > Effort(size, length, s)
          /\ Effort(size, length, Consumes(s)) > Effort(size, length, s)
          /\ Effort(size, length, Retries(s)) > Effort(size, length, s)
      BY <2>2, StepUpward
    <3>3. \A t \in S : Effort(size, length, t) > Effort(size, length, s) => v[t] = w[t]
      <4> TAKE t \in S
      <4> HAVE Effort(size, length, t) > Effort(size, length, s)
      <4>1. Effort(size, length, t) \in Nat /\ Effort(size, length, s) \in Nat
        BY <1>1
      <4> HIDE DEF S
      <4>2. Rest(t) < k
        BY <1>3, <4>1
      <4> QED BY <1>3, <4>2
    <3> HIDE DEF S, Rest
    <3> QED BY <2>2, <3>1, <3>2, <3>3 DEF Onward
  <2> QED BY <2>1, <2>2
<1>4. PICK h : Computes(L, X, base, G, h)
  <2>1. base \in X /\ L \in Nat /\ G \in [X \X (1 .. L) -> X]
    <3> HIDE DEF All, X
    <3>1. base \in X
      BY DEF X
    <3> QED BY <1>2, <3>1
  <2> HIDE DEF base, L, G, X
  <2> QED BY <2>1, Recursion
<1>5. h \in [0 .. L -> X] /\ \A k \in 1 .. L : h[k] = All(h[k - 1])
  <2>1. h \in [0 .. L -> X] /\ \A k \in 1 .. L : h[k] = G[<<h[k - 1], k>>]
    BY <1>4 DEF Computes
  <2>2. \A k \in 1 .. L : k - 1 \in 0 .. L
    OBVIOUS
  <2> HIDE DEF X, All, L
  <2>3. \A k \in 1 .. L : <<h[k - 1], k>> \in X \X (1 .. L)
    BY <2>1, <2>2
  <2> QED BY <2>1, <2>3
<1> DEFINE T == {k \in 0 .. N + 1 : \A s \in S : Rest(s) < k => h[k][s] = h[k + 1][s]}
<1>6. N + 1 \in T
  <2>1. 0 \in T
    <3>1. \A s \in S : Rest(s) \in Nat
      BY <1>1
    <3> HIDE DEF S, Rest
    <3> QED BY <3>1
  <2>2. ASSUME NEW k \in 0 + 1 .. N + 1, k - 1 \in T PROVE k \in T
    <3>1. k - 1 \in Nat /\ k \in 1 .. L /\ k + 1 \in 1 .. L /\ k - 1 \in 0 .. L /\ k \in 0 .. L /\ k + 1 - 1 = k
          /\ k - 1 + 1 = k
      OBVIOUS
    <3>2. h[k - 1] \in X /\ h[k] \in X /\ h[k] = All(h[k - 1]) /\ h[k + 1] = All(h[k])
      <4> HIDE DEF All, X, L
      <4> QED BY <1>5, <3>1
    <3>3. \A s \in S : Rest(s) < k - 1 => h[k - 1][s] = h[k][s]
      <4> HIDE DEF All, X, L, S, Rest
      <4> QED BY <2>2, <3>1
    <3>4. \A s \in S : Rest(s) < k => On(h[k - 1], s) = On(h[k], s)
      <4> HIDE DEF All, X, L, S, Rest, On
      <4>1. \A s \in S : Rest(s) < k - 1 + 1 => On(h[k - 1], s) = On(h[k], s)
        BY <1>3, <3>1, <3>2, <3>3
      <4> QED BY <3>1, <4>1
    <3>5. \A s \in S : Rest(s) < k => h[k][s] = h[k + 1][s]
      <4> HIDE DEF S, Rest, On, X
      <4> QED BY <3>2, <3>4
    <3> HIDE DEF S, Rest
    <3> QED BY <3>5
  <2> HIDE DEF T
  <2>3. 0 \in Nat /\ N + 1 \in Nat /\ N + 1 \in 0 .. N + 1
    OBVIOUS
  <2> QED BY <2>1, <2>2, <2>3, Upward
<1> DEFINE w == h[N + 1]
<1>7. w \in X /\ h[N + 2] = All(w)
  <2>1. N + 1 \in 0 .. L /\ N + 2 \in 1 .. L /\ N + 2 - 1 = N + 1
    OBVIOUS
  <2> HIDE DEF All, X, L
  <2> QED BY <1>5, <2>1
<1>8. \A s \in S : w[s] = On(w, s)
  <2> TAKE s \in S
  <2>1. Rest(s) < N + 1
    BY <1>1
  <2>2. h[N + 1][s] = h[N + 2][s]
    <3>1. N + 1 + 1 = N + 2
      OBVIOUS
    <3> HIDE DEF S, Rest
    <3> QED BY <1>6, <2>1, <3>1
  <2> HIDE DEF S, On, w
  <2> QED BY <1>7, <2>2 DEF w
<1> HIDE DEF w, S
<1> QED BY <1>7, <1>8 DEF S, Walkable

(* The i-th element is laid over what is between two cuts.                 *)
Lies(many, fits, cut, i) ==
  IF i \in many THEN cut[i - 1] <= cut[i] ELSE cut[i] = cut[i - 1] + 1 /\ fits[i][cut[i]]

Division(size, length, many, fits, cut) ==
  /\ cut \in [0 .. size -> 0 .. length]
  /\ cut[0] = 0 /\ cut[size] = length
  /\ \A i \in 1 .. size : Lies(many, fits, cut, i)

(* What has been walked over is laid.                                      *)
Behind(length, many, fits, s, c) ==
  /\ c \in [0 .. s.last -> 0 .. length]
  /\ c[0] = 0 /\ c[s.last] = s.taken
  /\ \A i \in 1 .. s.last : Lies(many, fits, c, i)

Laid(size, length, many, fits, s) ==
  /\ s \in Progress(size, length)
  /\ s.next = s.taken + (s.at - s.last)
  /\ s.last \in many \cup {0} /\ (s.last = 0 => s.taken = 0)
  /\ \A i \in s.last + 1 .. s.at - 1 : i \notin many /\ fits[i][s.taken + (i - s.last)]
  /\ \E c : Behind(length, many, fits, s, c)

(* No division gives less to the elements up to the last that matched many.*)
Least(size, length, many, fits, s) ==
  \A cut : Division(size, length, many, fits, cut) => s.taken <= cut[s.last]

LEMMA Typed ==
  ASSUME NEW size \in Nat, NEW length \in Nat, NEW s \in Progress(size, length)
  PROVE  /\ s.at \in 1 .. size + 1 /\ s.next \in 1 .. length + 1 /\ s.last \in 0 .. size
         /\ s.taken \in 0 .. length /\ s.last < s.at /\ s.taken < s.next
BY DEF Progress

(* Elements that match one take one each.                                  *)
LEMMA SinglesAdd ==
  ASSUME NEW size \in Nat, NEW length \in Nat, NEW many, NEW fits,
         NEW cut, Division(size, length, many, fits, cut)
  PROVE  \A a, b \in 0 .. size : a <= b /\ (\A i \in a + 1 .. b : i \notin many) => cut[b] = cut[a] + (b - a)
<1> SUFFICES ASSUME NEW a \in 0 .. size, NEW b \in 0 .. size, a <= b, \A i \in a + 1 .. b : i \notin many
             PROVE  cut[b] = cut[a] + (b - a)
  OBVIOUS
<1> DEFINE T == {i \in a .. b : cut[i] = cut[a] + (i - a)}
<1>1. cut \in [0 .. size -> 0 .. length] /\ \A i \in 1 .. size : Lies(many, fits, cut, i)
  BY DEF Division
<1>2. a \in T
  BY <1>1
<1>3. ASSUME NEW i \in a + 1 .. b, i - 1 \in T PROVE i \in T
  <2>1. i \in 1 .. size /\ i - 1 \in 0 .. size /\ i \notin many
    OBVIOUS
  <2>2. cut[i] = cut[i - 1] + 1
    BY <1>1, <2>1 DEF Lies
  <2> QED BY <1>1, <1>3, <2>1, <2>2
<1> HIDE DEF T
<1>4. a \in Nat /\ b \in Nat /\ b \in a .. b
  OBVIOUS
<1>5. b \in T
  BY <1>2, <1>3, <1>4, Upward
<1> QED BY <1>5 DEF T

LEMMA StretchesRight ==
  ASSUME NEW size \in Nat, NEW length \in Nat, NEW many \in SUBSET (1 .. size), NEW fits,
         NEW s \in Progress(size, length), Laid(size, length, many, fits, s), Least(size, length, many, fits, s),
         ~ (s.next > length), s.at \in many
  PROVE  Laid(size, length, many, fits, Stretches(s)) /\ Least(size, length, many, fits, Stretches(s))
<1> DEFINE t == Stretches(s)
<1>0. s \in Progress(size, length)
  BY DEF Laid
<1>1. /\ s.next = s.taken + (s.at - s.last)
      /\ \A i \in s.last + 1 .. s.at - 1 : i \notin many /\ fits[i][s.taken + (i - s.last)]
  BY DEF Laid
<1>2. /\ s.at \in 1 .. size /\ s.next \in 1 .. length /\ s.last \in 0 .. size
      /\ s.taken \in 0 .. length /\ s.last < s.at /\ s.taken < s.next
  BY <1>0, Typed
<1>3. t.at = s.at + 1 /\ t.next = s.next /\ t.last = s.at /\ t.taken = s.next - 1
  BY DEF Stretches
<1>4. t \in Progress(size, length)
  BY <1>0, StepTyped
<1>5. PICK c : Behind(length, many, fits, s, c)
  BY DEF Laid
<1> DEFINE d == [i \in 0 .. s.at |-> IF i <= s.last THEN c[i]
                                     ELSE IF i < s.at THEN s.taken + (i - s.last) ELSE s.next - 1]
<1>6. Behind(length, many, fits, t, d)
  <2>1. /\ c \in [0 .. s.last -> 0 .. length] /\ c[0] = 0 /\ c[s.last] = s.taken
        /\ \A i \in 1 .. s.last : Lies(many, fits, c, i)
    BY <1>5 DEF Behind
  <2>2. d \in [0 .. s.at -> 0 .. length]
    <3>1. \A i \in 0 .. s.at : (i <= s.last => c[i] \in 0 .. length)
      BY <1>2, <2>1
    <3>2. \A i \in 0 .. s.at : ~ (i <= s.last) /\ i < s.at => s.taken + (i - s.last) \in 0 .. length
      BY <1>1, <1>2
    <3>3. s.next - 1 \in 0 .. length
      BY <1>2
    <3> QED BY <3>1, <3>2, <3>3
  <2>3. d[0] = 0 /\ d[s.at] = s.next - 1
    BY <1>2, <2>1
  <2>4. ASSUME NEW i \in 1 .. s.at PROVE Lies(many, fits, d, i)
    <3>1. i \in 0 .. s.at /\ i - 1 \in 0 .. s.at /\ i \in Int
      BY <1>2
    <3>2. CASE i <= s.last
      <4>1. d[i] = c[i] /\ d[i - 1] = c[i - 1]
        BY <1>2, <3>1, <3>2
      <4>2. Lies(many, fits, c, i)
        BY <1>2, <2>1, <3>2
      <4> HIDE DEF d
      <4> QED BY <4>1, <4>2 DEF Lies
    <3>3. CASE ~ (i <= s.last) /\ i < s.at
      <4>1. d[i] = s.taken + (i - s.last)
        BY <1>2, <3>1, <3>3
      <4>2. d[i - 1] = s.taken + (i - 1 - s.last)
        <5>1. CASE i - 1 = s.last
          BY <1>2, <2>1, <3>1, <5>1
        <5>2. CASE i - 1 # s.last
          <6>1. ~ (i - 1 <= s.last) /\ i - 1 < s.at
            BY <1>2, <3>3, <5>2
          <6> QED BY <3>1, <6>1
        <5> QED BY <5>1, <5>2
      <4>3. i \notin many /\ fits[i][s.taken + (i - s.last)]
        <5>1. i \in s.last + 1 .. s.at - 1
          BY <1>2, <3>3
        <5> QED BY <1>1, <5>1
      <4> HIDE DEF d
      <4>4. d[i] = d[i - 1] + 1
        BY <1>2, <4>1, <4>2
      <4> QED BY <4>1, <4>3, <4>4 DEF Lies
    <3>4. CASE i = s.at
      <4>1. d[i] = s.next - 1
        BY <1>2, <3>4
      <4>2. d[i - 1] = s.next - 1
        <5>1. CASE i - 1 = s.last
          <6>1. d[i - 1] = c[s.last]
            BY <3>1, <5>1
          <6> HIDE DEF d
          <6> QED BY <1>1, <1>2, <2>1, <3>4, <5>1, <6>1
        <5>2. CASE i - 1 # s.last
          <6>1. ~ (i - 1 <= s.last) /\ i - 1 < s.at
            BY <1>2, <3>4, <5>2
          <6>2. d[i - 1] = s.taken + (i - 1 - s.last)
            BY <3>1, <6>1
          <6> HIDE DEF d
          <6> QED BY <1>1, <1>2, <3>4, <6>2
        <5> QED BY <5>1, <5>2
      <4> HIDE DEF d
      <4> QED BY <1>2, <3>4, <4>1, <4>2 DEF Lies
    <3> QED BY <1>2, <3>2, <3>3, <3>4
  <2> HIDE DEF d, t
  <2> QED BY <1>3, <2>2, <2>3, <2>4 DEF Behind
<1>7. Laid(size, length, many, fits, t)
  <2>1. t.next = t.taken + (t.at - t.last)
    BY <1>2, <1>3
  <2>2. t.last \in many \cup {0} /\ (t.last = 0 => t.taken = 0)
    BY <1>2, <1>3
  <2>3. \A i \in t.last + 1 .. t.at - 1 : i \notin many /\ fits[i][t.taken + (i - t.last)]
    <3>1. t.last + 1 .. t.at - 1 = {}
      BY <1>2, <1>3
    <3> QED BY <3>1
  <2> HIDE DEF t, d
  <2> QED BY <1>4, <1>6, <2>1, <2>2, <2>3 DEF Laid
<1>8. Least(size, length, many, fits, t)
  <2> SUFFICES ASSUME NEW cut, Division(size, length, many, fits, cut) PROVE t.taken <= cut[t.last]
    BY DEF Least
  <2>1. cut[s.at - 1] = cut[s.last] + (s.at - 1 - s.last)
    <3> DEFINE a == s.last
               b == s.at - 1
    <3>1. a \in 0 .. size /\ b \in 0 .. size /\ a <= b /\ \A i \in a + 1 .. b : i \notin many
      BY <1>1, <1>2
    <3>0. \A x, y \in 0 .. size : x <= y /\ (\A i \in x + 1 .. y : i \notin many) => cut[y] = cut[x] + (y - x)
      BY SinglesAdd
    <3> HIDE DEF a, b
    <3>2. cut[b] = cut[a] + (b - a)
      BY <3>0, <3>1
    <3> QED BY <3>2 DEF a, b
  <2>2. s.taken <= cut[s.last]
    BY DEF Least
  <2>3. cut[s.at - 1] <= cut[s.at]
    BY <1>2 DEF Division, Lies
  <2>4. cut[s.at - 1] \in Nat /\ cut[s.at] \in Nat /\ cut[s.last] \in Nat
    BY <1>2 DEF Division
  <2> QED BY <1>1, <1>2, <1>3, <2>1, <2>2, <2>3, <2>4
<1> QED BY <1>7, <1>8

LEMMA ConsumesRight ==
  ASSUME NEW size \in Nat, NEW length \in Nat, NEW many \in SUBSET (1 .. size), NEW fits,
         NEW s \in Progress(size, length), Laid(size, length, many, fits, s), Least(size, length, many, fits, s),
         ~ (s.next > length), s.at \notin many, s.at <= size, fits[s.at][s.next]
  PROVE  Laid(size, length, many, fits, Consumes(s)) /\ Least(size, length, many, fits, Consumes(s))
<1> DEFINE t == Consumes(s)
<1>0. s \in Progress(size, length)
  BY DEF Laid
<1>1. /\ s.next = s.taken + (s.at - s.last)
      /\ s.last \in many \cup {0} /\ (s.last = 0 => s.taken = 0)
      /\ \A i \in s.last + 1 .. s.at - 1 : i \notin many /\ fits[i][s.taken + (i - s.last)]
  BY DEF Laid
<1>2. /\ s.at \in 1 .. size /\ s.next \in 1 .. length /\ s.last \in 0 .. size
      /\ s.taken \in 0 .. length /\ s.last < s.at /\ s.taken < s.next
  BY <1>0, Typed
<1>3. t.at = s.at + 1 /\ t.next = s.next + 1 /\ t.last = s.last /\ t.taken = s.taken
  BY DEF Consumes
<1>4. t \in Progress(size, length)
  BY <1>0, StepTyped
<1>5. \A i \in t.last + 1 .. t.at - 1 : i \notin many /\ fits[i][t.taken + (i - t.last)]
  <2> HIDE DEF t
  <2> SUFFICES ASSUME NEW i \in s.last + 1 .. s.at PROVE i \notin many /\ fits[i][s.taken + (i - s.last)]
    BY <1>2, <1>3
  <2>1. CASE i = s.at
    BY <1>1, <2>1
  <2>2. CASE i # s.at
    BY <1>1, <1>2, <2>2
  <2> QED BY <2>1, <2>2
<1>6. \E c : Behind(length, many, fits, t, c)
  BY <1>3 DEF Laid, Behind
<1> HIDE DEF t
<1>7. t.next = t.taken + (t.at - t.last)
  BY <1>1, <1>2, <1>3
<1>8. Laid(size, length, many, fits, t)
  BY <1>1, <1>3, <1>4, <1>5, <1>6, <1>7 DEF Laid
<1>9. Least(size, length, many, fits, t)
  BY <1>3 DEF Least
<1> QED BY <1>8, <1>9 DEF t

LEMMA NoDivisionFrom ==
  ASSUME NEW size \in Nat, NEW length \in Nat, NEW many, NEW fits,
         NEW s \in Progress(size, length), Laid(size, length, many, fits, s),
         ~ (s.next > length), s.at \notin many, ~ (s.at <= size /\ fits[s.at][s.next]),
         NEW cut, Division(size, length, many, fits, cut)
  PROVE  cut[s.last] # s.taken
<1> SUFFICES ASSUME cut[s.last] = s.taken PROVE FALSE
  OBVIOUS
<1>0. s \in Progress(size, length)
  BY DEF Laid
<1>1. /\ s.next = s.taken + (s.at - s.last)
      /\ \A i \in s.last + 1 .. s.at - 1 : i \notin many
  BY DEF Laid
<1>2. /\ s.at \in 1 .. size + 1 /\ s.next \in 1 .. length /\ s.last \in 0 .. size
      /\ s.taken \in 0 .. length /\ s.last < s.at /\ s.taken < s.next
  BY <1>0, Typed
<1>3. cut[s.at - 1] = s.next - 1
  <2>2. cut[s.at - 1] = cut[s.last] + (s.at - 1 - s.last)
    <3> DEFINE a == s.last
               b == s.at - 1
    <3>1. a \in 0 .. size /\ b \in 0 .. size /\ a <= b /\ \A i \in a + 1 .. b : i \notin many
      BY <1>1, <1>2
    <3>0. \A x, y \in 0 .. size : x <= y /\ (\A i \in x + 1 .. y : i \notin many) => cut[y] = cut[x] + (y - x)
      BY SinglesAdd
    <3> HIDE DEF a, b
    <3>2. cut[b] = cut[a] + (b - a)
      BY <3>0, <3>1
    <3> QED BY <3>2 DEF a, b
  <2> QED BY <1>1, <1>2, <2>2
<1>4. CASE s.at = size + 1
  <2>1. cut[size] = length
    BY DEF Division
  <2> QED BY <1>2, <1>3, <1>4, <2>1
<1>5. CASE s.at # size + 1
  <2>1. s.at \in 1 .. size /\ ~ fits[s.at][s.next]
    BY <1>2, <1>5
  <2>2. cut[s.at] = cut[s.at - 1] + 1 /\ fits[s.at][cut[s.at]]
    <3>1. Lies(many, fits, cut, s.at)
      BY <2>1 DEF Division
    <3> QED BY <3>1 DEF Lies
  <2>3. cut[s.at] = s.next
    BY <1>2, <1>3, <2>2
  <2> QED BY <2>1, <2>2, <2>3
<1> QED BY <1>4, <1>5

LEMMA RetriesRight ==
  ASSUME NEW size \in Nat, NEW length \in Nat, NEW many \in SUBSET (1 .. size), NEW fits,
         NEW s \in Progress(size, length), Laid(size, length, many, fits, s), Least(size, length, many, fits, s),
         ~ (s.next > length), s.at \notin many, ~ (s.at <= size /\ fits[s.at][s.next]), s.last # 0
  PROVE  Laid(size, length, many, fits, Retries(s)) /\ Least(size, length, many, fits, Retries(s))
<1> DEFINE t == Retries(s)
<1>0. s \in Progress(size, length)
  BY DEF Laid
<1>1. /\ s.next = s.taken + (s.at - s.last)
      /\ s.last \in many
  BY DEF Laid
<1>2. /\ s.at \in 1 .. size + 1 /\ s.next \in 1 .. length /\ s.last \in 1 .. size
      /\ s.taken \in 0 .. length /\ s.last < s.at /\ s.taken < s.next
  BY <1>0, Typed
<1>3. t.at = s.last + 1 /\ t.next = s.taken + 2 /\ t.last = s.last /\ t.taken = s.taken + 1
  BY DEF Retries
<1>4. t \in Progress(size, length)
  BY <1>0, StepTyped
<1>5. PICK c : Behind(length, many, fits, s, c)
  BY DEF Laid
<1> DEFINE d == [i \in 0 .. s.last |-> IF i = s.last THEN s.taken + 1 ELSE c[i]]
<1>6. Behind(length, many, fits, t, d)
  <2>1. /\ c \in [0 .. s.last -> 0 .. length] /\ c[0] = 0 /\ c[s.last] = s.taken
        /\ \A i \in 1 .. s.last : Lies(many, fits, c, i)
    BY <1>5 DEF Behind
  <2>2. d \in [0 .. s.last -> 0 .. length] /\ d[0] = 0 /\ d[s.last] = s.taken + 1
    BY <1>2, <2>1
  <2>3. ASSUME NEW i \in 1 .. s.last PROVE Lies(many, fits, d, i)
    <3>1. i \in 0 .. s.last /\ i - 1 \in 0 .. s.last /\ i - 1 # s.last /\ Lies(many, fits, c, i)
      BY <1>2, <2>1
    <3>2. d[i - 1] = c[i - 1]
      BY <3>1
    <3>3. CASE i = s.last
      <4>1. c[i - 1] <= c[i] /\ d[i] = c[i] + 1 /\ c[i - 1] \in Nat /\ c[i] \in Nat
        BY <1>1, <2>1, <3>1, <3>3 DEF Lies
      <4> HIDE DEF d
      <4> QED BY <1>1, <3>2, <3>3, <4>1 DEF Lies
    <3>4. CASE i # s.last
      <4>1. d[i] = c[i]
        BY <3>1, <3>4
      <4> HIDE DEF d
      <4> QED BY <3>1, <3>2, <4>1 DEF Lies
    <3> QED BY <3>3, <3>4
  <2> HIDE DEF d, t
  <2> QED BY <1>3, <2>2, <2>3 DEF Behind
<1> HIDE DEF t, d
<1>7. Laid(size, length, many, fits, t)
  <2>1. t.next = t.taken + (t.at - t.last) /\ t.last \in many \cup {0} /\ (t.last = 0 => t.taken = 0)
    BY <1>1, <1>2, <1>3
  <2>2. t.last + 1 .. t.at - 1 = {}
    BY <1>2, <1>3
  <2> QED BY <1>4, <1>6, <2>1, <2>2 DEF Laid
<1>8. Least(size, length, many, fits, t)
  <2> SUFFICES ASSUME NEW cut, Division(size, length, many, fits, cut) PROVE t.taken <= cut[t.last]
    BY DEF Least
  <2>1. s.taken <= cut[s.last] /\ cut[s.last] # s.taken
    BY NoDivisionFrom DEF Least
  <2>2. cut[s.last] \in Nat
    BY <1>2 DEF Division
  <2> QED BY <1>2, <1>3, <2>1, <2>2
<1> QED BY <1>7, <1>8 DEF t

LEMMA StartRight ==
  ASSUME NEW size \in Nat, NEW length \in Nat, NEW many, NEW fits
  PROVE  LET s == [at |-> 1, next |-> 1, last |-> 0, taken |-> 0]
         IN  s \in Progress(size, length) /\ Laid(size, length, many, fits, s) /\ Least(size, length, many, fits, s)
<1> DEFINE s == [at |-> 1, next |-> 1, last |-> 0, taken |-> 0]
<1>1. s \in Progress(size, length)
  BY DEF Progress
<1>2. \E c : Behind(length, many, fits, s, c)
  <2> DEFINE c == [i \in 0 .. 0 |-> 0]
  <2>1. c \in [0 .. 0 -> 0 .. length] /\ c[0] = 0 /\ 1 .. 0 = {}
    OBVIOUS
  <2> HIDE DEF c
  <2> QED BY <2>1 DEF Behind
<1>3. Laid(size, length, many, fits, s)
  <2>1. s.next = s.taken + (s.at - s.last) /\ s.last = 0 /\ s.taken = 0 /\ s.last + 1 .. s.at - 1 = {}
    OBVIOUS
  <2> HIDE DEF s
  <2> QED BY <1>1, <1>2, <2>1 DEF Laid
<1>4. Least(size, length, many, fits, s)
  BY DEF Least, Division
<1> QED BY <1>1, <1>3, <1>4

(* The value is used up: what is left must match many.                     *)
LEMMA EndRight ==
  ASSUME NEW size \in Nat, NEW length \in Nat, NEW many, NEW fits,
         NEW s \in Progress(size, length), Laid(size, length, many, fits, s),
         Least(size, length, many, fits, s), s.next > length
  PROVE  s.at .. size \subseteq many <=> \E cut : Division(size, length, many, fits, cut)
<1>1. /\ s.next = s.taken + (s.at - s.last)
      /\ \A i \in s.last + 1 .. s.at - 1 : i \notin many /\ fits[i][s.taken + (i - s.last)]
  BY DEF Laid
<1>2. /\ s.at \in 1 .. size + 1 /\ s.next = length + 1 /\ s.last \in 0 .. size
      /\ s.taken \in 0 .. length /\ s.last < s.at /\ s.taken < s.next
  BY Typed
<1>3. ASSUME s.at .. size \subseteq many PROVE \E cut : Division(size, length, many, fits, cut)
  <2>1. PICK c : Behind(length, many, fits, s, c)
    BY DEF Laid
  <2>2. /\ c \in [0 .. s.last -> 0 .. length] /\ c[0] = 0 /\ c[s.last] = s.taken
        /\ \A i \in 1 .. s.last : Lies(many, fits, c, i)
    BY <2>1 DEF Behind
  <2> DEFINE d == [i \in 0 .. size |-> IF i <= s.last THEN c[i]
                                       ELSE IF i < s.at THEN s.taken + (i - s.last) ELSE length]
  <2>3. \A i \in 0 .. size : /\ i <= s.last => d[i] = c[i]
                             /\ ~ (i <= s.last) /\ i < s.at => d[i] = s.taken + (i - s.last)
                             /\ ~ (i < s.at) => d[i] = length
    BY <1>2
  <2>4. d \in [0 .. size -> 0 .. length]
    <3>1. \A i \in 0 .. size : i <= s.last => c[i] \in 0 .. length
      BY <1>2, <2>2
    <3>2. \A i \in 0 .. size : ~ (i <= s.last) /\ i < s.at => s.taken + (i - s.last) \in 0 .. length
      BY <1>1, <1>2
    <3> QED BY <3>1, <3>2
  <2> HIDE DEF d
  <2>5. d[0] = 0
    BY <1>2, <2>2, <2>3
  <2>6. d[size] = length
    <3>1. size \in 0 .. size
      OBVIOUS
    <3>2. CASE size < s.at
      <4>1. s.at = size + 1
        BY <1>2, <3>2
      <4>4. length = s.taken + (size - s.last)
        <5>0. s.next = s.taken + (s.at - s.last)
          BY <1>1
        <5>1. s.next = s.taken + (size + 1 - s.last)
          BY <1>2, <4>1, <5>0
        <5> QED BY <1>2, <5>1
      <4>2. CASE size <= s.last
        BY <1>2, <2>2, <2>3, <3>1, <4>1, <4>2, <4>4
      <4>3. CASE ~ (size <= s.last)
        BY <2>3, <3>1, <3>2, <4>3, <4>4
      <4> QED BY <4>2, <4>3
    <3> QED BY <2>3, <3>1, <3>2
  <2>7. ASSUME NEW i \in 1 .. size PROVE Lies(many, fits, d, i)
    <3>1. i \in 0 .. size /\ i - 1 \in 0 .. size /\ d[i - 1] \in 0 .. length
      BY <2>4
    <3>2. CASE i <= s.last
      <4>1. d[i] = c[i] /\ d[i - 1] = c[i - 1] /\ Lies(many, fits, c, i)
        BY <1>2, <2>2, <2>3, <3>1, <3>2
      <4> QED BY <4>1 DEF Lies
    <3>3. CASE ~ (i <= s.last) /\ i < s.at
      <4>1. d[i] = s.taken + (i - s.last)
        BY <2>3, <3>1, <3>3
      <4>2. d[i - 1] = s.taken + (i - 1 - s.last)
        <5>1. CASE i - 1 = s.last
          <6>1. d[i - 1] = c[i - 1]
            BY <1>2, <2>3, <3>1, <5>1
          <6> QED BY <1>2, <2>2, <5>1, <6>1
        <5>2. CASE i - 1 # s.last
          <6>1. ~ (i - 1 <= s.last) /\ i - 1 < s.at
            BY <1>2, <3>3, <5>2
          <6> QED BY <2>3, <3>1, <6>1
        <5> QED BY <5>1, <5>2
      <4>3. i \notin many /\ fits[i][s.taken + (i - s.last)]
        <5>1. i \in s.last + 1 .. s.at - 1
          BY <1>2, <3>3
        <5> QED BY <1>1, <5>1
      <4>4. d[i] = d[i - 1] + 1
        BY <1>2, <4>1, <4>2
      <4> QED BY <4>1, <4>3, <4>4 DEF Lies
    <3>4. CASE ~ (i < s.at)
      <4>1. i \in many /\ d[i] = length
        BY <1>2, <1>3, <2>3, <3>1, <3>4
      <4>2. d[i - 1] <= d[i]
        BY <3>1, <4>1
      <4> QED BY <4>1, <4>2 DEF Lies
    <3> QED BY <1>2, <3>2, <3>3, <3>4
  <2> QED BY <2>4, <2>5, <2>6, <2>7 DEF Division
<1>4. ASSUME NEW cut, Division(size, length, many, fits, cut) PROVE s.at .. size \subseteq many
  <2>1. cut \in [0 .. size -> 0 .. length] /\ \A i \in 1 .. size : Lies(many, fits, cut, i)
    BY <1>4 DEF Division
  <2> DEFINE T == {i \in s.at - 1 .. size : cut[i] >= length}
  <2>2. s.at - 1 \in T
    <3> DEFINE a == s.last
               b == s.at - 1
    <3>1. a \in 0 .. size /\ b \in 0 .. size /\ a <= b /\ \A i \in a + 1 .. b : i \notin many
      BY <1>1, <1>2
    <3>2. \A x, y \in 0 .. size : x <= y /\ (\A i \in x + 1 .. y : i \notin many) => cut[y] = cut[x] + (y - x)
      BY <1>4, SinglesAdd
    <3> HIDE DEF a, b
    <3>3. cut[b] = cut[a] + (b - a)
      BY <3>1, <3>2
    <3> USE DEF a, b
    <3>4. s.taken <= cut[s.last] /\ cut[s.last] \in Nat
      BY <1>2, <1>4, <2>1 DEF Least
    <3> QED BY <1>1, <1>2, <3>3, <3>4
  <2>3. ASSUME NEW i \in s.at - 1 + 1 .. size, i - 1 \in T PROVE i \in T
    <3>1. i \in 1 .. size /\ i - 1 \in 0 .. size /\ Lies(many, fits, cut, i) /\ cut[i - 1] >= length
          /\ i \in s.at - 1 .. size
      BY <1>2, <2>1, <2>3
    <3>2. cut[i] >= cut[i - 1]
      BY <2>1, <3>1 DEF Lies
    <3> QED BY <2>1, <3>1, <3>2
  <2>4. s.at - 1 \in Nat
    BY <1>2
  <2> HIDE DEF T
  <2>5. \A i \in s.at - 1 .. size : i \in T
    BY <2>2, <2>3, <2>4, Upward
  <2> SUFFICES ASSUME NEW i \in s.at .. size, i \notin many PROVE FALSE
    OBVIOUS
  <2>6. i - 1 \in T /\ i \in 1 .. size /\ i - 1 \in 0 .. size
    BY <1>2, <2>5
  <2>7. cut[i] = cut[i - 1] + 1
    BY <2>1, <2>6 DEF Lies
  <2>8. cut[i - 1] >= length /\ cut[i] \in 0 .. length
    BY <2>1, <2>6 DEF T
  <2> QED BY <2>1, <2>6, <2>7, <2>8
<1> QED BY <1>3, <1>4

LEMMA WalkRight ==
  ASSUME NEW size \in Nat, NEW length \in Nat, NEW many \in SUBSET (1 .. size), NEW fits,
         NEW w,
         \A s \in Progress(size, length) : w[s] = Onward(size, length, many, fits, w, s)
  PROVE  \A s \in Progress(size, length) :
            Laid(size, length, many, fits, s) /\ Least(size, length, many, fits, s) =>
              w[s] \in BOOLEAN /\ (w[s] <=> \E cut : Division(size, length, many, fits, cut))
<1> DEFINE S == Progress(size, length)
           Right(s) == Laid(size, length, many, fits, s) /\ Least(size, length, many, fits, s)
           Good == \E cut : Division(size, length, many, fits, cut)
<1>1. PICK N \in Nat : \A s \in S : Effort(size, length, s) \in Nat /\ Effort(size, length, s) <= N
  BY EffortBound
<1> DEFINE Rest(s) == N - Effort(size, length, s)
           T == {k \in 0 .. N + 1 : \A s \in S : Rest(s) < k /\ Right(s) => w[s] \in BOOLEAN /\ (w[s] <=> Good)}
<1>2. 0 \in T
  <2>1. \A s \in S : Rest(s) \in Nat
    BY <1>1
  <2> HIDE DEF S, Rest, Right, Good
  <2> QED BY <2>1
<1>3. ASSUME NEW k \in 0 + 1 .. N + 1, k - 1 \in T PROVE k \in T
  <2> SUFFICES ASSUME NEW s \in S, Rest(s) < k, Right(s) PROVE w[s] \in BOOLEAN /\ (w[s] <=> Good)
    <3> HIDE DEF S, Rest, Right, Good
    <3> QED OBVIOUS
  <2>1. \A t \in S : Effort(size, length, t) > Effort(size, length, s) /\ Right(t) => w[t] \in BOOLEAN /\ (w[t] <=> Good)
    <3> TAKE t \in S
    <3> HAVE Effort(size, length, t) > Effort(size, length, s) /\ Right(t)
    <3>1. Effort(size, length, t) \in Nat /\ Effort(size, length, s) \in Nat
      BY <1>1
    <3> HIDE DEF S, Right, Good
    <3>2. Rest(t) < k - 1
      BY <3>1
    <3> HIDE DEF Rest
    <3> QED BY <1>3, <3>2
  <2>2. w[s] = Onward(size, length, many, fits, w, s)
    OBVIOUS
  <2>3. CASE s.next > length
    <3>1. w[s] \in BOOLEAN /\ (w[s] <=> s.at .. size \subseteq many)
      BY <2>2, <2>3 DEF Onward
    <3> QED BY <2>3, <3>1, EndRight
  <2>4. CASE ~ (s.next > length)
    <3>1. /\ s.at \in many => Stretches(s) \in S /\ Effort(size, length, Stretches(s)) > Effort(size, length, s)
          /\ s.at <= size => Consumes(s) \in S /\ Effort(size, length, Consumes(s)) > Effort(size, length, s)
          /\ s.last # 0 => Retries(s) \in S /\ Effort(size, length, Retries(s)) > Effort(size, length, s)
      <4>1. /\ s.at \in many => Stretches(s) \in S
            /\ s.at <= size => Consumes(s) \in S
            /\ s.last # 0 => Retries(s) \in S
        BY <2>4, StepTyped
      <4>2. /\ s.at \in many => Effort(size, length, Stretches(s)) > Effort(size, length, s)
            /\ Effort(size, length, Consumes(s)) > Effort(size, length, s)
            /\ Effort(size, length, Retries(s)) > Effort(size, length, s)
        BY <2>4, StepUpward
      <4> QED BY <4>1, <4>2
    <3>2. CASE s.at \in many
      <4>1. w[s] = w[Stretches(s)]
        BY <2>2, <2>4, <3>2 DEF Onward
      <4>2. Right(Stretches(s))
        BY <2>4, <3>2, StretchesRight
      <4> HIDE DEF S, Right, Good
      <4> QED BY <2>1, <3>1, <3>2, <4>1, <4>2
    <3>3. CASE s.at \notin many /\ s.at <= size /\ fits[s.at][s.next]
      <4>1. w[s] = w[Consumes(s)]
        BY <2>2, <2>4, <3>3 DEF Onward
      <4>2. Right(Consumes(s))
        BY <2>4, <3>3, ConsumesRight
      <4> HIDE DEF S, Right, Good
      <4> QED BY <2>1, <3>1, <3>3, <4>1, <4>2
    <3>4. CASE s.at \notin many /\ ~ (s.at <= size /\ fits[s.at][s.next]) /\ s.last # 0
      <4>1. w[s] \in BOOLEAN /\ (w[s] <=> w[Retries(s)])
        BY <2>2, <2>4, <3>4 DEF Onward
      <4>2. Right(Retries(s))
        BY <2>4, <3>4, RetriesRight
      <4> HIDE DEF S, Right, Good
      <4> QED BY <2>1, <3>1, <3>4, <4>1, <4>2
    <3>5. CASE s.at \notin many /\ ~ (s.at <= size /\ fits[s.at][s.next]) /\ s.last = 0
      <4>1. w[s] = FALSE
        BY <2>2, <2>4, <3>5 DEF Onward
      <4>2. ASSUME NEW cut, Division(size, length, many, fits, cut) PROVE FALSE
        <5>1. cut[s.last] # s.taken
          BY <2>4, <3>5, <4>2, NoDivisionFrom
        <5>2. s.taken = 0
          BY <3>5 DEF Laid
        <5>3. cut[0] = 0
          BY <4>2 DEF Division
        <5> QED BY <3>5, <5>1, <5>2, <5>3
      <4> QED BY <4>1, <4>2
    <3> QED BY <3>2, <3>3, <3>4, <3>5
  <2> QED BY <2>3, <2>4
<1> HIDE DEF T
<1>4. N + 1 \in T
  <2>1. 0 \in Nat /\ N + 1 \in Nat /\ N + 1 \in 0 .. N + 1
    OBVIOUS
  <2> QED BY <1>2, <1>3, <2>1, Upward
<1>5. \A s \in S : Rest(s) < N + 1
  BY <1>1
<1>6. \A s \in S : Right(s) => w[s] \in BOOLEAN /\ (w[s] <=> Good)
  <2> HIDE DEF S, Rest, Right, Good
  <2> QED BY <1>4, <1>5 DEF T
<1> QED BY <1>6

(* The search that never goes back behind the last element that matched    *)
(* many finds a division if there is one.                                  *)
LEMMA GreedyDivides ==
  ASSUME NEW size \in Nat, NEW length \in Nat, NEW many \in SUBSET (1 .. size), NEW fits
  PROVE  Greedy(size, length, many, fits) = Divides(size, length, many, fits)
<1> DEFINE S == Progress(size, length)
           start == [at |-> 1, next |-> 1, last |-> 0, taken |-> 0]
           Walks(h) == h = [s \in S |->
             IF s.next > length THEN s.at .. size \subseteq many
             ELSE IF s.at \in many THEN h[Stretches(s)]
             ELSE IF s.at <= size /\ fits[s.at][s.next] THEN h[Consumes(s)]
             ELSE s.last # 0 /\ h[Retries(s)]]
           walk == CHOOSE h : Walks(h)
<1>1. Greedy(size, length, many, fits) = walk[start]
  BY DEF Greedy
<1>2. PICK w \in [S -> BOOLEAN] : \A s \in S : w[s] = Onward(size, length, many, fits, w, s)
  <2>1. Walkable(size, length, many, fits)
    BY WalkExists
  <2> QED BY <2>1 DEF Walkable
<1>3. Walks(w)
  <2> HIDE DEF S
  <2> QED BY <1>2 DEF Onward
<1>4. Walks(walk)
  <2> HIDE DEF Walks
  <2> QED BY <1>3
<1> HIDE DEF walk
<1>5. \A s \in S : walk[s] = Onward(size, length, many, fits, walk, s)
  <2> HIDE DEF S
  <2> QED BY <1>4 DEF Onward
<1>6. walk[start] \in BOOLEAN /\ (walk[start] <=> \E cut : Division(size, length, many, fits, cut))
  <2>1. start \in S /\ Laid(size, length, many, fits, start) /\ Least(size, length, many, fits, start)
    BY StartRight
  <2> HIDE DEF start
  <2> QED BY <1>5, <2>1, WalkRight
<1>7. Divides(size, length, many, fits) <=> \E cut : Division(size, length, many, fits, cut)
  BY DEF Divides, Division, Lies
<1>8. Divides(size, length, many, fits) \in BOOLEAN
  BY DEF Divides
<1> HIDE DEF start
<1> QED BY <1>1, <1>6, <1>7, <1>8

LEMMA PartsTyped ==
  ASSUME NEW E, NEW pattern \in Seq(E), NEW kind
  PROVE  Parts(pattern, kind) \in Seq(Seq(E))
<1> DEFINE n == Len(pattern)
           Collected(parts, i) == IF pattern[i].kind = kind THEN Append(parts, <<>>)
                              ELSE [parts EXCEPT ![Len(parts)] = Append(@, pattern[i])]
           X == Seq(Seq(E)) \ {<<>>}
           G == [p \in X \X (1 .. n) |-> Collected(p[1], p[2])]
           Grows(h) == h = [i \in 0 .. n |-> IF i = 0 THEN <<<<>>>> ELSE Collected(h[i - 1], i)]
           f == CHOOSE h : Grows(h)
<1>1. Parts(pattern, kind) = f[n]
  BY DEF Parts, Looped
<1>2. n \in Nat /\ \A i \in 1 .. n : pattern[i] \in E
  OBVIOUS
<1>3. \A parts \in X, i \in 1 .. n : Collected(parts, i) \in X
  <2> TAKE parts \in X, i \in 1 .. n
  <2>1. Append(parts, <<>>) \in X
    <3>1. Append(parts, <<>>) \in Seq(Seq(E)) /\ Len(Append(parts, <<>>)) = Len(parts) + 1 /\ Len(parts) \in Nat
      OBVIOUS
    <3> DEFINE more == Append(parts, <<>>)
    <3>2. more \in Seq(Seq(E)) /\ Len(more) # 0
      BY <3>1
    <3> HIDE DEF more
    <3>3. more \in X
      BY <3>2
    <3> QED BY <3>3 DEF more
  <2>2. [parts EXCEPT ![Len(parts)] = Append(@, pattern[i])] \in X
    <3>1. Len(parts) \in Nat \ {0} /\ DOMAIN parts = 1 .. Len(parts) /\ parts \in [1 .. Len(parts) -> Seq(E)]
      OBVIOUS
    <3>2. Append(parts[Len(parts)], pattern[i]) \in Seq(E)
      BY <1>2, <3>1
    <3> DEFINE more == [parts EXCEPT ![Len(parts)] = Append(@, pattern[i])]
    <3>3. more \in [1 .. Len(parts) -> Seq(E)]
      BY <3>1, <3>2
    <3> HIDE DEF more
    <3> DEFINE k == Len(parts)
    <3>4. k \in Nat \ {0} /\ more \in [1 .. k -> Seq(E)]
      BY <3>1, <3>3
    <3> HIDE DEF k
    <3>6. more \in Seq(Seq(E)) /\ more # <<>>
      <4>1. \A S : [1 .. k -> S] \subseteq Seq(S)
        BY <3>4
      <4>2. \A S : \A q \in [1 .. k -> S] : Len(q) = k
        BY <3>4
      <4>3. Len(more) # 0
        BY <3>4, <4>2
      <4> QED BY <3>4, <4>1, <4>3
    <3>5. more \in X
      BY <3>6
    <3> QED BY <3>5 DEF more
  <2> QED BY <2>1, <2>2
<1>4. <<<<>>>> \in X
  OBVIOUS
<1> HIDE DEF Collected, X
<1>5. PICK h : Computes(n, X, <<<<>>>>, G, h)
  <2>1. G \in [X \X (1 .. n) -> X]
    BY <1>3
  <2> HIDE DEF n, G
  <2> QED BY <1>2, <1>4, <2>1, Recursion
<1>6. h \in [0 .. n -> X] /\ h[0] = <<<<>>>> /\ \A i \in 1 .. n : h[i] = Collected(h[i - 1], i)
  <2>1. h \in [0 .. n -> X] /\ h[0] = <<<<>>>> /\ \A i \in 1 .. n : h[i] = G[<<h[i - 1], i>>]
    BY <1>5 DEF Computes
  <2>2. \A i \in 1 .. n : i - 1 \in 0 .. n
    BY <1>2
  <2>3. \A i \in 1 .. n : <<h[i - 1], i>> \in X \X (1 .. n)
    BY <2>1, <2>2
  <2> QED BY <2>1, <2>3
<1>7. Grows(h)
  <2>1. \A i \in 0 .. n : h[i] = IF i = 0 THEN <<<<>>>> ELSE Collected(h[i - 1], i)
    <3>1. \A i \in 0 .. n : i # 0 => i \in 1 .. n
      BY <1>2
    <3> HIDE DEF n
    <3> QED BY <1>6, <3>1
  <2> QED BY <1>6, <2>1
<1>8. Grows(f)
  <2> HIDE DEF Grows
  <2> QED BY <1>7
<1> HIDE DEF f
<1> DEFINE T == {i \in 0 .. n : f[i] \in X}
<1>9. n \in T
  <2>1. 0 \in T
    BY <1>2, <1>4, <1>8
  <2>2. ASSUME NEW i \in 0 + 1 .. n, i - 1 \in T PROVE i \in T
    <3>1. i \in 1 .. n /\ i \in 0 .. n /\ f[i] = Collected(f[i - 1], i)
      <4>1. i \in 1 .. n /\ i \in 0 .. n /\ i # 0
        BY <1>2
      <4> HIDE DEF n
      <4> QED BY <1>8, <4>1
    <3> QED BY <1>3, <2>2, <3>1
  <2> HIDE DEF T
  <2>3. n \in 0 .. n
    BY <1>2
  <2> HIDE DEF n
  <2> QED BY <1>2, <2>1, <2>2, <2>3, Upward
<1> QED BY <1>1, <1>9 DEF X

LEMMA ExpandedTyped ==
  ASSUME NEW E, NEW pattern \in Seq(E)
  PROVE  \A i \in DOMAIN Expanded(pattern) : Expanded(pattern)[i] \in Seq(E)
<1> DEFINE opens == Places(pattern, "open")
           closes == Places(pattern, "close")
           open == CHOOSE i \in opens : TRUE
           close == CHOOSE i \in closes : TRUE
           inside == SubSeq(pattern, open + 1, close - 1)
           alternatives == Parts(inside, "comma")
           All == [ i \in DOMAIN alternatives |->
                      SubSeq(pattern, 1, open - 1) \o alternatives[i] \o SubSeq(pattern, close + 1, Len(pattern)) ]
<1>1. \/ Expanded(pattern) = <<pattern>>
      \/ opens \cup closes # {} /\ Cardinality(opens) = 1 /\ Cardinality(closes) = 1 /\ Expanded(pattern) = All
      \/ Expanded(pattern) = <<>>
  <2> HIDE DEF All
  <2>1. Expanded(pattern) = IF opens \cup closes = {} THEN <<pattern>>
          ELSE IF /\ Cardinality(opens) = 1 /\ Cardinality(closes) = 1 /\ open < close
                  /\ Plain(inside)
                  /\ Len(alternatives) \in 2 .. MaxAlternatives
                  /\ \A i \in DOMAIN alternatives : alternatives[i] # <<>>
               THEN All
               ELSE <<>>
    BY DEF Expanded, All
  <2> HIDE DEF opens, closes, open, close, inside, alternatives
  <2> QED BY <2>1
<1>2. CASE Expanded(pattern) = <<pattern>>
  BY <1>2
<1>3. CASE Expanded(pattern) = <<>>
  BY <1>3
<1>4. CASE opens \cup closes # {} /\ Cardinality(opens) = 1 /\ Cardinality(closes) = 1 /\ Expanded(pattern) = All
  <2>1. open \in 1 .. Len(pattern) /\ close \in 1 .. Len(pattern)
    <3>1. \A set : Cardinality(set) = 1 => set # {}
      BY FS_EmptySet
    <3>2. opens # {} /\ closes # {}
      <4>1. Cardinality(opens) = 1 /\ Cardinality(closes) = 1
        BY <1>4
      <4> HIDE DEF opens, closes
      <4> QED BY <3>1, <4>1
    <3> QED BY <3>2 DEF Places
  <2> HIDE DEF open, close
  <2>2. inside \in Seq(E)
    BY <2>1
  <2> HIDE DEF inside
  <2>3. alternatives \in Seq(Seq(E))
    BY <2>2, PartsTyped
  <2> HIDE DEF alternatives
  <2>4. \A i \in DOMAIN alternatives :
          SubSeq(pattern, 1, open - 1) \o alternatives[i] \o SubSeq(pattern, close + 1, Len(pattern)) \in Seq(E)
    <3> TAKE i \in DOMAIN alternatives
    <3>1. alternatives[i] \in Seq(E)
      BY <2>3
    <3>2. SubSeq(pattern, 1, open - 1) \in Seq(E) /\ SubSeq(pattern, close + 1, Len(pattern)) \in Seq(E)
      BY <2>1
    <3> HIDE DEF All
    <3> DEFINE a == alternatives[i]
               l == SubSeq(pattern, 1, open - 1)
               r == SubSeq(pattern, close + 1, Len(pattern))
    <3> HIDE DEF a, l, r
    <3>3. l \o a \o r \in Seq(E)
      BY <3>1, <3>2 DEF a, l, r
    <3> QED BY <3>3 DEF a, l, r
  <2> QED BY <1>4, <2>4
<1> QED BY <1>1, <1>2, <1>3, <1>4

(* Both say of every character whether an element stands for it.           *)
LEMMA SegmentRight ==
  ASSUME NEW E, NEW part \in Seq(E), NEW segment \in Seq(DOMAIN Orbit), NEW ignoreCase \in BOOLEAN,
         \A c \in DOMAIN Orbit : c \in Orbit[c]
  PROVE  SegmentFits(part, segment, ignoreCase) = MeansSegment(part, segment, ignoreCase)
<1> DEFINE Suits(i, j) == AtomFits(Atoms(part)[i], segment[j], ignoreCase)
           Stands(i, j) == LET atom == Atoms(part)[i]
                           IN  (\E c \in atom.of : c = segment[j] \/ (ignoreCase /\ c \in Orbit[segment[j]]))
                                 <=> ~ atom.negated
           fits == [ i \in DOMAIN part |-> [ j \in DOMAIN segment |-> Suits(i, j) ] ]
           stands == [ i \in DOMAIN part |-> [ j \in DOMAIN segment |-> Stands(i, j) ] ]
<1>1. ASSUME NEW i \in DOMAIN part, NEW j \in DOMAIN segment
      PROVE  Suits(i, j) = Stands(i, j)
  <2> DEFINE atom == Atoms(part)[i]
             like == IF ignoreCase THEN Orbit[segment[j]] ELSE {segment[j]}
  <2>1. Suits(i, j) = IF atom.negated THEN like \cap atom.of = {} ELSE like \cap atom.of # {}
    BY DEF AtomFits
  <2>2. segment[j] \in Orbit[segment[j]]
    OBVIOUS
  <2> HIDE DEF atom, Suits
  <2>3. like \cap atom.of # {} <=> \E c \in atom.of : c = segment[j] \/ (ignoreCase /\ c \in Orbit[segment[j]])
    <3>1. CASE ignoreCase
      BY <2>2, <3>1
    <3>2. CASE ~ ignoreCase
      BY <3>2
    <3> QED BY <3>1, <3>2
  <2> DEFINE stand == \E c \in atom.of : c = segment[j] \/ (ignoreCase /\ c \in Orbit[segment[j]])
  <2>4. Stands(i, j) = (stand <=> ~ atom.negated)
    BY DEF atom
  <2> HIDE DEF like, stand, Stands
  <2>5. CASE atom.negated
    BY <2>1, <2>3, <2>4, <2>5 DEF stand
  <2>6. CASE ~ atom.negated
    BY <2>1, <2>3, <2>4, <2>6 DEF stand
  <2> QED BY <2>5, <2>6
<1>2. fits = stands
  <2> HIDE DEF Suits, Stands
  <2> QED BY <1>1
<1>3. Len(part) \in Nat /\ Len(segment) \in Nat /\ Places(part, "many") \in SUBSET (1 .. Len(part))
  BY DEF Places
<1>4. SegmentFits(part, segment, ignoreCase) = Greedy(Len(part), Len(segment), Places(part, "many"), fits)
  BY DEF SegmentFits
<1>5. MeansSegment(part, segment, ignoreCase) = Divides(Len(part), Len(segment), Places(part, "many"), stands)
  BY DEF MeansSegment
<1> HIDE DEF fits, stands
<1> QED BY <1>2, <1>3, <1>4, <1>5, GreedyDivides

LEMMA PatternMeant ==
  ASSUME NEW E, NEW pattern \in Seq(E), NEW paths, \A c \in DOMAIN Orbit : c \in Orbit[c],
         \A path \in paths : path \in Seq(Seq(DOMAIN Orbit)) \ {<<>>}
  PROVE  PatternRight(pattern, paths)
<1> SUFFICES ASSUME NEW path \in paths, NEW ignoreCase \in BOOLEAN
             PROVE  GlobMatches(pattern, path, ignoreCase) <=> Means(pattern, path, ignoreCase)
  BY DEF PatternRight
<1> DEFINE variants == Expanded(pattern)
           target == Target(pattern, path)
           Divided(variant) == Parts(variant, "slash")
           fits(variant) == [ i \in DOMAIN Divided(variant) |-> [ j \in DOMAIN target |->
                                SegmentFits(Divided(variant)[i], target[j], ignoreCase) ] ]
           means(variant) == [ i \in DOMAIN Divided(variant) |-> [ j \in DOMAIN target |->
                                MeansSegment(Divided(variant)[i], target[j], ignoreCase) ] ]
           Found(variant) == Greedy(Len(Divided(variant)), Len(target), Globstars(Divided(variant)), fits(variant))
           Meant(variant) == Divides(Len(Divided(variant)), Len(target), Globstars(Divided(variant)), means(variant))
<1>1. target \in Seq(Seq(DOMAIN Orbit))
  <2>1. path \in Seq(Seq(DOMAIN Orbit)) /\ path # <<>>
    OBVIOUS
  <2>2. Last(path) \in Seq(DOMAIN Orbit)
    <3>1. Len(path) \in DOMAIN path
      BY <2>1
    <3> QED BY <2>1, <3>1 DEF Last
  <2>3. target = IF Places(pattern, "slash") # {} THEN path ELSE <<Last(path)>>
    BY DEF Target
  <2> DEFINE last == Last(path)
  <2>4. <<last>> \in Seq(Seq(DOMAIN Orbit))
    <3> HIDE DEF last
    <3>1. last \in Seq(DOMAIN Orbit)
      BY <2>2 DEF last
    <3> QED BY <3>1
  <2> HIDE DEF target, last
  <2> QED BY <2>1, <2>3, <2>4 DEF last
<1>2. ASSUME NEW n \in DOMAIN variants PROVE Found(variants[n]) = Meant(variants[n])
  <2> DEFINE variant == variants[n]
             parts == Divided(variant)
  <2>1. variant \in Seq(E)
    BY ExpandedTyped
  <2> HIDE DEF variant
  <2>2. parts \in Seq(Seq(E))
    BY <2>1, PartsTyped
  <2> HIDE DEF parts, target
  <2>3. \A i \in DOMAIN parts, j \in DOMAIN target :
          SegmentFits(parts[i], target[j], ignoreCase) = MeansSegment(parts[i], target[j], ignoreCase)
    <3> TAKE i \in DOMAIN parts, j \in DOMAIN target
    <3>1. parts[i] \in Seq(E) /\ target[j] \in Seq(DOMAIN Orbit)
      BY <1>1, <2>2
    <3> QED BY <3>1, SegmentRight
  <2> DEFINE left == [ i \in DOMAIN parts |-> [ j \in DOMAIN target |->
                          SegmentFits(parts[i], target[j], ignoreCase) ] ]
             right == [ i \in DOMAIN parts |-> [ j \in DOMAIN target |->
                          MeansSegment(parts[i], target[j], ignoreCase) ] ]
  <2>4. left = right
    BY <2>3
  <2>5. fits(variant) = left /\ means(variant) = right
    BY DEF parts
  <2>6. Len(parts) \in Nat /\ Len(target) \in Nat /\ Globstars(parts) \in SUBSET (1 .. Len(parts))
    BY <1>1, <2>2 DEF Globstars
  <2>7. /\ Found(variant) = Greedy(Len(parts), Len(target), Globstars(parts), left)
        /\ Meant(variant) = Divides(Len(parts), Len(target), Globstars(parts), right)
    BY <2>5 DEF parts
  <2> HIDE DEF left, right, Found, Meant
  <2>8. Found(variant) = Meant(variant)
    BY <2>4, <2>6, <2>7, GreedyDivides
  <2> QED BY <2>8 DEF variant
<1>3. GlobMatches(pattern, path, ignoreCase) <=> \E n \in DOMAIN variants : Found(variants[n])
  BY DEF GlobMatches
<1>4. Means(pattern, path, ignoreCase) <=> \E n \in DOMAIN variants : Meant(variants[n])
  <2>1. Means(pattern, path, ignoreCase) <=> \E variant \in ToSet(variants) : Meant(variant)
    BY DEF Means
  <2>2. ToSet(variants) = { variants[n] : n \in DOMAIN variants }
    BY DEF ToSet
  <2> HIDE DEF variants, Meant
  <2> QED BY <2>1, <2>2
<1> HIDE DEF variants, Found, Meant
<1> QED BY <1>2, <1>3, <1>4

-------------------------------------------------------------------------------
(* The search of a file                                                    *)

KindOfLine(lines, n) == IF lines[n] THEN "match" ELSE "context"

FoundRow == [kind : {"match", "context"}, line : Nat]

Sinks == [previous : Seq(Nat), afterUntil : Nat, lastEmitted : Nat, rows : Seq(FoundRow), exceeded : BOOLEAN]

(* A sink that has kept one row for each line of a set.                    *)
Holds(sink, lines, shown, room) ==
  /\ sink \in Sinks /\ ~ sink.exceeded
  /\ shown \subseteq 1 .. sink.lastEmitted /\ sink.lastEmitted \in shown \cup {0}
  /\ Shows(sink.rows, lines, shown)
  /\ Len(sink.rows) = Cardinality(shown) /\ Cardinality(shown) <= room

(* The same, or it has given up because some lines would not have fitted.  *)
HoldsOr(sink, lines, shown, wanted, room) ==
  IF sink.exceeded THEN sink \in Sinks /\ Cardinality(wanted) > room
  ELSE Holds(sink, lines, shown, room)

LEMMA AppendedSame ==
  ASSUME NEW sink \in Sinks, NEW n \in Nat, NEW kind \in {"match", "context"}, NEW room \in Nat
  PROVE  LET more == Appended(sink, kind, n, room)
         IN  /\ more \in Sinks /\ more.previous = sink.previous /\ more.afterUntil = sink.afterUntil
             /\ more.exceeded <=> (sink.exceeded \/ Len(sink.rows) >= room)
             /\ ~ more.exceeded => more.rows = Append(sink.rows, TextRow(kind, n)) /\ more.lastEmitted = n
<1>1. TextRow(kind, n) \in FoundRow
  BY DEF TextRow, FoundRow
<1>2. Append(sink.rows, TextRow(kind, n)) \in Seq(FoundRow)
  BY <1>1 DEF Sinks
<1> QED BY <1>2 DEF Appended, Sinks

LEMMA AppendedRight ==
  ASSUME NEW lines, NEW shown, NEW room \in Nat, NEW sink, Holds(sink, lines, shown, room),
         NEW wanted, IsFiniteSet(wanted), shown \subseteq wanted,
         NEW n \in wanted, n \in Nat, n > sink.lastEmitted
  PROVE  HoldsOr(Appended(sink, KindOfLine(lines, n), n, room), lines, shown \cup {n}, wanted, room)
<1> DEFINE kind == KindOfLine(lines, n)
           more == Appended(sink, kind, n, room)
           rows == sink.rows
           k == Len(rows)
<1>1. /\ sink \in Sinks /\ ~ sink.exceeded /\ kind \in {"match", "context"} /\ rows \in Seq(FoundRow)
      /\ sink.lastEmitted \in Nat /\ k \in Nat /\ k = Cardinality(shown) /\ k <= room
      /\ shown \subseteq 1 .. sink.lastEmitted /\ sink.lastEmitted \in shown \cup {0}
  BY DEF Holds, Sinks, KindOfLine
<1>2. /\ more \in Sinks
      /\ more.exceeded <=> k >= room
      /\ ~ more.exceeded => more.rows = Append(rows, TextRow(kind, n)) /\ more.lastEmitted = n
  <2> HIDE DEF kind
  <2>1. LET that == Appended(sink, kind, n, room)
        IN  /\ that \in Sinks /\ that.previous = sink.previous /\ that.afterUntil = sink.afterUntil
            /\ that.exceeded <=> (sink.exceeded \/ Len(sink.rows) >= room)
            /\ ~ that.exceeded => that.rows = Append(sink.rows, TextRow(kind, n)) /\ that.lastEmitted = n
    <3>1. sink \in Sinks /\ kind \in {"match", "context"}
      BY <1>1
    <3> HIDE DEF more, k
    <3> QED BY ONLY <3>1, AppendedSame, room \in Nat, n \in Nat
  <2> QED BY <1>1, <2>1
<1>3. IsFiniteSet(shown) /\ n \notin shown
  <2>1. IsFiniteSet(shown)
    BY FS_Subset
  <2>2. n \notin 1 .. sink.lastEmitted
    BY <1>1
  <2> QED BY <1>1, <2>1, <2>2
<1>4. /\ Cardinality(shown \cup {n}) = k + 1
      /\ Cardinality(shown \cup {n}) <= Cardinality(wanted) /\ Cardinality(wanted) \in Nat
  <2>1. Cardinality(shown \cup {n}) = Cardinality(shown) + 1
    BY <1>3, FS_AddElement
  <2>2. shown \cup {n} \subseteq wanted
    OBVIOUS
  <2>3. Cardinality(shown \cup {n}) <= Cardinality(wanted)
    BY <2>2, FS_Subset
  <2>4. Cardinality(wanted) \in Nat
    BY FS_CardinalityType
  <2> QED BY <1>1, <2>1, <2>3, <2>4
<1>5. CASE k >= room
  <2>1. Cardinality(wanted) > room
    BY <1>1, <1>4, <1>5
  <2> QED BY <1>2, <1>5, <2>1 DEF HoldsOr
<1>6. CASE k < room
  <2> DEFINE longer == Append(rows, TextRow(kind, n))
  <2>1. ~ more.exceeded /\ more.rows = longer /\ more.lastEmitted = n
    BY <1>1, <1>2, <1>6
  <2>2. /\ longer \in Seq(FoundRow) /\ Len(longer) = k + 1 /\ DOMAIN longer = 1 .. k + 1 /\ DOMAIN rows = 1 .. k
        /\ \A i \in 1 .. k : longer[i] = rows[i]
        /\ longer[k + 1] = TextRow(kind, n)
    <3>1. TextRow(kind, n) \in FoundRow
      BY <1>1 DEF TextRow, FoundRow
    <3> HIDE DEF kind
    <3> QED BY <1>1, <3>1
  <2>3. longer[k + 1].line = n /\ longer[k + 1].kind = kind
    BY <2>2 DEF TextRow
  <2>4. /\ { rows[i].line : i \in DOMAIN rows } = shown
        /\ \A i, j \in DOMAIN rows : i < j => rows[i].line < rows[j].line
        /\ \A i \in DOMAIN rows : rows[i].kind = IF lines[rows[i].line] THEN "match" ELSE "context"
    BY DEF Holds, Shows
  <2> HIDE DEF longer, k
  <2>5. { longer[i].line : i \in DOMAIN longer } = shown \cup {n}
    <3>1. ASSUME NEW i \in DOMAIN longer PROVE longer[i].line \in shown \cup {n}
      <4>1. i \in 1 .. k \/ i = k + 1
        BY <1>1, <2>2
      <4> QED BY <2>2, <2>3, <2>4, <4>1
    <3>2. ASSUME NEW m \in shown \cup {n} PROVE \E i \in DOMAIN longer : longer[i].line = m
      <4>1. CASE m = n
        <5>1. k + 1 \in DOMAIN longer
          BY <1>1, <2>2
        <5> QED BY <2>3, <4>1, <5>1
      <4>2. CASE m \in shown
        <5>1. PICK i \in DOMAIN rows : rows[i].line = m
          BY <2>4, <4>2
        <5>2. i \in 1 .. k + 1 /\ i \in 1 .. k
          BY <1>1, <2>2
        <5> QED BY <2>2, <5>1, <5>2
      <4> QED BY <4>1, <4>2
    <3> QED BY <3>1, <3>2
  <2>6. \A i, j \in DOMAIN longer : i < j => longer[i].line < longer[j].line
    <3> SUFFICES ASSUME NEW i \in DOMAIN longer, NEW j \in DOMAIN longer, i < j
                 PROVE  longer[i].line < longer[j].line
      OBVIOUS
    <3>1. i \in 1 .. k /\ (j \in 1 .. k \/ j = k + 1)
      BY <1>1, <2>2
    <3>2. longer[i].line = rows[i].line /\ rows[i].line \in shown
      BY <2>2, <2>4, <3>1
    <3>3. CASE j \in 1 .. k
      BY <2>2, <2>4, <3>1, <3>3
    <3>4. CASE j = k + 1
      <4>1. rows[i].line < n
        <5>1. rows[i].line \in 1 .. sink.lastEmitted
          BY <1>1, <3>2
        <5> QED BY <1>1, <5>1
      <4> QED BY <2>3, <3>2, <3>4, <4>1
    <3> QED BY <3>1, <3>3, <3>4
  <2>7. \A i \in DOMAIN longer : longer[i].kind = IF lines[longer[i].line] THEN "match" ELSE "context"
    <3> TAKE i \in DOMAIN longer
    <3>1. i \in 1 .. k \/ i = k + 1
      BY <1>1, <2>2
    <3>2. CASE i \in 1 .. k
      BY <2>2, <2>4, <3>2
    <3>3. CASE i = k + 1
      BY <2>3, <3>3 DEF KindOfLine
    <3> QED BY <3>1, <3>2, <3>3
  <2>8. Shows(more.rows, lines, shown \cup {n})
    BY <2>1, <2>5, <2>6, <2>7 DEF Shows
  <2>9. shown \cup {n} \subseteq 1 .. n
    BY <1>1
  <2>10. Len(more.rows) = Cardinality(shown \cup {n}) /\ Cardinality(shown \cup {n}) <= room
    BY <1>1, <1>4, <1>6, <2>1, <2>2
  <2>11. Holds(more, lines, shown \cup {n}, room)
    <3> HIDE DEF more
    <3> QED BY <1>2, <2>1, <2>8, <2>9, <2>10 DEF Holds
  <2> QED BY <2>1, <2>11 DEF HoldsOr
<1> QED BY <1>1, <1>5, <1>6

(* What one more row makes of a sink that holds the lines of a set.         *)
Gains(sink, lines, shown, wanted, room, n) ==
  LET more == Appended(sink, KindOfLine(lines, n), n, room)
  IN  /\ HoldsOr(more, lines, shown \cup {n}, wanted, room)
      /\ more \in Sinks /\ more.previous = sink.previous /\ more.afterUntil = sink.afterUntil

(* A sink that has given up stays so, and keeps its lines.                 *)
LEMMA AppendedOver ==
  ASSUME NEW lines, NEW shown, NEW room \in Nat, NEW sink \in Sinks,
         NEW wanted, IsFiniteSet(wanted), shown \subseteq wanted, HoldsOr(sink, lines, shown, wanted, room),
         NEW n \in Nat, n \in wanted, (~ sink.exceeded) => n > sink.lastEmitted
  PROVE  Gains(sink, lines, shown, wanted, room, n)
<1> DEFINE kind == KindOfLine(lines, n)
           more == Appended(sink, kind, n, room)
<1>1. kind \in {"match", "context"}
  BY DEF KindOfLine
<1>2. /\ more \in Sinks /\ more.previous = sink.previous /\ more.afterUntil = sink.afterUntil
      /\ sink.exceeded => more.exceeded
  <2> HIDE DEF kind
  <2>1. LET that == Appended(sink, kind, n, room)
        IN  /\ that \in Sinks /\ that.previous = sink.previous /\ that.afterUntil = sink.afterUntil
            /\ that.exceeded <=> (sink.exceeded \/ Len(sink.rows) >= room)
            /\ ~ that.exceeded => that.rows = Append(sink.rows, TextRow(kind, n)) /\ that.lastEmitted = n
    <3> HIDE DEF more
    <3> QED BY ONLY <1>1, AppendedSame, room \in Nat, n \in Nat, sink \in Sinks
  <2> QED BY <2>1
<1>3. CASE sink.exceeded
  <2>1. Cardinality(wanted) > room
    BY <1>3 DEF HoldsOr
  <2> HIDE DEF more
  <2>2. HoldsOr(more, lines, shown \cup {n}, wanted, room)
    BY <1>2, <1>3, <2>1 DEF HoldsOr
  <2> QED BY <1>2, <2>2 DEF more, Gains
<1>4. CASE ~ sink.exceeded
  <2>1. Holds(sink, lines, shown, room) /\ n > sink.lastEmitted
    BY <1>4 DEF HoldsOr
  <2>2. HoldsOr(more, lines, shown \cup {n}, wanted, room)
    BY <2>1, AppendedRight
  <2> HIDE DEF more
  <2> QED BY <1>2, <2>2 DEF more, Gains
<1> QED BY <1>3, <1>4

-------------------------------------------------------------------------------
(* The lines before a match                                                *)

(* Lines from one to another.                                              *)
Run(from, to) == [i \in 1 .. to - from + 1 |-> from - 1 + i]

LEMMA RunFacts ==
  ASSUME NEW from \in Nat \ {0}, NEW to \in Nat, from <= to + 1
  PROVE  /\ Run(from, to) \in Seq(Nat) /\ Len(Run(from, to)) = to - from + 1
         /\ DOMAIN Run(from, to) = 1 .. to - from + 1
         /\ \A i \in 1 .. to - from + 1 : Run(from, to)[i] = from - 1 + i
         /\ Append(Run(from, to), to + 1) = Run(from, to + 1)
         /\ from = to + 1 => Run(from, to) = <<>>
<1> DEFINE n == to - from + 1
           run == Run(from, to)
<1>1. n \in Nat /\ \A i \in 1 .. n : from - 1 + i \in Nat
  OBVIOUS
<1>2. run \in [1 .. n -> Nat] /\ \A i \in 1 .. n : run[i] = from - 1 + i
  BY <1>1 DEF Run
<1>3. run \in Seq(Nat) /\ Len(run) = n
  <2> HIDE DEF run, n
  <2>1. run \in Seq(Nat)
    BY <1>1, <1>2
  <2>2. DOMAIN run = 1 .. n /\ Len(run) \in Nat /\ DOMAIN run = 1 .. Len(run)
    BY <1>2, <2>1
  <2> QED BY <1>1, <2>1, <2>2
<1>4. Append(run, to + 1) = Run(from, to + 1)
  <2> DEFINE more == Append(run, to + 1)
             next == Run(from, to + 1)
  <2>1. next = [i \in 1 .. n + 1 |-> from - 1 + i]
    <3>1. (to + 1) - from + 1 = n + 1
      OBVIOUS
    <3> HIDE DEF n
    <3> QED BY <3>1 DEF Run
  <2>2. /\ more \in Seq(Nat) /\ Len(more) = n + 1 /\ \A i \in 1 .. n : more[i] = run[i]
        /\ more[n + 1] = to + 1
    <3> HIDE DEF run, n
    <3> QED BY <1>1, <1>3
  <2>3. \A i \in 1 .. n + 1 : more[i] = from - 1 + i
    <3> TAKE i \in 1 .. n + 1
    <3>1. i \in 1 .. n \/ i = n + 1
      BY <1>1
    <3>2. from - 1 + (n + 1) = to + 1
      OBVIOUS
    <3> HIDE DEF n, run, more
    <3> QED BY <1>2, <2>2, <3>1, <3>2
  <2>4. more = [i \in 1 .. n + 1 |-> more[i]]
    <3>1. DOMAIN more = 1 .. n + 1
      <4> HIDE DEF more, n
      <4> QED BY <1>1, <2>2
    <3>2. more \in [DOMAIN more -> Nat]
      <4> HIDE DEF more
      <4> QED BY <2>2
    <3> HIDE DEF more, n
    <3> QED BY <3>1, <3>2
  <2> HIDE DEF more, next, n
  <2> QED BY <2>1, <2>3, <2>4 DEF more, next
<1>5. ASSUME from = to + 1 PROVE run = <<>>
  <2>1. n = 0
    BY <1>5
  <2> HIDE DEF run, n
  <2> QED BY <1>3, <2>1
<1> HIDE DEF n, run
<1> QED BY <1>2, <1>3, <1>4, <1>5 DEF n, run

LEMMA PrunedRight ==
  ASSUME NEW from \in Nat \ {0}, NEW n \in Nat \ {0}, from <= n, NEW context \in Nat \ {0}, from <= Lower(n, context)
  PROVE  Pruned(Run(from, n - 1), n, context) = Run(Lower(n, context), n - 1)
<1> DEFINE low == Lower(n, context)
           run == Run(from, n - 1)
           k == n - from
           near == { i \in DOMAIN run : run[i] >= low }
           first == low - from + 1
<1>1. low \in Nat \ {0} /\ low <= n /\ first \in Nat \ {0} /\ k \in Nat /\ n - 1 \in Nat
  BY DEF Lower
<1>2. /\ run \in Seq(Nat) /\ Len(run) = k /\ DOMAIN run = 1 .. k
      /\ \A i \in 1 .. k : run[i] = from - 1 + i
  <2>1. (n - 1) - from + 1 = k /\ n - 1 \in Nat /\ from <= (n - 1) + 1
    OBVIOUS
  <2>2. /\ Run(from, n - 1) \in Seq(Nat) /\ Len(Run(from, n - 1)) = (n - 1) - from + 1
        /\ DOMAIN Run(from, n - 1) = 1 .. (n - 1) - from + 1
        /\ \A i \in 1 .. (n - 1) - from + 1 : Run(from, n - 1)[i] = from - 1 + i
    <3> HIDE DEF k
    <3> QED BY <2>1, RunFacts
  <2> HIDE DEF k
  <2> QED BY <2>1, <2>2
<1>3. Pruned(run, n, context) = IF near = {} THEN <<>> ELSE SubSeq(run, Min(near), k)
  BY <1>2 DEF Pruned
<1>4. near = first .. k
  <2> HIDE DEF run, low, k
  <2>1. \A i \in 1 .. k : i \in near <=> i >= first
    BY <1>1, <1>2
  <2>2. near \subseteq 1 .. k
    BY <1>2
  <2>3. first .. k \subseteq 1 .. k
    BY <1>1
  <2> HIDE DEF near, first
  <2>4. \A i : i \in near => i \in first .. k
    BY <1>1, <2>1, <2>2
  <2>5. \A i : i \in first .. k => i \in near
    BY <1>1, <2>1, <2>3
  <2> QED BY <2>4, <2>5
<1>5. CASE low = n
  <2>1. near = {}
    <3>1. k < first
      BY <1>5
    <3> HIDE DEF near, first, k
    <3> QED BY <1>1, <1>4, <3>1
  <2>2. Run(low, n - 1) = <<>>
    <3> HIDE DEF low
    <3>1. n - 1 \in Nat /\ low <= (n - 1) + 1 /\ low = (n - 1) + 1
      BY <1>1, <1>5
    <3> QED BY <1>1, <3>1, RunFacts
  <2> HIDE DEF near
  <2> QED BY <1>3, <2>1, <2>2
<1>6. CASE low # n
  <2>1. first \in 1 .. k
    <3> HIDE DEF low
    <3> QED BY <1>1, <1>6
  <2>2. Min(near) = first /\ near # {}
    <3> HIDE DEF near, first, k
    <3>3. \A i \in first .. k : i \in Nat /\ i >= first
      BY <1>1
    <3>4. first \in first .. k
      BY <1>1, <2>1
    <3>1. near \in SUBSET Nat /\ near # {} /\ first \in near /\ \A i \in near : i >= first
      BY <1>4, <3>3, <3>4
    <3>2. Min(near) \in near /\ \A y \in near : Min(near) <= y
      BY <3>1, LeastNumber
    <3>5. Min(near) \in Nat /\ Min(near) <= first /\ Min(near) >= first
      BY <3>1, <3>2
    <3> QED BY <1>1, <3>1, <3>5
  <2>3. Pruned(run, n, context) = SubSeq(run, first, k)
    <3> HIDE DEF near, first, k, run
    <3> QED BY <1>3, <2>2
  <2> DEFINE part == SubSeq(run, first, k)
             rest == Run(low, n - 1)
             l == n - low
  <2>4. /\ part \in Seq(Nat) /\ Len(part) = k - first + 1
        /\ \A i \in 1 .. k - first + 1 : part[i] = run[first + i - 1]
    <3> HIDE DEF run, first, k
    <3> QED BY <1>1, <1>2, <2>1, SubSeqProperties
  <2>5. /\ rest \in Seq(Nat) /\ Len(rest) = l
        /\ \A i \in 1 .. l : rest[i] = low - 1 + i
    <3>1. (n - 1) - low + 1 = l
      BY <1>1
    <3>2. low \in Nat \ {0} /\ n - 1 \in Nat /\ low <= (n - 1) + 1
      BY <1>1
    <3> HIDE DEF low, l
    <3>3. Len(Run(low, n - 1)) = (n - 1) - low + 1
      BY <3>2, RunFacts
    <3>4. \A i \in 1 .. (n - 1) - low + 1 : Run(low, n - 1)[i] = low - 1 + i
      BY <3>2, RunFacts
    <3> QED BY <3>1, <3>2, <3>3, <3>4, RunFacts
  <2>6. k - first + 1 = l
    BY <1>1
  <2>7. \A i \in 1 .. l : part[i] = rest[i]
    <3> TAKE i \in 1 .. l
    <3>1. first + i - 1 \in 1 .. k /\ from - 1 + (first + i - 1) = low - 1 + i
      BY <1>1
    <3>2. part[i] = run[first + i - 1] /\ run[first + i - 1] = from - 1 + (first + i - 1)
      <4> HIDE DEF part, first, k, run, l
      <4> QED BY <1>2, <2>4, <2>6, <3>1
    <3> HIDE DEF part, rest, first, l, run
    <3> QED BY <2>5, <3>1, <3>2
  <2> HIDE DEF part, rest, l, k, first, run
  <2>8. part = rest
    BY <2>4, <2>5, <2>6, <2>7, SeqEqual
  <2> QED BY <2>3, <2>8 DEF part, rest, run
<1> QED BY ONLY <1>5, <1>6

(* What a match makes of the lines kept: those that were not shown yet.    *)
Precedes(sink, lines, shown, wanted, context, room, n) ==
  LET more == Preceding(sink, n, context, room)
  IN  /\ HoldsOr(more, lines, shown \cup { i \in Lower(n, context) .. n - 1 : i > sink.lastEmitted }, wanted, room)
      /\ more \in Sinks /\ more.previous = sink.previous /\ more.afterUntil = sink.afterUntil

LEMMA PrecedingRight ==
  ASSUME NEW lines, NEW shown, NEW room \in Nat, NEW context \in Nat, NEW n \in Nat \ {0},
         NEW sink, Holds(sink, lines, shown, room), shown \subseteq 1 .. n - 1,
         sink.previous = Run(Lower(n, context), n - 1),
         NEW wanted, IsFiniteSet(wanted), shown \subseteq wanted, Lower(n, context) .. n - 1 \subseteq wanted,
         \A i \in Lower(n, context) .. n - 1 : i > sink.lastEmitted => ~ lines[i]
  PROVE  Precedes(sink, lines, shown, wanted, context, room, n)
<1> DEFINE low == Lower(n, context)
           count == n - low
           Emits(above, k) ==
             IF sink.previous[k] >= low /\ sink.previous[k] > above.lastEmitted
               THEN Appended(above, "context", sink.previous[k], room) ELSE above
           Loop(h) == h = [k \in 0 .. count |-> IF k = 0 THEN sink ELSE Emits(h[k - 1], k)]
           f == CHOOSE h : Loop(h)
           last == sink.lastEmitted
           Now(k) == shown \cup { i \in low .. low - 1 + k : i > last }
           Right(above, k) ==
             /\ above \in Sinks /\ HoldsOr(above, lines, Now(k), wanted, room)
             /\ above.previous = sink.previous /\ above.afterUntil = sink.afterUntil
           G == [p \in Sinks \X (1 .. count) |-> Emits(p[1], p[2])]
<1>1. /\ low \in Nat \ {0} /\ low <= n /\ count \in Nat /\ n - 1 \in Nat
      /\ sink \in Sinks /\ ~ sink.exceeded /\ last \in Nat /\ last \in shown \cup {0} /\ shown \subseteq 1 .. last
  BY DEF Lower, Holds, Sinks
<1>2. /\ Len(sink.previous) = count
      /\ \A k \in 1 .. count : sink.previous[k] = low - 1 + k
  <2>1. (n - 1) - low + 1 = count /\ low <= (n - 1) + 1
    BY <1>1
  <2> HIDE DEF count
  <2>2. /\ Len(Run(low, n - 1)) = (n - 1) - low + 1
        /\ \A i \in 1 .. (n - 1) - low + 1 : Run(low, n - 1)[i] = low - 1 + i
    <3> HIDE DEF low
    <3> QED BY <1>1, <2>1, RunFacts
  <2> QED BY <2>1, <2>2
<1>3. Preceding(sink, n, context, room) = f[count]
  <2> HIDE DEF count
  <2> QED BY <1>2 DEF Preceding, Looped
<1>4. \A above \in Sinks, k \in 1 .. count : Emits(above, k) \in Sinks
  <2> TAKE above \in Sinks, k \in 1 .. count
  <2>1. sink.previous[k] = low - 1 + k /\ low - 1 + k \in Nat
    <3>1. sink.previous[k] = low - 1 + k
      BY <1>2
    <3> HIDE DEF low, count
    <3> QED BY <1>1, <3>1
  <2>2. Appended(above, "context", sink.previous[k], room) \in Sinks
    <3> DEFINE p == sink.previous[k]
    <3>1. p \in Nat
      BY <2>1
    <3> HIDE DEF p
    <3>2. LET that == Appended(above, "context", p, room)
          IN  /\ that \in Sinks /\ that.previous = above.previous /\ that.afterUntil = above.afterUntil
              /\ that.exceeded <=> (above.exceeded \/ Len(above.rows) >= room)
              /\ ~ that.exceeded => that.rows = Append(above.rows, TextRow("context", p)) /\ that.lastEmitted = p
      BY <3>1, AppendedSame
    <3> QED BY <3>2 DEF p
  <2> QED BY <2>2
<1> HIDE DEF Emits
<1>5. PICK h : Computes(count, Sinks, sink, G, h)
  <2>1. G \in [Sinks \X (1 .. count) -> Sinks]
    BY <1>4
  <2> HIDE DEF count, G
  <2> QED BY <1>1, <2>1, Recursion
<1>6. Loop(h)
  <2>1. h \in [0 .. count -> Sinks] /\ h[0] = sink /\ \A k \in 1 .. count : h[k] = G[<<h[k - 1], k>>]
    BY <1>5 DEF Computes
  <2>2. \A k \in 1 .. count : k - 1 \in 0 .. count
    BY <1>1
  <2>3. \A k \in 1 .. count : <<h[k - 1], k>> \in Sinks \X (1 .. count)
    BY <2>1, <2>2
  <2>4. \A k \in 0 .. count : k # 0 => k \in 1 .. count
    BY <1>1
  <2>5. \A k \in 0 .. count : h[k] = IF k = 0 THEN sink ELSE Emits(h[k - 1], k)
    <3> HIDE DEF count
    <3> QED BY <2>1, <2>3, <2>4
  <2> HIDE DEF count
  <2> QED BY <2>1, <2>5
<1>7. Loop(f)
  <2> HIDE DEF Loop
  <2> QED BY <1>6
<1> HIDE DEF f, G
<1> DEFINE T == {k \in 0 .. count : Right(f[k], k)}
<1>8. 0 \in T
  <2>1. f[0] = sink /\ 0 \in 0 .. count
    BY <1>1, <1>7
  <2>2. Now(0) = shown
    <3>1. low .. low - 1 + 0 = {}
      BY <1>1
    <3> HIDE DEF low
    <3> QED BY <3>1
  <2>3. HoldsOr(sink, lines, shown, wanted, room)
    BY <1>1 DEF HoldsOr
  <2> HIDE DEF Now
  <2> QED BY <1>1, <2>1, <2>2, <2>3
<1>9. ASSUME NEW k \in 0 + 1 .. count, k - 1 \in T PROVE k \in T
  <2> DEFINE above == f[k - 1]
             line == low - 1 + k
  <2>1. k \in 1 .. count /\ k \in 0 .. count /\ k # 0
    BY <1>1
  <2>2. /\ above \in Sinks /\ HoldsOr(above, lines, Now(k - 1), wanted, room)
        /\ above.previous = sink.previous /\ above.afterUntil = sink.afterUntil
    BY <1>9
  <2>3. f[k] = IF line >= low /\ line > above.lastEmitted
                 THEN Appended(above, "context", line, room) ELSE above
    <3>1. f[k] = Emits(above, k)
      <4> HIDE DEF count
      <4> QED BY <1>7, <2>1
    <3>2. sink.previous[k] = line
      BY <1>2, <2>1
    <3> HIDE DEF line, above
    <3> QED BY <3>1, <3>2 DEF Emits
  <2>4. line \in low .. n - 1 /\ line \in wanted /\ line \in Nat
    BY <1>1, <2>1
  <2>5. Now(k) = IF line > last THEN Now(k - 1) \cup {line} ELSE Now(k - 1)
    <3>1. \A i : i \in low .. low - 1 + k <=> (i \in low .. low - 1 + (k - 1) \/ i = line)
      <4> HIDE DEF low, count
      <4> QED BY <1>1, <2>1
    <3> HIDE DEF low, last, line
    <3> QED BY <3>1
  <2>6. Now(k - 1) \subseteq wanted
    <3>1. \A i \in low .. low - 1 + (k - 1) : i \in low .. n - 1
      BY <1>1, <2>1
    <3>2. low .. n - 1 \subseteq wanted
      OBVIOUS
    <3> HIDE DEF low, last, line
    <3> QED BY <3>1, <3>2
  <2>7. CASE above.exceeded
    <3>1. Cardinality(wanted) > room
      BY <2>2, <2>7 DEF HoldsOr
    <3>2. f[k] \in Sinks /\ f[k].exceeded /\ f[k].previous = sink.previous /\ f[k].afterUntil = sink.afterUntil
      <4> HIDE DEF above, line, low
      <4>1. LET that == Appended(above, "context", line, room)
            IN  /\ that \in Sinks /\ that.previous = above.previous /\ that.afterUntil = above.afterUntil
                /\ that.exceeded <=> (above.exceeded \/ Len(above.rows) >= room)
                /\ ~ that.exceeded => that.rows = Append(above.rows, TextRow("context", line)) /\ that.lastEmitted = line
        BY <2>2, <2>4, AppendedSame
      <4> QED BY <2>2, <2>3, <2>7, <4>1
    <3>3. HoldsOr(f[k], lines, Now(k), wanted, room)
      <4> HIDE DEF Now
      <4> QED BY <3>1, <3>2 DEF HoldsOr
    <3> HIDE DEF Now
    <3> QED BY <2>1, <3>2, <3>3
  <2>8. CASE ~ above.exceeded
    <3>1. Holds(above, lines, Now(k - 1), room)
      <4> HIDE DEF Now
      <4> QED BY <2>2, <2>8 DEF HoldsOr
    <3>2. above.lastEmitted \in Nat /\ Now(k - 1) \subseteq 1 .. above.lastEmitted /\ above.lastEmitted \in Now(k - 1) \cup {0}
      <4> HIDE DEF Now
      <4> QED BY <3>1 DEF Holds, Sinks
    <3>3. CASE line > last
      <4>1. line > above.lastEmitted
        <5>1. \A i \in Now(k - 1) : i < line
          <6>1. \A i \in 1 .. last : i < line
            BY <1>1, <2>4, <3>3
          <6>2. \A i \in low .. low - 1 + (k - 1) : i < line
            BY <1>1, <2>1
          <6> HIDE DEF low, line, last
          <6> QED BY <1>1, <6>1, <6>2
        <5> HIDE DEF Now
        <5>2. 0 < line
          BY <1>1, <2>1
        <5> HIDE DEF line, low
        <5> QED BY <3>2, <5>1, <5>2
      <4>2. f[k] = Appended(above, "context", line, room)
        <5>1. line >= low
          BY <1>1, <2>4
        <5> HIDE DEF above, line, low
        <5> QED BY <2>3, <4>1, <5>1
      <4>3. KindOfLine(lines, line) = "context"
        <5>1. ~ lines[line]
          BY <2>4, <3>3
        <5> QED BY <5>1 DEF KindOfLine
      <4>4. /\ HoldsOr(f[k], lines, Now(k - 1) \cup {line}, wanted, room)
            /\ f[k] \in Sinks /\ f[k].previous = above.previous /\ f[k].afterUntil = above.afterUntil
        <5> DEFINE N == Now(k - 1)
        <5> HIDE DEF N, above, line, low
        <5>1. HoldsOr(above, lines, N, wanted, room) /\ N \subseteq wanted
          BY <2>2, <2>6 DEF N
        <5>2. /\ HoldsOr(Appended(above, KindOfLine(lines, line), line, room), lines, N \cup {line}, wanted, room)
              /\ Appended(above, KindOfLine(lines, line), line, room) \in Sinks
              /\ Appended(above, KindOfLine(lines, line), line, room).previous = above.previous
              /\ Appended(above, KindOfLine(lines, line), line, room).afterUntil = above.afterUntil
          <6>1. above \in Sinks /\ line \in wanted /\ line \in Nat /\ (~ above.exceeded => line > above.lastEmitted)
            BY <2>2, <2>4, <4>1
          <6>2. Gains(above, lines, N, wanted, room, line)
            BY ONLY <5>1, <6>1, AppendedOver, room \in Nat, IsFiniteSet(wanted)
          <6> QED BY ONLY <6>2 DEF Gains
        <5> QED BY <4>2, <4>3, <5>2 DEF N
      <4> HIDE DEF Now, above, line, last
      <4>5. Now(k) = Now(k - 1) \cup {line}
        BY <2>5, <3>3
      <4> QED BY <2>1, <2>2, <4>4, <4>5
    <3>4. CASE ~ (line > last)
      <4>1. last \in Now(k - 1)
        <5>1. last # 0
          BY <1>1, <2>4, <3>4
        <5> HIDE DEF last, low
        <5> QED BY <1>1, <5>1
      <4>2. ~ (line > above.lastEmitted)
        <5>1. last <= above.lastEmitted
          <6> HIDE DEF Now
          <6> QED BY <1>1, <3>2, <4>1
        <5> HIDE DEF Now, line, above, last
        <5> QED BY <1>1, <2>4, <3>2, <3>4, <5>1
      <4>3. f[k] = above
        <5> HIDE DEF above, line, low
        <5> QED BY <2>3, <4>2
      <4> HIDE DEF Now, above, line, last
      <4>4. Now(k) = Now(k - 1)
        BY <2>5, <3>4
      <4> QED BY <2>1, <2>2, <4>3, <4>4
    <3> QED BY <3>3, <3>4
  <2> QED BY <2>7, <2>8
<1>10. count \in T
  <2>1. \A k \in 0 .. count : k \in T
    <3> HIDE DEF T, count
    <3> QED BY <1>1, <1>8, <1>9, Upward
  <2>2. count \in 0 .. count
    BY <1>1
  <2> HIDE DEF T, count
  <2> QED BY <2>1, <2>2
<1>11. low - 1 + count = n - 1
  BY <1>1
<1>12. Right(f[count], count) /\ Now(count) = shown \cup { i \in low .. n - 1 : i > last }
  <2>1. Right(f[count], count)
    BY <1>10
  <2> HIDE DEF Right, low, last, count
  <2> QED BY <1>11, <2>1
<1> HIDE DEF f, count, Now
<1> QED BY <1>3, <1>12 DEF Precedes

-------------------------------------------------------------------------------
(* The lines to show after some of them                                    *)

Hits(lines) == { m \in DOMAIN lines : lines[m] }

(* What the matches among the first k lines want of these lines.           *)
Seen(hits, context, k) ==
  { n \in 1 .. k : \E m \in hits : m <= k /\ m >= n - context /\ m <= n + context }

LEMMA SeenMatch ==
  ASSUME NEW hits \in SUBSET Nat, NEW context \in Nat, NEW n \in Nat \ {0}, n \in hits, 0 \notin hits,
         NEW last \in Nat, last \in Seen(hits, context, n - 1) \cup {0}
  PROVE  Seen(hits, context, n)
           = (Seen(hits, context, n - 1) \cup { i \in Lower(n, context) .. n - 1 : i > last }) \cup {n}
<1> DEFINE low == Lower(n, context)
           shown == Seen(hits, context, n - 1)
<1>1. /\ low \in Nat \ {0} /\ low <= n /\ low >= n - context
      /\ \A i \in Nat \ {0} : n <= i + context => i >= low
  BY DEF Lower
<1>2. ASSUME NEW i \in shown PROVE i \in Seen(hits, context, n)
  BY DEF Seen
<1>3. ASSUME NEW i \in low .. n - 1 PROVE i \in Seen(hits, context, n)
  <2>1. i \in Nat /\ i \in 1 .. n /\ n <= n /\ n >= i - context /\ n <= i + context
    BY <1>1
  <2> QED BY <2>1 DEF Seen
<1>4. n \in Seen(hits, context, n)
  <2>1. n \in 1 .. n /\ n <= n /\ n >= n - context /\ n <= n + context
    OBVIOUS
  <2> QED BY <2>1 DEF Seen
<1>5. ASSUME NEW i \in Seen(hits, context, n), i # n, i \notin shown
      PROVE  i \in low .. n - 1 /\ i > last
  <2>1. i \in 1 .. n - 1 /\ i \in Nat
    BY <1>5 DEF Seen
  <2>2. PICK m \in hits : m <= n /\ m >= i - context /\ m <= i + context
    BY DEF Seen
  <2>3. m \in Nat /\ ~ (m <= n - 1)
    BY <1>5, <2>1, <2>2 DEF Seen
  <2>4. m = n
    BY <2>2, <2>3
  <2>5. i \in low .. n - 1
    <3>1. n <= i + context /\ i \in Nat \ {0}
      BY <2>1, <2>2, <2>4
    <3>2. i >= low
      BY <1>1, <3>1
    <3> HIDE DEF low
    <3> QED BY <1>1, <2>1, <3>2
  <2>6. i > last
    <3> SUFFICES ASSUME i <= last PROVE FALSE
      BY <2>1
    <3>1. last # 0 /\ last \in Seen(hits, context, n - 1)
      BY <2>1
    <3>2. PICK p \in hits : p <= n - 1 /\ p >= last - context /\ p <= last + context
      BY <3>1 DEF Seen
    <3>3. p \in Nat /\ p >= i - context /\ p <= i + context
      BY <2>1, <2>2, <2>4, <3>2
    <3>4. i \in Seen(hits, context, n - 1)
      BY <2>1, <3>2, <3>3 DEF Seen
    <3> QED BY <1>5, <3>4
  <2> QED BY <2>5, <2>6
<1> HIDE DEF low, shown
<1>6. \A i : i \in Seen(hits, context, n) <=> i \in (shown \cup { j \in low .. n - 1 : j > last }) \cup {n}
  BY <1>2, <1>3, <1>4, <1>5
<1>7. Seen(hits, context, n) = (shown \cup { i \in low .. n - 1 : i > last }) \cup {n}
  BY <1>6
<1> QED BY <1>7 DEF shown, low

(* `after` reaches as far as the context of the last match.                *)
Reaches(after, hits, context, k) ==
  /\ after \in Nat /\ \A m \in hits : m <= k => m + context <= after
  /\ after = 0 \/ \E m \in hits : m <= k /\ after = m + context

LEMMA SeenOther ==
  ASSUME NEW hits \in SUBSET Nat, NEW context \in Nat, NEW n \in Nat \ {0}, n \notin hits,
         NEW after, Reaches(after, hits, context, n - 1)
  PROVE  /\ Seen(hits, context, n)
              = IF n <= after THEN Seen(hits, context, n - 1) \cup {n} ELSE Seen(hits, context, n - 1)
         /\ Reaches(after, hits, context, n)
<1> DEFINE shown == Seen(hits, context, n - 1)
<1>1. \A m \in hits : m \in Nat /\ (m <= n <=> m <= n - 1)
  OBVIOUS
<1>2. ASSUME NEW i PROVE i # n => (i \in Seen(hits, context, n) <=> i \in shown)
  <2>1. i \in 1 .. n /\ i # n <=> i \in 1 .. n - 1
    OBVIOUS
  <2> QED BY <1>1, <2>1 DEF Seen
<1>3. n \notin shown
  BY DEF Seen
<1>4. n \in Seen(hits, context, n) <=> n <= after
  <2>1. ASSUME n \in Seen(hits, context, n) PROVE n <= after
    <3>1. PICK m \in hits : m <= n /\ m >= n - context
      BY <2>1 DEF Seen
    <3>2. m + context <= after /\ m \in Nat /\ after \in Nat
      BY <1>1, <3>1 DEF Reaches
    <3> QED BY <3>1, <3>2
  <2>2. ASSUME n <= after PROVE n \in Seen(hits, context, n)
    <3>1. PICK m \in hits : m <= n - 1 /\ after = m + context
      BY <2>2 DEF Reaches
    <3>2. m \in Nat /\ m <= n /\ m >= n - context /\ m <= n + context /\ n \in 1 .. n
      BY <2>2, <3>1
    <3> QED BY <3>1, <3>2 DEF Seen
  <2> QED BY <2>1, <2>2
<1>5. Reaches(after, hits, context, n)
  BY <1>1 DEF Reaches
<1> HIDE DEF shown
<1>6. Seen(hits, context, n) = IF n <= after THEN shown \cup {n} ELSE shown
  <2>1. \A i : i \in Seen(hits, context, n) <=> i \in (IF n <= after THEN shown \cup {n} ELSE shown)
    BY <1>2, <1>3, <1>4
  <2> QED BY <2>1
<1> QED BY <1>5, <1>6 DEF shown

LEMMA LinesSeenFacts ==
  ASSUME NEW lines \in Seq(BOOLEAN), NEW context \in Nat
  PROVE  /\ Hits(lines) \in SUBSET Nat /\ 0 \notin Hits(lines)
         /\ \A n \in DOMAIN lines : n \in Hits(lines) <=> lines[n]
         /\ Wanted(lines, context) = Seen(Hits(lines), context, Len(lines))
         /\ IsFiniteSet(Wanted(lines, context)) /\ Cardinality(Wanted(lines, context)) \in Nat
         /\ \A k \in 0 .. Len(lines) : Seen(Hits(lines), context, k) \subseteq Wanted(lines, context)
         /\ Seen(Hits(lines), context, 0) = {}
<1> DEFINE hits == Hits(lines)
           wanted == Wanted(lines, context)
<1>1. /\ hits \in SUBSET Nat /\ 0 \notin hits /\ DOMAIN lines = 1 .. Len(lines) /\ Len(lines) \in Nat
      /\ \A n \in DOMAIN lines : n \in hits <=> lines[n]
      /\ \A m \in hits : m \in DOMAIN lines
  BY DEF Hits
<1>2. ASSUME NEW n PROVE n \in wanted <=> n \in Seen(hits, context, Len(lines))
  <2>1. ASSUME n \in wanted PROVE n \in Seen(hits, context, Len(lines))
    <3>1. n \in 1 .. Len(lines) /\ n \in Nat
      BY <1>1, <2>1 DEF Wanted
    <3>2. PICK m \in DOMAIN lines : lines[m] /\ m \in n - context .. n + context
      BY <2>1 DEF Wanted
    <3>3. m \in hits /\ m <= Len(lines) /\ m >= n - context /\ m <= n + context
      <4>1. m \in hits /\ m \in 1 .. Len(lines)
        BY <1>1, <3>2
      <4> HIDE DEF hits
      <4> QED BY <1>1, <3>1, <3>2, <4>1
    <3> HIDE DEF hits
    <3> QED BY <3>1, <3>3 DEF Seen
  <2>2. ASSUME n \in Seen(hits, context, Len(lines)) PROVE n \in wanted
    <3> HIDE DEF hits
    <3>1. n \in 1 .. Len(lines) /\ n \in Nat
      BY <1>1, <2>2 DEF Seen
    <3>2. PICK m \in hits : m <= Len(lines) /\ m >= n - context /\ m <= n + context
      BY <2>2 DEF Seen
    <3>3. m \in DOMAIN lines /\ lines[m] /\ m \in Nat
      BY <1>1, <3>2
    <3>4. m \in n - context .. n + context
      BY <3>1, <3>2, <3>3
    <3> QED BY <1>1, <3>1, <3>3, <3>4 DEF Wanted
  <2> QED BY <2>1, <2>2
<1> HIDE DEF hits, wanted
<1>3. wanted = Seen(hits, context, Len(lines))
  BY <1>2
<1>4. IsFiniteSet(wanted) /\ Cardinality(wanted) \in Nat
  <2>1. wanted \subseteq 1 .. Len(lines) /\ IsFiniteSet(1 .. Len(lines))
    <3>1. IsFiniteSet(1 .. Len(lines))
      BY <1>1, FS_Interval
    <3> QED BY <1>3, <3>1 DEF Seen
  <2>2. IsFiniteSet(wanted)
    BY <2>1, FS_Subset
  <2> QED BY <2>2, FS_CardinalityType
<1>5. ASSUME NEW k \in 0 .. Len(lines) PROVE Seen(hits, context, k) \subseteq wanted
  <2> SUFFICES ASSUME NEW n \in Seen(hits, context, k) PROVE n \in Seen(hits, context, Len(lines))
    BY <1>3
  <2>1. n \in 1 .. Len(lines)
    BY <1>1 DEF Seen
  <2>2. PICK m \in hits : m <= k /\ m >= n - context /\ m <= n + context
    BY DEF Seen
  <2>3. m <= Len(lines)
    <3>1. m \in Nat
      BY <1>1
    <3> QED BY <1>1, <2>2, <3>1
  <2> QED BY <2>1, <2>2, <2>3 DEF Seen
<1>6. Seen(hits, context, 0) = {}
  BY DEF Seen
<1> QED BY <1>1, <1>3, <1>4, <1>5, <1>6 DEF hits, wanted

LEMMA HoldsSame ==
  ASSUME NEW lines, NEW shown, NEW wanted, NEW room, NEW sink \in Sinks, NEW that \in Sinks,
         that.rows = sink.rows, that.lastEmitted = sink.lastEmitted, that.exceeded = sink.exceeded,
         HoldsOr(sink, lines, shown, wanted, room)
  PROVE  HoldsOr(that, lines, shown, wanted, room)
BY DEF HoldsOr, Holds

LEMMA MatchRight ==
  ASSUME NEW lines \in Seq(BOOLEAN), NEW context \in Nat, NEW room \in Nat, NEW n \in DOMAIN lines, lines[n],
         NEW sink, Holds(sink, lines, Seen(Hits(lines), context, n - 1), room),
         sink.previous = Run(Lower(n, context), n - 1)
  PROVE  /\ Match(sink, n, context, room) \in Sinks
         /\ HoldsOr(Match(sink, n, context, room), lines, Seen(Hits(lines), context, n), Wanted(lines, context), room)
         /\ Match(sink, n, context, room).previous = sink.previous
         /\ Match(sink, n, context, room).afterUntil = n + context
<1> DEFINE hits == Hits(lines)
           wanted == Wanted(lines, context)
           low == Lower(n, context)
           shown == Seen(hits, context, n - 1)
           last == sink.lastEmitted
           before == Preceding(sink, n, context, room)
           more == Appended(before, "match", n, room)
           then == shown \cup { i \in low .. n - 1 : i > last }
<1>1. /\ n \in Nat \ {0} /\ n \in 1 .. Len(lines) /\ n - 1 \in 0 .. Len(lines) /\ n \in 0 .. Len(lines)
      /\ low \in Nat \ {0} /\ low <= n /\ low >= n - context /\ n \in hits
  <2>1. n \in 1 .. Len(lines) /\ Len(lines) \in Nat
    OBVIOUS
  <2>2. n \in hits
    BY LinesSeenFacts
  <2> HIDE DEF hits
  <2> QED BY <2>1, <2>2 DEF Lower
<1>2. /\ sink \in Sinks /\ ~ sink.exceeded /\ last \in Nat /\ last \in shown \cup {0} /\ shown \subseteq 1 .. last
  BY DEF Holds, Sinks
<1>3. /\ IsFiniteSet(wanted) /\ shown \subseteq wanted /\ Seen(hits, context, n) \subseteq wanted
      /\ hits \in SUBSET Nat /\ 0 \notin hits /\ \A m \in DOMAIN lines : m \in hits <=> lines[m]
  BY <1>1, LinesSeenFacts
<1>4. Seen(hits, context, n) = then \cup {n}
  <2> HIDE DEF hits, low, last, shown
  <2>1. last \in Seen(hits, context, n - 1) \cup {0}
    BY <1>2 DEF shown
  <2>2. Seen(hits, context, n)
           = (Seen(hits, context, n - 1) \cup { i \in Lower(n, context) .. n - 1 : i > last }) \cup {n}
    BY <1>1, <1>2, <1>3, <2>1, SeenMatch
  <2> QED BY <2>2 DEF low, shown
<1>5. shown \subseteq 1 .. n - 1
  <2> HIDE DEF hits
  <2> QED BY DEF Seen
<1>6. \A i \in low .. n - 1 : i > last => ~ lines[i]
  <2> SUFFICES ASSUME NEW i \in low .. n - 1, lines[i] PROVE ~ (i > last)
    OBVIOUS
  <2>1. i \in DOMAIN lines /\ i \in Nat /\ i \in 1 .. n - 1
    <3>1. DOMAIN lines = 1 .. Len(lines) /\ Len(lines) \in Nat
      OBVIOUS
    <3> HIDE DEF low
    <3> QED BY <1>1, <3>1
  <2>2. i \in hits
    BY <1>3, <2>1
  <2> HIDE DEF hits, low, last
  <2>3. i \in shown
    BY <2>1, <2>2 DEF Seen
  <2> HIDE DEF shown
  <2> QED BY <1>2, <2>3
<1>7. low .. n - 1 \subseteq wanted
  <2> SUFFICES ASSUME NEW i \in low .. n - 1 PROVE i \in Seen(hits, context, n)
    BY <1>3
  <2> HIDE DEF hits
  <2>1. i \in 1 .. n /\ n >= i - context /\ n <= i + context /\ n <= n
    <3> HIDE DEF low
    <3> QED BY <1>1
  <2> QED BY <1>1, <2>1 DEF Seen
<1>8. /\ HoldsOr(before, lines, then, wanted, room)
      /\ before \in Sinks /\ before.previous = sink.previous /\ before.afterUntil = sink.afterUntil
  <2>1. /\ n \in Nat \ {0} /\ Holds(sink, lines, shown, room) /\ shown \subseteq 1 .. n - 1
        /\ IsFiniteSet(wanted) /\ shown \subseteq wanted /\ Lower(n, context) .. n - 1 \subseteq wanted
        /\ \A i \in Lower(n, context) .. n - 1 : i > sink.lastEmitted => ~ lines[i]
        /\ sink.previous = Run(Lower(n, context), n - 1)
    BY <1>1, <1>3, <1>5, <1>6, <1>7
  <2> HIDE DEF shown, wanted
  <2>2. Precedes(sink, lines, shown, wanted, context, room, n)
    BY ONLY <2>1, PrecedingRight, room \in Nat, context \in Nat
  <2> QED BY <2>2 DEF Precedes
<1>9. Gains(before, lines, then, wanted, room, n)
  <2>1. n \in wanted /\ then \subseteq wanted
    BY <1>3, <1>4
  <2>2. ~ before.exceeded => n > before.lastEmitted
    <3> SUFFICES ASSUME ~ before.exceeded PROVE n > before.lastEmitted
      OBVIOUS
    <3>1. before.lastEmitted \in then \cup {0}
      <4> HIDE DEF before, then, wanted
      <4> QED BY <1>8 DEF HoldsOr, Holds
    <3>2. \A i \in then : i < n
      <4>1. \A i \in shown : i < n
        <5> HIDE DEF shown
        <5> QED BY <1>1, <1>5
      <4>2. \A i \in low .. n - 1 : i < n
        <5> HIDE DEF low
        <5> QED BY <1>1
      <4> QED BY <4>1, <4>2
    <3>3. before.lastEmitted < n
      <4> HIDE DEF before, then
      <4> QED BY <1>1, <3>1, <3>2
    <3>4. before.lastEmitted \in Nat
      <4> HIDE DEF before
      <4> QED BY <1>8 DEF Sinks
    <3> HIDE DEF before
    <3> QED BY <1>1, <3>3, <3>4
  <2> HIDE DEF before, then, wanted
  <2> QED BY ONLY <1>1, <1>3, <1>8, <2>1, <2>2, AppendedOver, room \in Nat
<1>10. KindOfLine(lines, n) = "match"
  BY DEF KindOfLine
<1>11. /\ more \in Sinks /\ more.previous = sink.previous
       /\ HoldsOr(more, lines, Seen(hits, context, n), wanted, room)
  <2> HIDE DEF before, then, wanted, hits
  <2> QED BY <1>4, <1>8, <1>9, <1>10 DEF Gains
<1>12. Match(sink, n, context, room) = [more EXCEPT !.afterUntil = n + context]
  BY DEF Match
<1> DEFINE m == [more EXCEPT !.afterUntil = n + context]
<1> HIDE DEF more
<1>13. /\ m \in Sinks /\ m.previous = more.previous /\ m.afterUntil = n + context
       /\ m.rows = more.rows /\ m.lastEmitted = more.lastEmitted /\ m.exceeded = more.exceeded
  <2>1. n + context \in Nat
    BY <1>1
  <2> QED BY <1>11, <2>1 DEF Sinks
<1> HIDE DEF m
<1>14. HoldsOr(m, lines, Seen(hits, context, n), wanted, room)
  <2> HIDE DEF hits, wanted
  <2> QED BY <1>11, <1>13, HoldsSame
<1> QED BY <1>11, <1>12, <1>13, <1>14 DEF m

(* The sink after the first k lines.                                       *)
SinkAfter(sink, lines, context, room, k) ==
  /\ sink \in Sinks
  /\ HoldsOr(sink, lines, Seen(Hits(lines), context, k), Wanted(lines, context), room)
  /\ ~ sink.exceeded =>
       /\ sink.previous = IF context = 0 THEN <<>> ELSE Run(Lower(k, context), k)
       /\ Reaches(sink.afterUntil, Hits(lines), context, k)

LEMMA ConsumedRight ==
  ASSUME NEW lines \in Seq(BOOLEAN), NEW context \in Nat, NEW room \in Nat, NEW n \in DOMAIN lines,
         NEW sink, SinkAfter(sink, lines, context, room, n - 1)
  PROVE  SinkAfter(Consumed(sink, n, lines[n], context, room), lines, context, room, n)
<1> DEFINE hits == Hits(lines)
           wanted == Wanted(lines, context)
           low == Lower(n, context)
           shown == Seen(hits, context, n - 1)
           shown2 == Seen(hits, context, n)
           pruned == [sink EXCEPT !.previous = Pruned(@, n, context)]
           emitted == IF lines[n] THEN Match(pruned, n, context, room)
                      ELSE IF n <= pruned.afterUntil THEN Appended(pruned, "context", n, room)
                      ELSE pruned
           kept == IF context # 0 THEN [emitted EXCEPT !.previous = Append(@, n)] ELSE emitted
<1>1. /\ n \in Nat \ {0} /\ n - 1 \in 0 .. Len(lines) /\ n \in 0 .. Len(lines) /\ n - 1 \in Nat
      /\ low \in Nat \ {0} /\ low <= n
  <2>1. n \in 1 .. Len(lines) /\ Len(lines) \in Nat
    OBVIOUS
  <2> QED BY <2>1 DEF Lower
<1>2. /\ IsFiniteSet(wanted) /\ shown \subseteq wanted /\ shown2 \subseteq wanted
      /\ hits \in SUBSET Nat /\ 0 \notin hits /\ (n \in hits <=> lines[n])
  BY <1>1, LinesSeenFacts
<1>3. Consumed(sink, n, lines[n], context, room) = IF sink.exceeded THEN sink ELSE kept
  BY DEF Consumed
<1>4. sink \in Sinks
  BY DEF SinkAfter
<1> HIDE DEF hits, wanted, shown, shown2
<1>5. CASE sink.exceeded
  <2>1. Cardinality(wanted) > room
    BY <1>5 DEF SinkAfter, HoldsOr, wanted
  <2>2. HoldsOr(sink, lines, shown2, wanted, room)
    BY <1>4, <1>5, <2>1 DEF HoldsOr
  <2> QED BY <1>3, <1>4, <1>5, <2>2 DEF SinkAfter, shown2, hits, wanted
<1>6. ASSUME ~ sink.exceeded PROVE SinkAfter(kept, lines, context, room, n)
  <2>1. /\ Holds(sink, lines, shown, room)
        /\ sink.previous = IF context = 0 THEN <<>> ELSE Run(Lower(n - 1, context), n - 1)
        /\ Reaches(sink.afterUntil, hits, context, n - 1)
    BY <1>6 DEF SinkAfter, HoldsOr, shown, hits
  <2>2. Pruned(sink.previous, n, context) = Run(low, n - 1)
    <3>1. CASE context = 0
      <4>1. Pruned(sink.previous, n, context) = <<>>
        BY <3>1 DEF Pruned
      <4>2. n - 1 \in Nat /\ n <= (n - 1) + 1 /\ n = (n - 1) + 1 /\ low = n
        BY <1>1, <3>1 DEF Lower
      <4>3. Run(n, n - 1) = <<>>
        BY <1>1, <4>2, RunFacts
      <4> QED BY <4>1, <4>2, <4>3
    <3>2. CASE context # 0
      <4>1. Lower(n - 1, context) \in Nat \ {0} /\ Lower(n - 1, context) <= n /\ Lower(n - 1, context) <= low
        BY <1>1 DEF Lower
      <4>2. Pruned(Run(Lower(n - 1, context), n - 1), n, context) = Run(Lower(n, context), n - 1)
        <5> DEFINE from == Lower(n - 1, context)
        <5>1. from \in Nat \ {0} /\ from <= n /\ from <= Lower(n, context) /\ context \in Nat \ {0} /\ n \in Nat \ {0}
          BY <1>1, <3>2, <4>1
        <5> HIDE DEF from
        <5>2. Pruned(Run(from, n - 1), n, context) = Run(Lower(n, context), n - 1)
          BY ONLY <5>1, PrunedRight
        <5> QED BY <5>2 DEF from
      <4> QED BY <2>1, <3>2, <4>2
    <3> QED BY <3>1, <3>2
  <2>3. Run(low, n - 1) \in Seq(Nat) /\ Append(Run(low, n - 1), n) = Run(low, n)
    <3> HIDE DEF low
    <3>1. n - 1 \in Nat /\ low <= (n - 1) + 1 /\ (n - 1) + 1 = n
      BY <1>1
    <3>2. Run(low, n - 1) \in Seq(Nat) /\ Append(Run(low, n - 1), (n - 1) + 1) = Run(low, (n - 1) + 1)
      BY <1>1, <3>1, RunFacts
    <3> QED BY <3>1, <3>2
  <2>4. /\ pruned \in Sinks /\ pruned.previous = Run(low, n - 1) /\ pruned.rows = sink.rows
        /\ pruned.lastEmitted = sink.lastEmitted /\ pruned.exceeded = sink.exceeded
        /\ pruned.afterUntil = sink.afterUntil
    <3> HIDE DEF low
    <3> QED BY <1>4, <2>2, <2>3 DEF Sinks
  <2> HIDE DEF pruned
  <2>5. Holds(pruned, lines, shown, room)
    <3>1. HoldsOr(sink, lines, shown, wanted, room)
      BY <1>6, <2>1 DEF HoldsOr
    <3>2. HoldsOr(pruned, lines, shown, wanted, room)
      BY <1>4, <2>4, <3>1, HoldsSame
    <3> QED BY <1>6, <2>4, <3>2 DEF HoldsOr
  <2>6. /\ emitted \in Sinks /\ emitted.previous = Run(low, n - 1)
        /\ HoldsOr(emitted, lines, shown2, wanted, room)
        /\ Reaches(emitted.afterUntil, hits, context, n)
    <3>1. CASE lines[n]
      <4> DEFINE m == Match(pruned, n, context, room)
      <4>1. emitted = m
        BY <3>1
      <4>2. Holds(pruned, lines, Seen(Hits(lines), context, n - 1), room) /\ pruned.previous = Run(Lower(n, context), n - 1)
        BY <2>4, <2>5 DEF shown, hits
      <4>3. /\ m \in Sinks /\ m.previous = pruned.previous /\ m.afterUntil = n + context
            /\ HoldsOr(m, lines, Seen(Hits(lines), context, n), Wanted(lines, context), room)
        BY ONLY <3>1, <4>2, MatchRight, lines \in Seq(BOOLEAN), context \in Nat, room \in Nat, n \in DOMAIN lines
      <4>4. Reaches(n + context, hits, context, n)
        <5>1. n \in hits /\ n + context \in Nat /\ n <= n
          BY <1>1, <1>2, <3>1
        <5>2. \A p \in hits : p <= n => p + context <= n + context
          BY <1>1, <1>2
        <5> QED BY <5>1, <5>2 DEF Reaches
      <4> HIDE DEF m, emitted
      <4> QED BY <2>4, <4>1, <4>3, <4>4 DEF shown2, hits, wanted
    <3>2. CASE ~ lines[n]
      <4>1. /\ shown2 = IF n <= sink.afterUntil THEN shown \cup {n} ELSE shown
            /\ Reaches(sink.afterUntil, hits, context, n)
        <5>1. n \notin hits
          BY <1>2, <3>2
        <5> QED BY <1>1, <1>2, <2>1, <5>1, SeenOther DEF shown, shown2
      <4>2. CASE n <= sink.afterUntil
        <5>1. emitted = Appended(pruned, "context", n, room)
          BY <2>4, <3>2, <4>2
        <5>2. shown2 = shown \cup {n}
          BY <4>1, <4>2
        <5>3. KindOfLine(lines, n) = "context"
          BY <3>2 DEF KindOfLine
        <5>4. Gains(pruned, lines, shown, wanted, room, n)
          <6>1. n \in Nat /\ n \in wanted
            BY <1>1, <1>2, <5>2
          <6>2. n > pruned.lastEmitted
            <7>1. pruned.lastEmitted \in shown \cup {0} /\ pruned.lastEmitted \in Nat
              BY <2>5 DEF Holds, Sinks
            <7>2. \A i \in shown : i < n
              <8>1. shown \subseteq 1 .. n - 1
                BY DEF Seen, shown
              <8> QED BY <1>1, <8>1
            <7> QED BY <1>1, <7>1, <7>2
          <6>3. HoldsOr(pruned, lines, shown, wanted, room)
            BY <1>6, <2>4, <2>5 DEF HoldsOr
          <6> QED BY ONLY <1>2, <2>4, <6>1, <6>2, <6>3, AppendedOver, room \in Nat
        <5> HIDE DEF emitted
        <5> QED BY <2>4, <4>1, <5>1, <5>2, <5>3, <5>4 DEF Gains
      <4>3. CASE ~ (n <= sink.afterUntil)
        <5>1. emitted = pruned /\ shown2 = shown
          BY <2>4, <3>2, <4>1, <4>3
        <5>2. HoldsOr(pruned, lines, shown, wanted, room)
          BY <1>6, <2>4, <2>5 DEF HoldsOr
        <5> HIDE DEF emitted
        <5> QED BY <2>4, <4>1, <5>1, <5>2
      <4> QED BY <4>2, <4>3
    <3> QED BY <3>1, <3>2
  <2> HIDE DEF emitted
  <2>7. /\ kept \in Sinks /\ kept.rows = emitted.rows /\ kept.lastEmitted = emitted.lastEmitted
        /\ kept.exceeded = emitted.exceeded /\ kept.afterUntil = emitted.afterUntil
        /\ kept.previous = IF context = 0 THEN Run(low, n - 1) ELSE Run(low, n)
    <3> DEFINE q == Append(emitted.previous, n)
    <3>1. q = Run(low, n) /\ q \in Seq(Nat)
      <4> HIDE DEF low
      <4>1. q = Run(low, n)
        BY <2>3, <2>6
      <4>2. emitted.previous \in Seq(Nat)
        BY <2>3, <2>6
      <4>3. n \in Nat
        BY <1>1
      <4>4. q \in Seq(Nat)
        BY ONLY <4>2, <4>3
      <4> QED BY ONLY <4>1, <4>4
    <3>2. kept = IF context # 0 THEN [emitted EXCEPT !.previous = q] ELSE emitted
      OBVIOUS
    <3> HIDE DEF q, kept, low
    <3>3. CASE context = 0
      BY <2>6, <3>2, <3>3
    <3>4. CASE context # 0
      <4>1. kept = [emitted EXCEPT !.previous = q]
        BY <3>2, <3>4
      <4> QED BY <2>6, <3>1, <3>4, <4>1 DEF Sinks
    <3> QED BY <3>3, <3>4
  <2>8. context = 0 => Run(low, n - 1) = <<>>
    <3> SUFFICES ASSUME context = 0 PROVE Run(low, n - 1) = <<>>
      OBVIOUS
    <3>1. n - 1 \in Nat /\ n <= (n - 1) + 1 /\ n = (n - 1) + 1 /\ low = n
      BY <1>1 DEF Lower
    <3>2. Run(n, n - 1) = <<>>
      BY <1>1, <3>1, RunFacts
    <3> QED BY <3>1, <3>2
  <2> HIDE DEF kept
  <2>9. HoldsOr(kept, lines, shown2, wanted, room)
    BY <2>6, <2>7, HoldsSame
  <2> QED BY <2>6, <2>7, <2>8, <2>9 DEF SinkAfter, shown2, hits, wanted
<1> HIDE DEF kept
<1>7. CASE ~ sink.exceeded
  <2>1. Consumed(sink, n, lines[n], context, room) = kept
    BY <1>3, <1>7
  <2> QED BY <1>6, <1>7, <2>1
<1> QED BY <1>5, <1>7

(* The sink gives the promised rows, or gives up when they do not fit.      *)
LEMMA SearchedRight ==
  ASSUME NEW lines \in Seq(BOOLEAN), NEW context \in Nat, NEW room \in Nat
  PROVE  SinkAfter(Searched(lines, context, room), lines, context, room, Len(lines))
<1> DEFINE n == Len(lines)
           Step(sink, k) == Consumed(sink, k, lines[k], context, room)
           Good(k) == { sink \in Sinks : SinkAfter(sink, lines, context, room, k) }
           G == [p \in Sinks \X (1 .. n) |-> IF Step(p[1], p[2]) \in Sinks THEN Step(p[1], p[2]) ELSE EmptySink]
           Loop(h) == h = [k \in 0 .. n |-> IF k = 0 THEN EmptySink ELSE Step(h[k - 1], k)]
           f == CHOOSE h : Loop(h)
<1>1. n \in Nat /\ DOMAIN lines = 1 .. n
  OBVIOUS
<1>2. EmptySink \in Sinks /\ EmptySink \in Good(0)
  <2>1. EmptySink \in Sinks /\ ~ EmptySink.exceeded /\ EmptySink.rows = <<>> /\ EmptySink.lastEmitted = 0
        /\ EmptySink.previous = <<>> /\ EmptySink.afterUntil = 0
    BY DEF EmptySink, Sinks
  <2>2. Seen(Hits(lines), context, 0) = {} /\ Hits(lines) \in SUBSET Nat /\ 0 \notin Hits(lines)
    BY LinesSeenFacts
  <2>3. Cardinality({}) = 0
    BY FS_EmptySet
  <2>4. Holds(EmptySink, lines, {}, room)
    <3>1. Shows(EmptySink.rows, lines, {}) /\ Len(EmptySink.rows) = 0
      BY <2>1 DEF Shows
    <3> QED BY <2>1, <2>3, <3>1 DEF Holds
  <2>5. HoldsOr(EmptySink, lines, Seen(Hits(lines), context, 0), Wanted(lines, context), room)
    BY <2>1, <2>2, <2>4 DEF HoldsOr
  <2>6. EmptySink.previous = IF context = 0 THEN <<>> ELSE Run(Lower(0, context), 0)
    <3>1. Lower(0, context) = 1
      BY DEF Lower
    <3>2. Run(1, 0) = <<>>
      <4>1. 1 \in Nat \ {0} /\ 0 \in Nat /\ 1 <= 0 + 1 /\ 1 = 0 + 1
        OBVIOUS
      <4> QED BY ONLY <4>1, RunFacts
    <3> QED BY <2>1, <3>1, <3>2
  <2>7. Reaches(EmptySink.afterUntil, Hits(lines), context, 0)
    <3>1. \A m \in Hits(lines) : ~ (m <= 0)
      BY <2>2
    <3> QED BY <2>1, <3>1 DEF Reaches
  <2> QED BY <2>1, <2>5, <2>6, <2>7 DEF SinkAfter
<1> HIDE DEF EmptySink
<1>3. ASSUME NEW k \in 1 .. n, NEW sink \in Good(k - 1) PROVE Step(sink, k) \in Good(k)
  <2>1. SinkAfter(sink, lines, context, room, k - 1) /\ k \in DOMAIN lines
    BY <1>1, <1>3
  <2>2. SinkAfter(Consumed(sink, k, lines[k], context, room), lines, context, room, k)
    BY ONLY <2>1, ConsumedRight, lines \in Seq(BOOLEAN), context \in Nat, room \in Nat
  <2> QED BY <2>2 DEF SinkAfter
<1> HIDE DEF Step, n
<1>4. Searched(lines, context, room) = f[n]
  BY DEF Searched, Looped, Step, n
<1>5. PICK h : Computes(n, Sinks, EmptySink, G, h)
  <2>1. G \in [Sinks \X (1 .. n) -> Sinks]
    BY <1>2
  <2> HIDE DEF G
  <2> QED BY <1>1, <1>2, <2>1, Recursion
<1> DEFINE T == {k \in 0 .. n : h[k] \in Good(k) /\ (k # 0 => h[k] = Step(h[k - 1], k))}
<1>6. \A k \in 0 .. n : k \in T
  <2>1. h \in [0 .. n -> Sinks] /\ h[0] = EmptySink /\ \A k \in 1 .. n : h[k] = G[<<h[k - 1], k>>]
    BY <1>5 DEF Computes
  <2>2. 0 \in T
    BY <1>1, <1>2, <2>1
  <2>3. ASSUME NEW k \in 0 + 1 .. n, k - 1 \in T PROVE k \in T
    <3>1. k \in 1 .. n /\ k \in 0 .. n /\ k - 1 \in 0 .. n
      BY <1>1
    <3>2. h[k - 1] \in Good(k - 1)
      BY <2>3
    <3>3. Step(h[k - 1], k) \in Good(k)
      <4> HIDE DEF Good, T
      <4> QED BY <1>3, <3>1, <3>2
    <3>4. h[k] = Step(h[k - 1], k)
      <4>1. h[k - 1] \in Sinks /\ Step(h[k - 1], k) \in Sinks
        BY <2>1, <3>1, <3>3
      <4>2. G[<<h[k - 1], k>>] = Step(h[k - 1], k)
        <5>1. <<h[k - 1], k>> \in Sinks \X (1 .. n)
          BY <3>1, <4>1
        <5> QED BY <4>1, <5>1
      <4> HIDE DEF G
      <4> QED BY <2>1, <3>1, <4>2
    <3> HIDE DEF Good
    <3> QED BY <3>1, <3>3, <3>4
  <2> HIDE DEF T
  <2> QED BY <1>1, <2>2, <2>3, Upward
<1>7. Loop(h)
  <2>1. h \in [0 .. n -> Sinks] /\ h[0] = EmptySink
    BY <1>5 DEF Computes
  <2>2. \A k \in 0 .. n : k # 0 => h[k] = Step(h[k - 1], k)
    <3> HIDE DEF Good
    <3> QED BY <1>6
  <2>3. \A k \in 0 .. n : h[k] = IF k = 0 THEN EmptySink ELSE Step(h[k - 1], k)
    BY <2>1, <2>2
  <2> QED BY <2>1, <2>3
<1>8. Loop(f)
  <2> HIDE DEF Loop
  <2> QED BY <1>7
<1> HIDE DEF f, G
<1>9. f[n] \in Good(n)
  <2> DEFINE U == {k \in 0 .. n : f[k] \in Good(k)}
  <2>1. 0 \in U
    <3>1. f[0] = EmptySink /\ 0 \in 0 .. n
      BY <1>1, <1>8
    <3> HIDE DEF Good
    <3> QED BY <1>2, <3>1
  <2>2. ASSUME NEW k \in 0 + 1 .. n, k - 1 \in U PROVE k \in U
    <3>1. k \in 1 .. n /\ k \in 0 .. n /\ k # 0
      BY <1>1
    <3>2. f[k] = Step(f[k - 1], k)
      BY <1>8, <3>1
    <3> HIDE DEF Good
    <3>3. f[k - 1] \in Good(k - 1)
      BY <2>2
    <3> QED BY <1>3, <3>1, <3>2, <3>3
  <2>3. \A k \in 0 .. n : k \in U
    <3> HIDE DEF U
    <3> QED BY <1>1, <2>1, <2>2, Upward
  <2>4. n \in 0 .. n
    BY <1>1
  <2> HIDE DEF Good
  <2> QED BY <2>3, <2>4
<1> QED BY <1>4, <1>9 DEF n

(* Every search, whatever its lines, its context and the room it has.       *)
LEMMA SearchIsRight == \A lines \in Seq(BOOLEAN), context \in Nat : SearchRight(lines, context)
<1> SUFFICES ASSUME NEW lines \in Seq(BOOLEAN), NEW context \in Nat PROVE SearchRight(lines, context)
  OBVIOUS
<1> DEFINE wanted == Wanted(lines, context)
           size == Cardinality(wanted)
<1>1. size \in Nat /\ wanted = Seen(Hits(lines), context, Len(lines))
  BY LinesSeenFacts
<1> SUFFICES ASSUME NEW room \in {size - 1, size} \cap Nat
             PROVE  LET sink == Searched(lines, context, room)
                    IN  IF size > room THEN sink.exceeded ELSE ~ sink.exceeded /\ Shows(sink.rows, lines, wanted)
  BY DEF SearchRight
<1> DEFINE sink == Searched(lines, context, room)
<1>2. HoldsOr(sink, lines, wanted, wanted, room)
  BY <1>1, SearchedRight DEF SinkAfter
<1> DEFINE right == IF size > room THEN sink.exceeded ELSE ~ sink.exceeded /\ Shows(sink.rows, lines, wanted)
<1> HIDE DEF sink, wanted
<1>3. CASE sink.exceeded
  <2>1. size > room
    BY <1>2, <1>3 DEF HoldsOr
  <2>2. right
    BY <1>3, <2>1
  <2> QED BY ONLY <2>2 DEF sink
<1>4. CASE ~ sink.exceeded
  <2>1. Shows(sink.rows, lines, wanted) /\ size <= room
    BY <1>2, <1>4 DEF HoldsOr, Holds
  <2>2. right
    BY <1>1, <1>4, <2>1
  <2> QED BY ONLY <2>2 DEF sink
<1> QED BY ONLY <1>3, <1>4

-------------------------------------------------------------------------------
(* The pages of a read                                                     *)

(* The items that a read divides into pages.                                *)
PageItem == [kind : {"rows"}, units : Seq(Nat) \ {<<>>}, warned : BOOLEAN]

LEMMA SumIs == \A f : SumFunction(f) = SumOver(f, DOMAIN f)
BY DEF SumFunction, SumFunctionOnSet, SumOver

LEMMA UnitsFacts ==
  ASSUME NEW items \in Seq(PageItem)
  PROVE  /\ \A i \in 1 .. Len(items) + 1 : UnitsBefore(items, i) \in Nat
         /\ \A i \in 1 .. Len(items) : UnitsBefore(items, i + 1) = UnitsBefore(items, i) + Len(items[i].units)
         /\ UnitCount(items) \in Nat
         /\ items # <<>> => UnitCount(items) # 0
<1> DEFINE n == Len(items)
           lens == [ j \in DOMAIN items |-> Len(items[j].units) ]
<1>1. n \in Nat /\ DOMAIN items = 1 .. n
  OBVIOUS
<1>2. \A i : UnitsBefore(items, i) = SumOver(lens, 1 .. i - 1)
  BY DEF UnitsBefore, SumFunctionOnSet, SumOver
<1>3. \A j \in 1 .. n : lens[j] = Len(items[j].units) /\ lens[j] \in Nat /\ lens[j] # 0
  <2> TAKE j \in 1 .. n
  <2>1. items[j] \in PageItem
    BY <1>1
  <2>2. items[j].units \in Seq(Nat) \ {<<>>}
    BY <2>1 DEF PageItem
  <2> QED BY <1>1, <2>2
<1> HIDE DEF lens
<1>4. ASSUME NEW i \in 1 .. n + 1 PROVE UnitsBefore(items, i) \in Nat
  <2>1. IsFiniteSet(1 .. i - 1) /\ \A j \in 1 .. i - 1 : j \in 1 .. n
    <3>1. IsFiniteSet(1 .. i - 1)
      BY <1>1, FS_Interval
    <3> HIDE DEF n
    <3> QED BY <1>1, <3>1
  <2> QED BY <1>2, <1>3, <2>1, SumFacts
<1>5. ASSUME NEW i \in 1 .. n PROVE UnitsBefore(items, i + 1) = UnitsBefore(items, i) + Len(items[i].units)
  <2>1. /\ IsFiniteSet(1 .. i) /\ (i + 1) - 1 = i /\ i \in 1 .. i
        /\ (1 .. i) \ {i} = 1 .. i - 1 /\ \A j \in 1 .. i : j \in 1 .. n
    <3>1. i \in Nat /\ IsFiniteSet(1 .. i)
      BY <1>1, FS_Interval
    <3> HIDE DEF n
    <3> QED BY <1>1, <3>1
  <2>2. SumOver(lens, 1 .. i) = lens[i] + SumOver(lens, (1 .. i) \ {i})
    BY <1>3, <2>1, SumFacts
  <2>3. UnitsBefore(items, i) \in Nat
    <3>1. i \in 1 .. n + 1
      BY <1>1
    <3> QED BY <1>4, <3>1
  <2>4. UnitsBefore(items, i + 1) = SumOver(lens, 1 .. i) /\ UnitsBefore(items, i) = SumOver(lens, 1 .. i - 1)
    BY <1>2, <2>1
  <2>5. lens[i] = Len(items[i].units) /\ lens[i] \in Nat
    BY <1>3
  <2>6. SumOver(lens, 1 .. i) = lens[i] + SumOver(lens, 1 .. i - 1)
    BY <2>1, <2>2
  <2>7. UnitsBefore(items, i + 1) = lens[i] + UnitsBefore(items, i)
    BY ONLY <2>4, <2>6
  <2> QED BY ONLY <2>3, <2>5, <2>7
<1>6. UnitCount(items) \in Nat
  <2>1. n + 1 \in 1 .. n + 1
    BY <1>1
  <2> QED BY <1>4, <2>1 DEF UnitCount
<1>7. ASSUME items # <<>> PROVE UnitCount(items) # 0
  <2>1. n \in 1 .. n /\ n \in 1 .. n + 1
    BY <1>7
  <2>2. UnitCount(items) = UnitsBefore(items, n) + Len(items[n].units)
    BY <1>5, <2>1 DEF UnitCount
  <2>3. UnitsBefore(items, n) \in Nat /\ Len(items[n].units) \in Nat /\ Len(items[n].units) # 0
    <3> HIDE DEF n
    <3> QED BY <1>3, <1>4, <2>1
  <2> HIDE DEF n
  <2> QED BY <2>2, <2>3
<1> QED BY <1>4, <1>5, <1>6, <1>7

(* More units of an item take no less room.                                 *)
LEMMA BlockGrows ==
  ASSUME NEW item \in PageItem, NEW before \in Nat, NEW V \in SUBSET (before + 1 .. before + Len(item.units)),
         NEW U \in SUBSET V
  PROVE  /\ BlockSize(item, before, U) \in Nat /\ BlockSize(item, before, V) \in Nat
         /\ BlockSize(item, before, U) <= BlockSize(item, before, V)
<1> DEFINE n == Len(item.units)
           Sizes(W) == [ u \in W |-> item.units[u - before] ]
           Extra(W) == (IF before + n \in W THEN 1 ELSE 0)
           WarnedOn(W) == (IF item.warned /\ before + 1 \in W THEN 1 ELSE 0)
<1>1. item.units \in Seq(Nat) /\ n \in Nat
  BY DEF PageItem
<1>2. ASSUME NEW W \in SUBSET V
      PROVE  /\ IsFiniteSet(W) /\ SumOver(Sizes(W), W) \in Nat /\ SumFunction(Sizes(W)) = SumOver(Sizes(W), W)
             /\ \A u \in W : Sizes(V)[u] = Sizes(W)[u] /\ Sizes(V)[u] \in Nat
  <2>1. IsFiniteSet(before + 1 .. before + n)
    <3>1. before + 1 \in Int /\ before + n \in Int
      BY <1>1
    <3> HIDE DEF n
    <3> QED BY <3>1, FS_Interval
  <2>2. IsFiniteSet(W)
    BY <2>1, FS_Subset
  <2>3. \A u \in W : Sizes(W)[u] = item.units[u - before] /\ Sizes(V)[u] = item.units[u - before] /\ item.units[u - before] \in Nat
    <3> TAKE u \in W
    <3>1. u - before \in 1 .. n /\ u \in V
      <4>1. u \in before + 1 .. before + n /\ u \in V
        OBVIOUS
      <4> HIDE DEF n
      <4> QED BY <1>1, <4>1
    <3>2. item.units[u - before] \in Nat
      BY <1>1, <3>1
    <3> QED BY <3>1, <3>2
  <2>4. DOMAIN Sizes(W) = W
    OBVIOUS
  <2> HIDE DEF Sizes
  <2>5. SumOver(Sizes(W), W) \in Nat
    BY <2>2, <2>3, SumFacts
  <2>6. SumFunction(Sizes(W)) = SumOver(Sizes(W), W)
    BY <2>4, SumIs
  <2> QED BY <2>2, <2>3, <2>5, <2>6
<1>3. \A W : BlockSize(item, before, W) = IF W = {} THEN 0 ELSE 1 + Extra(W) + SumFunction(Sizes(W)) + WarnedOn(W)
  BY DEF BlockSize
<1>4. SumOver(Sizes(U), U) <= SumOver(Sizes(V), V)
  <2>1. IsFiniteSet(V) /\ \A u \in V : Sizes(V)[u] \in Nat
    BY <1>2
  <2>2. \A u \in U : Sizes(V)[u] = Sizes(U)[u]
    BY <1>2
  <2>3. IsFiniteSet(U) /\ SumOver(Sizes(U), U) \in Nat
    BY <1>2
  <2> HIDE DEF Sizes
  <2>4. SumOver(Sizes(V), V) = SumOver(Sizes(V), V \ U) + SumOver(Sizes(V), U)
    BY <2>1, SumParts
  <2>5. SumOver(Sizes(V), U) = SumOver(Sizes(U), U)
    BY <2>2, <2>3, SumSame
  <2>6. SumOver(Sizes(V), V \ U) \in Nat
    <3>1. IsFiniteSet(V \ U) /\ \A u \in V \ U : Sizes(V)[u] \in Nat
      BY <2>1, FS_Subset
    <3> QED BY <3>1, SumFacts
  <2> QED BY <2>3, <2>4, <2>5, <2>6
<1>5. /\ SumFunction(Sizes(U)) = SumOver(Sizes(U), U) /\ SumFunction(Sizes(V)) = SumOver(Sizes(V), V)
      /\ SumOver(Sizes(U), U) \in Nat /\ SumOver(Sizes(V), V) \in Nat
  BY <1>2
<1>6. /\ Extra(U) \in Nat /\ Extra(V) \in Nat /\ Extra(U) <= Extra(V)
      /\ WarnedOn(U) \in Nat /\ WarnedOn(V) \in Nat /\ WarnedOn(U) <= WarnedOn(V)
  OBVIOUS
<1> HIDE DEF Sizes, Extra, WarnedOn
<1>7. CASE U = {}
  BY <1>3, <1>5, <1>6, <1>7
<1>8. CASE U # {}
  <2>1. V # {}
    BY <1>8
  <2> QED BY <1>3, <1>4, <1>5, <1>6, <1>8, <2>1
<1> QED BY <1>7, <1>8

(* A page that lies within another takes no more room.                      *)
LEMMA SizeGrows ==
  ASSUME NEW items \in Seq(PageItem), NEW from \in Nat, NEW to \in Nat, NEW first \in Nat, NEW last \in Nat,
         first <= from, to <= last, NEW complete \in BOOLEAN
  PROVE  /\ PageSize(items, from, to, complete) \in Nat /\ PageSize(items, first, last, complete) \in Nat
         /\ PageSize(items, from, to, complete) <= PageSize(items, first, last, complete)
<1> DEFINE n == Len(items)
           Blocks(a, b) == [ i \in DOMAIN items |-> BlockSize(items[i], UnitsBefore(items, i), Segment(items, i, a, b)) ]
<1>1. n \in Nat /\ DOMAIN items = 1 .. n /\ IsFiniteSet(1 .. n)
  BY FS_Interval
<1>2. ASSUME NEW i \in 1 .. n
      PROVE  /\ Blocks(from, to)[i] \in Nat /\ Blocks(first, last)[i] \in Nat
             /\ Blocks(from, to)[i] <= Blocks(first, last)[i]
  <2> DEFINE before == UnitsBefore(items, i)
             U == Segment(items, i, from, to)
             V == Segment(items, i, first, last)
  <2>1. items[i] \in PageItem
    BY <1>1
  <2>2. before \in Nat /\ UnitsBefore(items, i + 1) = before + Len(items[i].units)
    <3>1. i \in 1 .. n + 1
      BY <1>1
    <3> QED BY <3>1, UnitsFacts
  <2>3. V \in SUBSET (before + 1 .. before + Len(items[i].units))
    <3>1. \A u \in V : u \in Int /\ u > before /\ u <= before + Len(items[i].units)
      BY <2>2 DEF Segment
    <3>2. Len(items[i].units) \in Nat
      BY <2>1 DEF PageItem
    <3> HIDE DEF V, before
    <3> QED BY <2>2, <3>1, <3>2
  <2>4. U \in SUBSET V
    <3>1. \A u \in from + 1 .. to : u \in first + 1 .. last
      OBVIOUS
    <3> HIDE DEF before
    <3> QED BY <3>1 DEF Segment
  <2> HIDE DEF before, U, V
  <2>5. /\ BlockSize(items[i], before, U) \in Nat /\ BlockSize(items[i], before, V) \in Nat
        /\ BlockSize(items[i], before, U) <= BlockSize(items[i], before, V)
    BY <2>1, <2>2, <2>3, <2>4, BlockGrows
  <2>6. /\ Blocks(from, to)[i] = BlockSize(items[i], before, U)
        /\ Blocks(first, last)[i] = BlockSize(items[i], before, V)
    BY <1>1 DEF before, U, V
  <2> HIDE DEF Blocks
  <2> QED BY <2>5, <2>6
<1>3. DOMAIN Blocks(from, to) = 1 .. n /\ DOMAIN Blocks(first, last) = 1 .. n
  BY <1>1
<1>4. \A a, b : PageSize(items, a, b, complete) = (IF complete THEN 0 ELSE CursorField) + SumFunction(Blocks(a, b))
  BY DEF PageSize
<1> HIDE DEF Blocks, n
<1>5. /\ SumOver(Blocks(from, to), 1 .. n) <= SumOver(Blocks(first, last), 1 .. n)
      /\ SumOver(Blocks(from, to), 1 .. n) \in Nat /\ SumOver(Blocks(first, last), 1 .. n) \in Nat
  BY <1>1, <1>2, SumAtMost, SumFacts
<1>6. /\ SumFunction(Blocks(from, to)) = SumOver(Blocks(from, to), 1 .. n)
      /\ SumFunction(Blocks(first, last)) = SumOver(Blocks(first, last), 1 .. n)
  BY <1>3, SumIs
<1> QED BY <1>4, <1>5, <1>6 DEF CursorField

LEMMA FitsLess ==
  ASSUME NEW items \in Seq(PageItem), NEW from \in Nat, NEW to \in Nat, NEW first \in Nat, NEW last \in Nat,
         first <= from, to <= last, NEW complete \in BOOLEAN, NEW bytes \in Nat,
         PageFits(items, first, last, complete, bytes)
  PROVE  PageFits(items, from, to, complete, bytes)
<1>1. /\ PageSize(items, from, to, complete) \in Nat /\ PageSize(items, first, last, complete) \in Nat
      /\ PageSize(items, from, to, complete) <= PageSize(items, first, last, complete)
  BY SizeGrows
<1> QED BY <1>1 DEF PageFits

-------------------------------------------------------------------------------
(* The most units a page can take                                          *)

(* So many units after `from` fit a partial page.                          *)
Takes(items, from, bytes, units) == PageFits(items, from, from + units, FALSE, bytes)

(* What the bisection knows after k of its rounds.                         *)
Ranges == [low : Nat, high : Nat]

Narrows(range, items, from, most, bytes, k) ==
  /\ range \in Ranges /\ 1 <= range.low /\ range.low <= range.high /\ range.high <= most
  /\ Takes(items, from, bytes, range.low)
  /\ \A u \in range.high + 1 .. most : ~ Takes(items, from, bytes, u)
  /\ range.low = range.high \/ range.high - range.low + k < most

LEMMA HalvedRight ==
  ASSUME NEW items \in Seq(PageItem), NEW from \in Nat, NEW most \in Nat \ {0}, NEW bytes \in Nat,
         NEW k \in 1 .. most, NEW range, Narrows(range, items, from, most, bytes, k - 1)
  PROVE  Narrows(Halved(items, from, range, bytes), items, from, most, bytes, k)
<1> DEFINE low == range.low
           high == range.high
           half == (high - low + 1) \div 2
           middle == low + half
           r == Halved(items, from, range, bytes)
<1>1. /\ low \in Nat /\ high \in Nat /\ 1 <= low /\ low <= high /\ high <= most /\ range = [low |-> low, high |-> high]
      /\ Takes(items, from, bytes, low) /\ \A u \in high + 1 .. most : ~ Takes(items, from, bytes, u)
      /\ low = high \/ high - low + (k - 1) < most
  BY DEF Narrows, Ranges
<1>2. r = IF low >= high THEN range
          ELSE IF Takes(items, from, bytes, middle) THEN [low |-> middle, high |-> high]
          ELSE [low |-> low, high |-> middle - 1]
  BY DEF Halved, Takes
<1> HIDE DEF r, low, high
<1>3. CASE low = high
  <2>1. r = range
    BY <1>1, <1>2, <1>3
  <2>2. range \in Ranges /\ range.low = low /\ range.high = high
    BY <1>1 DEF Ranges
  <2> QED BY <1>1, <1>3, <2>1, <2>2 DEF Narrows, r
<1>4. CASE low # high
  <2>1. half \in Nat /\ 1 <= half /\ half <= high - low
    <3> DEFINE d == high - low
    <3>1. d \in Nat /\ d >= 1
      BY <1>1, <1>4
    <3>2. half = (d + 1) \div 2
      OBVIOUS
    <3> HIDE DEF d, half
    <3>3. (d + 1) \div 2 \in Nat /\ 1 <= (d + 1) \div 2 /\ (d + 1) \div 2 <= d
      BY ONLY <3>1
    <3>4. half \in Nat /\ 1 <= half /\ half <= d
      BY <3>2, <3>3
    <3> QED BY <3>4 DEF d
  <2> HIDE DEF half
  <2>2. middle \in Nat /\ low < middle /\ middle <= high
    BY <1>1, <2>1
  <2>3. ~ (low >= high)
    BY <1>1, <1>4
  <2> HIDE DEF middle
  <2>4. CASE Takes(items, from, bytes, middle)
    <3>1. r = [low |-> middle, high |-> high]
      BY <1>2, <2>3, <2>4
    <3>2. r \in Ranges /\ r.low = middle /\ r.high = high
      BY <1>1, <2>2, <3>1 DEF Ranges
    <3>3. 1 <= middle /\ middle <= high /\ high - middle + k < most
      BY <1>1, <1>4, <2>2
    <3> QED BY <1>1, <2>4, <3>2, <3>3 DEF Narrows, r
  <2>5. CASE ~ Takes(items, from, bytes, middle)
    <3>1. r = [low |-> low, high |-> middle - 1]
      BY <1>2, <2>3, <2>5
    <3>2. r \in Ranges /\ r.low = low /\ r.high = middle - 1
      BY <1>1, <2>2, <3>1 DEF Ranges
    <3>3. low <= middle - 1 /\ middle - 1 <= most /\ (middle - 1) - low + k < most
      BY <1>1, <1>4, <2>2
    <3>4. ASSUME NEW u \in (middle - 1) + 1 .. most PROVE ~ Takes(items, from, bytes, u)
      <4> SUFFICES ASSUME Takes(items, from, bytes, u) PROVE FALSE
        OBVIOUS
      <4>1. from + u \in Nat /\ from + middle \in Nat /\ from <= from /\ from + middle <= from + u
        BY <2>2
      <4>2. PageFits(items, from, from + u, FALSE, bytes) /\ FALSE \in BOOLEAN
        BY DEF Takes
      <4>3. PageFits(items, from, from + middle, FALSE, bytes)
        BY <4>1, <4>2, FitsLess
      <4> QED BY <2>5, <4>3 DEF Takes
    <3> QED BY <1>1, <3>2, <3>3, <3>4 DEF Narrows, r
  <2> QED BY <2>4, <2>5
<1> QED BY <1>3, <1>4

LEMMA LargestRight ==
  ASSUME NEW items \in Seq(PageItem), NEW from \in Nat, NEW most \in Nat \ {0}, NEW bytes \in Nat,
         Takes(items, from, bytes, 1)
  PROVE  /\ Largest(items, from, most, bytes) \in 1 .. most
         /\ Takes(items, from, bytes, Largest(items, from, most, bytes))
         /\ \A u \in Largest(items, from, most, bytes) + 1 .. most : ~ Takes(items, from, bytes, u)
<1> DEFINE Step(range, k) == Halved(items, from, range, bytes)
           start == [low |-> 1, high |-> most]
           Good(k) == { range \in Ranges : Narrows(range, items, from, most, bytes, k) }
           G == [p \in Ranges \X (1 .. most) |-> IF Step(p[1], p[2]) \in Ranges THEN Step(p[1], p[2]) ELSE start]
           Loop(h) == h = [k \in 0 .. most |-> IF k = 0 THEN start ELSE Step(h[k - 1], k)]
           f == CHOOSE h : Loop(h)
<1>1. start \in Ranges /\ start \in Good(0)
  <2>1. start \in Ranges /\ start.low = 1 /\ start.high = most
    BY DEF Ranges
  <2>2. most + 1 .. most = {} /\ 1 <= most /\ (1 = most \/ most - 1 + 0 < most)
    OBVIOUS
  <2> HIDE DEF start
  <2> QED BY <2>1, <2>2 DEF Narrows
<1>2. ASSUME NEW k \in 1 .. most, NEW range \in Good(k - 1) PROVE Step(range, k) \in Good(k)
  <2>1. Narrows(range, items, from, most, bytes, k - 1)
    OBVIOUS
  <2>2. Narrows(Step(range, k), items, from, most, bytes, k)
    BY <2>1, HalvedRight
  <2> HIDE DEF Step
  <2> QED BY <2>2 DEF Narrows
<1> HIDE DEF Step, start
<1>3. Largest(items, from, most, bytes) = f[most].low
  BY DEF Largest, Looped, Step, start
<1>4. PICK h : Computes(most, Ranges, start, G, h)
  <2>1. G \in [Ranges \X (1 .. most) -> Ranges]
    BY <1>1
  <2> HIDE DEF G
  <2> QED BY <1>1, <2>1, Recursion
<1> DEFINE T == {k \in 0 .. most : h[k] \in Good(k) /\ (k # 0 => h[k] = Step(h[k - 1], k))}
<1>5. \A k \in 0 .. most : k \in T
  <2>1. h \in [0 .. most -> Ranges] /\ h[0] = start /\ \A k \in 1 .. most : h[k] = G[<<h[k - 1], k>>]
    BY <1>4 DEF Computes
  <2>2. 0 \in T
    BY <1>1, <2>1
  <2>3. ASSUME NEW k \in 0 + 1 .. most, k - 1 \in T PROVE k \in T
    <3>1. k \in 1 .. most /\ k \in 0 .. most /\ k - 1 \in 0 .. most
      OBVIOUS
    <3>2. h[k - 1] \in Good(k - 1)
      BY <2>3
    <3>3. Step(h[k - 1], k) \in Good(k)
      <4> HIDE DEF Good, T
      <4> QED BY <1>2, <3>1, <3>2
    <3>4. h[k] = Step(h[k - 1], k)
      <4>1. h[k - 1] \in Ranges /\ Step(h[k - 1], k) \in Ranges
        BY <2>1, <3>1, <3>3
      <4>2. G[<<h[k - 1], k>>] = Step(h[k - 1], k)
        <5>1. <<h[k - 1], k>> \in Ranges \X (1 .. most)
          BY <3>1, <4>1
        <5> QED BY <4>1, <5>1
      <4> HIDE DEF G
      <4> QED BY <2>1, <3>1, <4>2
    <3> HIDE DEF Good
    <3> QED BY <3>1, <3>3, <3>4
  <2> HIDE DEF T
  <2> QED BY <2>2, <2>3, Upward
<1>6. Loop(h)
  <2>1. h \in [0 .. most -> Ranges] /\ h[0] = start
    BY <1>4 DEF Computes
  <2>2. \A k \in 0 .. most : k # 0 => h[k] = Step(h[k - 1], k)
    <3> HIDE DEF Good
    <3> QED BY <1>5
  <2>3. \A k \in 0 .. most : h[k] = IF k = 0 THEN start ELSE Step(h[k - 1], k)
    BY <2>1, <2>2
  <2> QED BY <2>1, <2>3
<1>7. Loop(f)
  <2> HIDE DEF Loop
  <2> QED BY <1>6
<1> HIDE DEF f, G
<1>8. f[most] \in Good(most)
  <2> DEFINE U == {k \in 0 .. most : f[k] \in Good(k)}
  <2>1. 0 \in U
    <3>1. f[0] = start /\ 0 \in 0 .. most
      BY <1>7
    <3> HIDE DEF Good
    <3> QED BY <1>1, <3>1
  <2>2. ASSUME NEW k \in 0 + 1 .. most, k - 1 \in U PROVE k \in U
    <3>1. k \in 1 .. most /\ k \in 0 .. most /\ k # 0
      OBVIOUS
    <3>2. f[k] = Step(f[k - 1], k)
      BY <1>7, <3>1
    <3> HIDE DEF Good
    <3>3. f[k - 1] \in Good(k - 1)
      BY <2>2
    <3> QED BY <1>2, <3>1, <3>2, <3>3
  <2>3. \A k \in 0 .. most : k \in U
    <3> HIDE DEF U
    <3> QED BY <2>1, <2>2, Upward
  <2>4. most \in 0 .. most
    OBVIOUS
  <2> HIDE DEF Good
  <2> QED BY <2>3, <2>4
<1>9. Narrows(f[most], items, from, most, bytes, most)
  BY <1>8
<1> HIDE DEF Good
<1>10. /\ f[most].low \in Nat /\ f[most].high \in Nat /\ 1 <= f[most].low /\ f[most].low <= f[most].high
       /\ f[most].high <= most /\ f[most].low = f[most].high
       /\ Takes(items, from, bytes, f[most].low)
       /\ \A u \in f[most].high + 1 .. most : ~ Takes(items, from, bytes, u)
  <2>1. /\ f[most].low \in Nat /\ f[most].high \in Nat /\ 1 <= f[most].low /\ f[most].low <= f[most].high
        /\ f[most].high <= most
        /\ f[most].low = f[most].high \/ f[most].high - f[most].low + most < most
        /\ Takes(items, from, bytes, f[most].low)
        /\ \A u \in f[most].high + 1 .. most : ~ Takes(items, from, bytes, u)
    BY <1>9 DEF Narrows, Ranges
  <2> QED BY <2>1
<1> QED BY <1>3, <1>10

-------------------------------------------------------------------------------
(* Divisions                                                               *)

(* A division goes on behind the end of any page that it can be compared   *)
(* with: by as much as fits there at most.                                 *)
LEMMA NextEnd ==
  ASSUME NEW items \in Seq(PageItem), NEW bytes \in Nat,
         NEW ends \in SUBSET (1 .. UnitCount(items) - 1), Paged(items, bytes, ends),
         NEW at \in Nat, at < UnitCount(items), ~ PageFits(items, at, UnitCount(items), TRUE, bytes)
  PROVE  \E t \in ends : t > at /\ PageFits(items, at, t, FALSE, bytes)
<1> DEFINE count == UnitCount(items)
           earlier == { e \in {0} \cup ends : e <= at }
           Far == { at - e : e \in earlier }
<1>1. count \in Nat /\ TRUE \in BOOLEAN /\ FALSE \in BOOLEAN
  BY UnitsFacts
<1>2. \A e \in {0} \cup ends : e \in Nat
  BY <1>1
<1>3. PICK from \in {0} \cup ends : from <= at /\ \A e \in {0} \cup ends : e <= at => e <= from
  <2>1. Far \in SUBSET Nat /\ Far # {}
    <3>1. 0 \in earlier /\ \A e \in earlier : e \in Nat /\ at - e \in Nat
      BY <1>2
    <3> HIDE DEF earlier
    <3> QED BY <3>1
  <2>2. Min(Far) \in Far /\ \A y \in Far : Min(Far) <= y
    <3> HIDE DEF Far
    <3> QED BY <2>1, LeastNumber
  <2>3. PICK e \in earlier : Min(Far) = at - e
    BY <2>2
  <2>4. \A d \in earlier : at - e <= at - d
    <3>1. \A d \in earlier : at - d \in Far
      OBVIOUS
    <3> HIDE DEF Far, earlier
    <3> QED BY <2>2, <2>3, <3>1
  <2> QED BY <1>2, <2>3, <2>4
<1> DEFINE later == { to \in ends : to > from }
<1>4. \A to \in ends : to > from => to > at
  BY <1>2, <1>3
<1>5. IF later = {} THEN PageFits(items, from, count, TRUE, bytes) ELSE PageFits(items, from, Min(later), FALSE, bytes)
  BY DEF Paged
<1>6. CASE later = {}
  <2>1. from \in Nat /\ from <= at
    BY <1>2, <1>3
  <2>2. PageFits(items, from, count, TRUE, bytes)
    BY <1>5, <1>6
  <2> HIDE DEF count
  <2>3. count <= count
    BY <1>1
  <2>4. PageFits(items, at, count, TRUE, bytes)
    BY <1>1, <2>1, <2>2, <2>3, FitsLess
  <2> QED BY <2>4 DEF count
<1>7. CASE later # {}
  <2> DEFINE t == Min(later)
  <2>1. t \in later
    <3>1. later \in SUBSET Nat
      BY <1>2
    <3> HIDE DEF later
    <3> QED BY <1>7, <3>1, LeastNumber
  <2>2. PageFits(items, from, t, FALSE, bytes)
    BY <1>5, <1>7
  <2> HIDE DEF t
  <2>3. t \in ends /\ t \in Nat /\ t > at /\ t <= t /\ from \in Nat /\ from <= at
    BY <1>2, <1>3, <1>4, <2>1
  <2>4. PageFits(items, at, t, FALSE, bytes)
    BY <1>1, <2>2, <2>3, FitsLess
  <2> QED BY <2>3, <2>4
<1> QED BY <1>6, <1>7

EndsUpTo(ends, at) == Cardinality({ e \in ends : e <= at })

LEMMA EndedMore ==
  ASSUME NEW count \in Nat, NEW ends \in SUBSET (1 .. count - 1), NEW at \in Nat, NEW to \in Nat,
         NEW t \in ends, t > at, t <= to
  PROVE  /\ EndsUpTo(ends, at) \in Nat /\ EndsUpTo(ends, to) \in Nat /\ Cardinality(ends) \in Nat
         /\ EndsUpTo(ends, at) + 1 <= EndsUpTo(ends, to) /\ EndsUpTo(ends, to) <= Cardinality(ends)
<1> DEFINE A == { e \in ends : e <= at }
           B == { e \in ends : e <= to }
<1>1. IsFiniteSet(ends)
  <2>1. IsFiniteSet(1 .. count - 1)
    BY FS_Interval
  <2> QED BY <2>1, FS_Subset
<1>2. \A e \in ends : e \in Nat
  OBVIOUS
<1>3. A \cup {t} \subseteq B /\ t \notin A /\ A \subseteq ends /\ B \subseteq ends
  <2>1. t \in Nat /\ ~ (t <= at) /\ \A e \in ends : e <= at => e <= to
    BY <1>2
  <2> QED BY <2>1
<1> HIDE DEF A, B
<1>4. IsFiniteSet(A) /\ IsFiniteSet(B) /\ IsFiniteSet(A \cup {t})
  BY <1>1, <1>3, FS_Subset
<1>5. Cardinality(A \cup {t}) = Cardinality(A) + 1
  BY <1>3, <1>4, FS_AddElement
<1>6. Cardinality(A \cup {t}) <= Cardinality(B)
  BY <1>3, <1>4, FS_Subset
<1>7. Cardinality(B) <= Cardinality(ends)
  BY <1>1, <1>3, FS_Subset
<1>8. Cardinality(A) \in Nat /\ Cardinality(B) \in Nat /\ Cardinality(ends) \in Nat
  BY <1>1, <1>4, FS_CardinalityType
<1>9. Cardinality(A) + 1 <= Cardinality(B)
  BY <1>5, <1>6
<1> QED BY <1>7, <1>8, <1>9 DEF EndsUpTo, A, B

-------------------------------------------------------------------------------
(* The pages laid out so far                                               *)

PageOf == [from : Nat, to : Nat, complete : BOOLEAN]

PlanOf == [pages : Seq(PageOf), at : Nat, code : {"none", "record_exceeds_budget", "budget_exceeded"}]

(* Pages that follow each other up to a unit, each within its size.         *)
Follow(pages, at, items, bytes) ==
  /\ pages = <<>> => at = 0
  /\ pages # <<>> => pages[1].from = 0 /\ pages[Len(pages)].to = at
  /\ \A i \in DOMAIN pages :
       /\ pages[i].from < pages[i].to
       /\ i > 1 => pages[i].from = pages[i - 1].to
       /\ pages[i].complete <=> (i = Len(pages) /\ at = UnitCount(items))
       /\ PageFits(items, pages[i].from, pages[i].to, pages[i].complete, bytes)

(* No division has come as far with fewer pages.                            *)
Foremost(pages, at, items, bytes) ==
  \A ends \in SUBSET (1 .. UnitCount(items) - 1) :
    Paged(items, bytes, ends) => Len(pages) <= EndsUpTo(ends, at)

(* What the plan has come to after k rounds.                                *)
Paginates(plan, items, bytes, maxPages, k) ==
  /\ plan \in PlanOf
  /\ plan.code # "none" => ~ Divisible(items, bytes, maxPages)
  /\ plan.code = "none" =>
       /\ plan.at <= UnitCount(items) /\ (plan.at = UnitCount(items) \/ plan.at >= k)
       /\ Len(plan.pages) <= maxPages
       /\ Follow(plan.pages, plan.at, items, bytes)
       /\ plan.at < UnitCount(items) =>
            Len(plan.pages) < maxPages /\ Foremost(plan.pages, plan.at, items, bytes)

LEMMA FollowMore ==
  ASSUME NEW items \in Seq(PageItem), NEW bytes \in Nat, NEW pages \in Seq(PageOf), NEW at \in Nat,
         Follow(pages, at, items, bytes), at < UnitCount(items),
         NEW to \in Nat, at < to, NEW complete \in BOOLEAN, complete <=> to = UnitCount(items),
         PageFits(items, at, to, complete, bytes)
  PROVE  /\ Append(pages, Page(at, to, complete)) \in Seq(PageOf)
         /\ Len(Append(pages, Page(at, to, complete))) = Len(pages) + 1
         /\ Follow(Append(pages, Page(at, to, complete)), to, items, bytes)
<1> DEFINE page == Page(at, to, complete)
           more == Append(pages, page)
           n == Len(pages)
           count == UnitCount(items)
<1>1. page \in PageOf /\ page.from = at /\ page.to = to /\ page.complete = complete
  BY DEF Page, PageOf
<1>2. count \in Nat
  BY UnitsFacts
<1> HIDE DEF page, count
<1>3. /\ more \in Seq(PageOf) /\ Len(more) = n + 1 /\ n \in Nat /\ DOMAIN more = 1 .. n + 1 /\ DOMAIN pages = 1 .. n
      /\ \A i \in 1 .. n : more[i] = pages[i]
      /\ more[n + 1] = page
      /\ (n = 0 <=> pages = <<>>)
  BY <1>1
<1> HIDE DEF more, n
<1>4. more # <<>> /\ more[Len(more)].to = to
  <2>1. more # <<>>
    BY <1>3
  <2>2. more[Len(more)] = page
    BY <1>3
  <2> QED BY <1>1, <2>1, <2>2
<1>5. more[1].from = 0
  <2>1. CASE n = 0
    <3>1. more[1] = page /\ at = 0
      BY <1>3, <2>1 DEF Follow
    <3> QED BY <1>1, <3>1
  <2>2. CASE n # 0
    <3>1. 1 \in 1 .. n /\ pages[1].from = 0
      BY <1>3, <2>2 DEF Follow
    <3> QED BY <1>3, <3>1
  <2> QED BY <2>1, <2>2
<1>6. ASSUME NEW i \in 1 .. n + 1
      PROVE  /\ more[i].from < more[i].to
             /\ i > 1 => more[i].from = more[i - 1].to
             /\ more[i].complete <=> (i = n + 1 /\ to = count)
             /\ PageFits(items, more[i].from, more[i].to, more[i].complete, bytes)
  <2>1. CASE i = n + 1
    <3>1. more[i] = page
      BY <1>3, <2>1
    <3>2. i > 1 => more[i - 1].to = at
      <4> SUFFICES ASSUME i > 1 PROVE more[i - 1].to = at
        OBVIOUS
      <4>1. i - 1 = n /\ n \in 1 .. n /\ pages # <<>>
        BY <1>3, <2>1
      <4>2. pages[n].to = at
        BY <4>1 DEF Follow, n
      <4> QED BY <1>3, <4>1, <4>2
    <3>3. page.complete <=> (i = n + 1 /\ to = count)
      BY <1>1, <2>1 DEF count
    <3>4. PageFits(items, page.from, page.to, page.complete, bytes)
      BY <1>1
    <3> QED BY <1>1, <3>1, <3>2, <3>3, <3>4
  <2>2. CASE i # n + 1
    <3>1. i \in 1 .. n /\ i \in DOMAIN pages /\ more[i] = pages[i]
      BY <1>3, <2>2
    <3>2. i > 1 => i - 1 \in 1 .. n /\ more[i - 1] = pages[i - 1]
      BY <1>3, <3>1
    <3>3. /\ pages[i].from < pages[i].to
          /\ i > 1 => pages[i].from = pages[i - 1].to
          /\ pages[i].complete <=> (i = n /\ at = count)
          /\ PageFits(items, pages[i].from, pages[i].to, pages[i].complete, bytes)
      BY <3>1 DEF Follow, count, n
    <3>4. at # count
      BY <1>2 DEF count
    <3> QED BY <2>2, <3>1, <3>2, <3>3, <3>4
  <2> QED BY <2>1, <2>2
<1>7. Follow(more, to, items, bytes)
  BY <1>3, <1>4, <1>5, <1>6 DEF Follow, count
<1> QED BY <1>3, <1>7 DEF more, page, n

LEMMA NextPageRight ==
  ASSUME NEW items \in Seq(PageItem), NEW bytes \in Nat, NEW maxPages \in Nat \ {0}, NEW k \in Nat \ {0},
         NEW plan, Paginates(plan, items, bytes, maxPages, k - 1)
  PROVE  Paginates(NextPage(plan, items, bytes, maxPages), items, bytes, maxPages, k)
<1> DEFINE at == plan.at
           pages == plan.pages
           n == Len(pages)
           count == UnitCount(items)
           most == count - at - 1
           size == Largest(items, at, most, bytes)
           to == at + size
           next == NextPage(plan, items, bytes, maxPages)
<1>1. plan \in PlanOf /\ at \in Nat /\ pages \in Seq(PageOf) /\ n \in Nat /\ count \in Nat
  <2>1. plan \in PlanOf
    BY DEF Paginates
  <2>2. at \in Nat /\ pages \in Seq(PageOf)
    BY <2>1 DEF PlanOf
  <2>3. n \in Nat
    BY <2>2
  <2>4. count \in Nat
    BY UnitsFacts
  <2> QED BY <2>1, <2>2, <2>3, <2>4
<1>2. next = IF plan.code # "none" \/ at = count THEN plan
             ELSE IF PageFits(items, at, count, TRUE, bytes)
               THEN Planned(Append(pages, Page(at, count, TRUE)), count)
             ELSE IF ~ PageFits(items, at, at + 1, FALSE, bytes) \/ count - at = 1
               THEN Refused("record_exceeds_budget")
             ELSE IF n + 1 >= maxPages THEN Refused("budget_exceeded")
             ELSE Planned(Append(pages, Page(at, to, FALSE)), to)
  BY DEF NextPage
<1> HIDE DEF next, at, pages, n, count, size
<1>3. ASSUME plan.code # "none" PROVE Paginates(next, items, bytes, maxPages, k)
  <2>1. next = plan
    BY <1>2, <1>3
  <2> QED BY <1>1, <1>3, <2>1 DEF Paginates
<1>4. ASSUME plan.code = "none" 
      PROVE  /\ at <= count /\ (at = count \/ at >= k - 1) /\ n <= maxPages /\ Follow(pages, at, items, bytes)
             /\ at < count => n < maxPages /\ Foremost(pages, at, items, bytes)
  BY <1>4 DEF Paginates, at, count, n, pages
<1>5. ASSUME plan.code = "none", at = count PROVE Paginates(next, items, bytes, maxPages, k)
  <2>1. next = plan
    BY <1>2, <1>5
  <2>3. ~ (at < count)
    <3>1. at = count /\ count \in Nat
      BY <1>1, <1>5
    <3> QED BY ONLY <3>1
  <2>2. n <= maxPages /\ Follow(pages, at, items, bytes) /\ at <= count
    BY <1>4, <1>5
  <2> QED BY <1>1, <1>5, <2>1, <2>2, <2>3 DEF Paginates, at, count, n, pages
<1>6. ASSUME plan.code = "none", at # count PROVE Paginates(next, items, bytes, maxPages, k)
  <2>1. /\ at < count /\ at >= k - 1 /\ n < maxPages
        /\ Follow(pages, at, items, bytes) /\ Foremost(pages, at, items, bytes)
    <3>1. at < count /\ at >= k - 1
      <4>1. at <= count /\ at >= k - 1 /\ at # count
        BY <1>4, <1>6
      <4> QED BY <1>1, <4>1
    <3> QED BY <1>4, <1>6, <3>1
  <2>2. CASE PageFits(items, at, count, TRUE, bytes)
    <3> DEFINE more == Append(pages, Page(at, count, TRUE))
    <3>1. next = Planned(more, count)
      BY <1>2, <1>6, <2>2
    <3>2. more \in Seq(PageOf) /\ Len(more) = Len(pages) + 1 /\ Follow(more, count, items, bytes)
      <4>1. Follow(pages, at, items, bytes) /\ at < UnitCount(items) /\ (TRUE <=> count = UnitCount(items)) /\ TRUE \in BOOLEAN
        BY <2>1 DEF count
      <4>2. at < count /\ (TRUE <=> count = UnitCount(items))
        BY <2>1, <4>1
      <4> HIDE DEF more
      <4>3. /\ Append(pages, Page(at, count, TRUE)) \in Seq(PageOf)
            /\ Len(Append(pages, Page(at, count, TRUE))) = Len(pages) + 1
            /\ Follow(Append(pages, Page(at, count, TRUE)), count, items, bytes)
        BY ONLY <1>1, <2>2, <4>1, <4>2, FollowMore, items \in Seq(PageItem), bytes \in Nat
      <4> QED BY <4>3 DEF more
    <3> HIDE DEF more
    <3>3. next.pages = more /\ next.at = count /\ next.code = "none" /\ next \in PlanOf
      BY <1>1, <3>1, <3>2 DEF Planned, PlanOf
    <3>4. Len(more) <= maxPages /\ count <= count /\ ~ (count < count)
      BY <1>1, <2>1, <3>2 DEF n
    <3> QED BY <3>2, <3>3, <3>4 DEF Paginates, count
  <2>3. ASSUME ~ PageFits(items, at, count, TRUE, bytes), NEW ends \in SUBSET (1 .. count - 1), Paged(items, bytes, ends)
        PROVE  \E t \in ends : t > at /\ t \in Nat /\ t <= count - 1 /\ PageFits(items, at, t, FALSE, bytes)
    <3>1. PICK t \in ends : t > at /\ PageFits(items, at, t, FALSE, bytes)
      BY <1>1, <2>1, <2>3, NextEnd DEF count
    <3>2. t \in 1 .. count - 1
      OBVIOUS
    <3>3. t \in Nat /\ t <= count - 1
      BY <1>1, <3>2
    <3> QED BY <3>1, <3>3
  <2>4. CASE ~ PageFits(items, at, count, TRUE, bytes) /\ (~ PageFits(items, at, at + 1, FALSE, bytes) \/ count - at = 1)
    <3>1. next = Refused("record_exceeds_budget")
      BY <1>2, <1>6, <2>4
    <3>2. next.code # "none" /\ next \in PlanOf
      BY <3>1 DEF Refused, PlanOf
    <3>3. ~ Divisible(items, bytes, maxPages)
      <4> SUFFICES ASSUME NEW ends \in SUBSET (1 .. count - 1), Paged(items, bytes, ends) PROVE FALSE
        BY DEF Divisible, count
      <4>1. PICK t \in ends : t > at /\ t \in Nat /\ t <= count - 1 /\ PageFits(items, at, t, FALSE, bytes)
        BY <2>3, <2>4
      <4>2. count - at # 1
        BY <1>1, <4>1
      <4>3. at <= at /\ at + 1 <= t /\ at + 1 \in Nat /\ FALSE \in BOOLEAN
        BY <1>1, <4>1
      <4>4. PageFits(items, at, at + 1, FALSE, bytes)
        BY <1>1, <4>1, <4>3, FitsLess
      <4> QED BY <2>4, <4>2, <4>4
    <3> QED BY <3>2, <3>3 DEF Paginates
  <2>5. CASE /\ ~ PageFits(items, at, count, TRUE, bytes) /\ PageFits(items, at, at + 1, FALSE, bytes)
             /\ count - at # 1 /\ n + 1 >= maxPages
    <3>1. next = Refused("budget_exceeded")
      BY <1>2, <1>6, <2>5
    <3>2. next.code # "none" /\ next \in PlanOf
      BY <3>1 DEF Refused, PlanOf
    <3>3. ~ Divisible(items, bytes, maxPages)
      <4> SUFFICES ASSUME NEW ends \in SUBSET (1 .. count - 1), Paged(items, bytes, ends), Cardinality(ends) < maxPages
                   PROVE  FALSE
        BY DEF Divisible, count
      <4>1. PICK t \in ends : t > at /\ t \in Nat /\ t <= count - 1 /\ PageFits(items, at, t, FALSE, bytes)
        BY <2>3, <2>5
      <4>2. n <= EndsUpTo(ends, at)
        BY <2>1 DEF Foremost, count, n
      <4>3. /\ EndsUpTo(ends, at) \in Nat /\ EndsUpTo(ends, t) \in Nat /\ Cardinality(ends) \in Nat
            /\ EndsUpTo(ends, at) + 1 <= EndsUpTo(ends, t) /\ EndsUpTo(ends, t) <= Cardinality(ends)
        <5>1. t <= t
          BY <4>1
        <5> QED BY <1>1, <4>1, <5>1, EndedMore
      <4> QED BY <1>1, <2>5, <4>2, <4>3
    <3> QED BY <3>2, <3>3 DEF Paginates
  <2>6. CASE /\ ~ PageFits(items, at, count, TRUE, bytes) /\ PageFits(items, at, at + 1, FALSE, bytes)
             /\ count - at # 1 /\ ~ (n + 1 >= maxPages)
    <3> DEFINE more == Append(pages, Page(at, to, FALSE))
    <3>1. next = Planned(more, to)
      BY <1>2, <1>6, <2>6
    <3>2. most \in Nat \ {0}
      BY <1>1, <2>1, <2>6
    <3> HIDE DEF most
    <3>3. size \in 1 .. most /\ Takes(items, at, bytes, size) /\ \A u \in size + 1 .. most : ~ Takes(items, at, bytes, u)
      <4>1. Takes(items, at, bytes, 1)
        BY <2>6 DEF Takes
      <4> QED BY <1>1, <3>2, <4>1, LargestRight DEF size
    <3>4. to \in Nat /\ at < to /\ to < count /\ to >= k
      BY <1>1, <2>1, <3>2, <3>3 DEF most
    <3>5. PageFits(items, at, to, FALSE, bytes)
      BY <3>3 DEF Takes
    <3> HIDE DEF to
    <3>6. more \in Seq(PageOf) /\ Len(more) = Len(pages) + 1 /\ Follow(more, to, items, bytes)
      <4>1. Follow(pages, at, items, bytes) /\ at < UnitCount(items) /\ (FALSE <=> to = UnitCount(items)) /\ FALSE \in BOOLEAN
        BY <1>1, <2>1, <3>4 DEF count
      <4> HIDE DEF more
      <4>2. /\ Append(pages, Page(at, to, FALSE)) \in Seq(PageOf)
            /\ Len(Append(pages, Page(at, to, FALSE))) = Len(pages) + 1
            /\ Follow(Append(pages, Page(at, to, FALSE)), to, items, bytes)
        BY ONLY <1>1, <3>4, <3>5, <4>1, FollowMore, items \in Seq(PageItem), bytes \in Nat
      <4> QED BY <4>2 DEF more
    <3> HIDE DEF more
    <3>7. next.pages = more /\ next.at = to /\ next.code = "none" /\ next \in PlanOf
      BY <3>1, <3>4, <3>6 DEF Planned, PlanOf
    <3>8. Len(more) < maxPages /\ Len(more) \in Nat
      BY <1>1, <2>6, <3>6 DEF n
    <3>9. Foremost(more, to, items, bytes)
      <4> SUFFICES ASSUME NEW ends \in SUBSET (1 .. count - 1), Paged(items, bytes, ends) PROVE Len(more) <= EndsUpTo(ends, to)
        BY DEF Foremost, count
      <4>1. PICK t \in ends : t > at /\ t \in Nat /\ t <= count - 1 /\ PageFits(items, at, t, FALSE, bytes)
        BY <2>3, <2>6
      <4>2. t <= to
        <5> SUFFICES ASSUME ~ (t <= to) PROVE FALSE
          OBVIOUS
        <5>1. t - at \in size + 1 .. most /\ at + (t - at) = t
          BY <1>1, <3>2, <3>3, <4>1 DEF most, to
        <5>2. Takes(items, at, bytes, t - at)
          BY <4>1, <5>1 DEF Takes
        <5> QED BY <3>3, <5>1, <5>2
      <4>3. n <= EndsUpTo(ends, at)
        BY <2>1 DEF Foremost, count, n
      <4>4. /\ EndsUpTo(ends, at) \in Nat /\ EndsUpTo(ends, to) \in Nat
            /\ EndsUpTo(ends, at) + 1 <= EndsUpTo(ends, to)
        BY <1>1, <3>4, <4>1, <4>2, EndedMore
      <4>5. Len(more) = n + 1
        BY <3>6 DEF n
      <4> QED BY <1>1, <4>3, <4>4, <4>5
    <3>10. to <= count /\ Len(more) <= maxPages
      BY <1>1, <3>4, <3>8
    <3> QED BY <3>4, <3>6, <3>7, <3>8, <3>9, <3>10 DEF Paginates, count
  <2> QED BY <2>2, <2>4, <2>5, <2>6
<1> QED BY <1>3, <1>5, <1>6 DEF next

LEMMA PlanReadRight ==
  ASSUME NEW items \in Seq(PageItem), NEW bytes \in Nat, NEW maxPages \in Nat \ {0}
  PROVE  Paginates(PlanRead(items, bytes, maxPages), items, bytes, maxPages, UnitCount(items))
<1> DEFINE n == UnitCount(items)
           Step(plan, k) == NextPage(plan, items, bytes, maxPages)
           start == Planned(<<>>, 0)
           Good(k) == { plan \in PlanOf : Paginates(plan, items, bytes, maxPages, k) }
           G == [p \in PlanOf \X (1 .. n) |-> IF Step(p[1], p[2]) \in PlanOf THEN Step(p[1], p[2]) ELSE start]
           Loop(h) == h = [k \in 0 .. n |-> IF k = 0 THEN start ELSE Step(h[k - 1], k)]
           f == CHOOSE h : Loop(h)
<1>1. n \in Nat
  BY UnitsFacts
<1>2. start \in PlanOf /\ start \in Good(0)
  <2>1. start \in PlanOf /\ start.at = 0 /\ start.pages = <<>> /\ start.code = "none"
    BY DEF PlanOf, Planned
  <2> HIDE DEF start
  <2>5. DOMAIN start.pages = {} /\ Len(start.pages) = 0
    <3>1. DOMAIN <<>> = {} /\ Len(<<>>) = 0
      OBVIOUS
    <3> QED BY ONLY <2>1, <3>1
  <2>2. Follow(start.pages, start.at, items, bytes)
    <3> DEFINE none == start.pages
    <3>1. none = <<>> /\ DOMAIN none = {}
      BY <2>1, <2>5
    <3> HIDE DEF none
    <3>2. Follow(none, 0, items, bytes)
      BY <3>1 DEF Follow
    <3> QED BY <2>1, <3>2 DEF none
  <2>3. Foremost(start.pages, start.at, items, bytes)
    <3> SUFFICES ASSUME NEW ends \in SUBSET (1 .. n - 1) PROVE 0 <= EndsUpTo(ends, 0)
      BY <2>1 DEF Foremost
    <3>1. IsFiniteSet(1 .. n - 1)
      BY <1>1, FS_Interval
    <3>2. IsFiniteSet({ e \in ends : e <= 0 })
      BY <3>1, FS_Subset
    <3>3. Cardinality({ e \in ends : e <= 0 }) \in Nat
      BY <3>2, FS_CardinalityType
    <3> QED BY <3>3 DEF EndsUpTo
  <2>4. Len(start.pages) < maxPages /\ Len(start.pages) <= maxPages /\ 0 <= n /\ 0 >= 0
    BY <1>1, <2>5
  <2> QED BY <2>1, <2>2, <2>3, <2>4 DEF Paginates
<1>3. ASSUME NEW k \in 1 .. n, NEW plan \in Good(k - 1) PROVE Step(plan, k) \in Good(k)
  <2>1. Paginates(plan, items, bytes, maxPages, k - 1) /\ k \in Nat \ {0}
    BY <1>1
  <2>2. Paginates(Step(plan, k), items, bytes, maxPages, k)
    BY ONLY <2>1, NextPageRight, items \in Seq(PageItem), bytes \in Nat, maxPages \in Nat \ {0}
  <2> HIDE DEF Step
  <2> QED BY <2>2 DEF Paginates
<1> HIDE DEF Step, start, n
<1>4. PlanRead(items, bytes, maxPages) = f[n]
  BY DEF PlanRead, Looped, Step, start, n
<1>5. PICK h : Computes(n, PlanOf, start, G, h)
  <2>1. G \in [PlanOf \X (1 .. n) -> PlanOf]
    BY <1>2
  <2> HIDE DEF G
  <2> QED BY <1>1, <1>2, <2>1, Recursion
<1> DEFINE T == {k \in 0 .. n : h[k] \in Good(k) /\ (k # 0 => h[k] = Step(h[k - 1], k))}
<1>6. \A k \in 0 .. n : k \in T
  <2>1. h \in [0 .. n -> PlanOf] /\ h[0] = start /\ \A k \in 1 .. n : h[k] = G[<<h[k - 1], k>>]
    BY <1>5 DEF Computes
  <2>2. 0 \in T
    BY <1>1, <1>2, <2>1
  <2>3. ASSUME NEW k \in 0 + 1 .. n, k - 1 \in T PROVE k \in T
    <3>1. k \in 1 .. n /\ k \in 0 .. n /\ k - 1 \in 0 .. n
      BY <1>1
    <3>2. h[k - 1] \in Good(k - 1)
      BY <2>3
    <3>3. Step(h[k - 1], k) \in Good(k)
      <4> HIDE DEF Good, T
      <4> QED BY <1>3, <3>1, <3>2
    <3>4. h[k] = Step(h[k - 1], k)
      <4>1. h[k - 1] \in PlanOf /\ Step(h[k - 1], k) \in PlanOf
        BY <2>1, <3>1, <3>3
      <4>2. G[<<h[k - 1], k>>] = Step(h[k - 1], k)
        <5>1. <<h[k - 1], k>> \in PlanOf \X (1 .. n)
          BY <3>1, <4>1
        <5> QED BY <4>1, <5>1
      <4> HIDE DEF G
      <4> QED BY <2>1, <3>1, <4>2
    <3> HIDE DEF Good
    <3> QED BY <3>1, <3>3, <3>4
  <2> HIDE DEF T
  <2> QED BY <1>1, <2>2, <2>3, Upward
<1>7. Loop(h)
  <2>1. h \in [0 .. n -> PlanOf] /\ h[0] = start
    BY <1>5 DEF Computes
  <2>2. \A k \in 0 .. n : k # 0 => h[k] = Step(h[k - 1], k)
    <3> HIDE DEF Good
    <3> QED BY <1>6
  <2>3. \A k \in 0 .. n : h[k] = IF k = 0 THEN start ELSE Step(h[k - 1], k)
    BY <2>1, <2>2
  <2> QED BY <2>1, <2>3
<1>8. Loop(f)
  <2> HIDE DEF Loop
  <2> QED BY <1>7
<1> HIDE DEF f, G
<1>9. f[n] \in Good(n)
  <2> DEFINE U == {k \in 0 .. n : f[k] \in Good(k)}
  <2>1. 0 \in U
    <3>1. f[0] = start /\ 0 \in 0 .. n
      BY <1>1, <1>8
    <3> HIDE DEF Good
    <3> QED BY <1>2, <3>1
  <2>2. ASSUME NEW k \in 0 + 1 .. n, k - 1 \in U PROVE k \in U
    <3>1. k \in 1 .. n /\ k \in 0 .. n /\ k # 0
      BY <1>1
    <3>2. f[k] = Step(f[k - 1], k)
      BY <1>8, <3>1
    <3> HIDE DEF Good
    <3>3. f[k - 1] \in Good(k - 1)
      BY <2>2
    <3> QED BY <1>3, <3>1, <3>2, <3>3
  <2>3. \A k \in 0 .. n : k \in U
    <3> HIDE DEF U
    <3> QED BY <1>1, <2>1, <2>2, Upward
  <2>4. n \in 0 .. n
    BY <1>1
  <2> HIDE DEF Good
  <2> QED BY <2>3, <2>4
<1> QED BY <1>4, <1>9 DEF n

(* Every plan, whatever the items, the sizes of the pages and their number. *)
LEMMA PlanIsRight ==
  ASSUME NEW items \in Seq(PageItem), items # <<>>, NEW bytes \in Nat, NEW maxPages \in Nat \ {0}
  PROVE  PlanRight(items, bytes, maxPages)
<1> DEFINE planned == PlanRead(items, bytes, maxPages)
           pages == planned.pages
           n == Len(pages)
           count == UnitCount(items)
<1>1. Paginates(planned, items, bytes, maxPages, count) /\ count \in Nat /\ count # 0
  BY PlanReadRight, UnitsFacts
<1> HIDE DEF planned, count
<1>2. ASSUME planned.code = "none"
      PROVE  /\ n <= maxPages /\ pages[1].from = 0 /\ pages[n].to = count
             /\ \A i \in DOMAIN pages :
                  /\ pages[i].from < pages[i].to
                  /\ i > 1 => pages[i].from = pages[i - 1].to
                  /\ pages[i].complete <=> i = n
                  /\ PageFits(items, pages[i].from, pages[i].to, pages[i].complete, bytes)
  <2>1. /\ planned.at <= count /\ (planned.at = count \/ planned.at >= count)
        /\ n <= maxPages /\ Follow(pages, planned.at, items, bytes) /\ planned \in PlanOf
    BY <1>1, <1>2 DEF Paginates, count
  <2>2. planned.at \in Nat
    BY <2>1 DEF PlanOf
  <2>3. planned.at = count
    BY <1>1, <2>1, <2>2
  <2> HIDE DEF pages, n
  <2>4. Follow(pages, count, items, bytes)
    BY <2>1, <2>3
  <2>5. pages # <<>>
    BY <1>1, <2>4 DEF Follow
  <2> QED BY <2>1, <2>4, <2>5 DEF Follow, n, count
<1>3. planned.code # "none" => ~ Divisible(items, bytes, maxPages)
  BY <1>1 DEF Paginates
<1> HIDE DEF pages, n
<1>4. IF planned.code # "none" THEN ~ Divisible(items, bytes, maxPages)
      ELSE /\ n <= maxPages /\ pages[1].from = 0 /\ pages[n].to = count
           /\ \A i \in DOMAIN pages :
                /\ pages[i].from < pages[i].to
                /\ i > 1 => pages[i].from = pages[i - 1].to
                /\ pages[i].complete <=> i = n
                /\ PageFits(items, pages[i].from, pages[i].to, pages[i].complete, bytes)
  BY <1>2, <1>3
<1> QED BY ONLY <1>4 DEF PlanRight, planned, pages, n, count

-------------------------------------------------------------------------------
(* The items of a read                                                     *)

(* Files of which a read can make items.                                   *)
Readable(F) == \A file \in F : file.size \in Nat /\ file.units \in Seq(Nat)

KindsOf(F) ==
  { file.open : file \in F } \cup { file.text : file \in F }
  \cup {"empty", "rows", "budget_exceeded", "unsupported_language", "parser_failed"}

ItemOf(F) == [kind : KindsOf(F), units : Seq(Nat) \ {<<>>}, warned : BOOLEAN]

BuiltOf(F) == [items : Seq(ItemOf(F)), code : {"none", "budget_exceeded"}, raw : Nat, kept : Nat]

NothingBuilt == [items |-> <<>>, code |-> "none", raw |-> 0, kept |-> 0]

(* What is made of one file when so much may still be read and kept.        *)
Got(file, outline, raw, left) == IF outline THEN OutlineItem(file, raw) ELSE SourceItem(file, raw, left)

LEMMA FailureTyped ==
  ASSUME NEW F, NEW code \in KindsOf(F)
  PROVE  Failure(code) \in ItemOf(F) /\ Failure(code).units = <<1>>
<1>1. <<1>> \in Seq(Nat) \ {<<>>}
  OBVIOUS
<1> HIDE DEF KindsOf
<1> QED BY <1>1 DEF Failure, Item, ItemOf

LEMMA ContentTyped ==
  ASSUME NEW F, NEW units \in Seq(Nat), NEW warned \in BOOLEAN
  PROVE  /\ Content(units, warned) \in ItemOf(F)
         /\ Content(units, warned).units = IF units = <<>> THEN <<1>> ELSE units
<1>1. <<1>> \in Seq(Nat) \ {<<>>} /\ "empty" \in KindsOf(F) /\ "rows" \in KindsOf(F)
  BY DEF KindsOf
<1> HIDE DEF KindsOf
<1> QED BY <1>1 DEF Content, Item, ItemOf

(* One file, with room for it or not.                                       *)
LEMMA GotTyped ==
  ASSUME NEW F, Readable(F), NEW file \in F, NEW outline \in BOOLEAN, NEW raw, NEW left
  PROVE  /\ Got(file, outline, raw, left).code \in {"none", "budget_exceeded"}
         /\ Got(file, outline, raw, left).raw \in Nat
         /\ Got(file, outline, raw, left).item \in ItemOf(F)
<1> DEFINE Fine(got) == got.code \in {"none", "budget_exceeded"} /\ got.raw \in Nat /\ got.item \in ItemOf(F)
<1>1. file.size \in Nat /\ file.units \in Seq(Nat) /\ <<>> \in Seq(Nat)
  BY DEF Readable
<1>2. /\ file.open \in KindsOf(F) /\ file.text \in KindsOf(F)
      /\ {"budget_exceeded", "unsupported_language", "parser_failed"} \subseteq KindsOf(F)
  BY DEF KindsOf
<1>3. \A item \in ItemOf(F), size \in Nat : Fine(As(item, size))
  BY DEF As
<1>4. Fine(Aborts("budget_exceeded"))
  <2>1. Failure("budget_exceeded") \in ItemOf(F)
    BY <1>2, FailureTyped
  <2> QED BY <2>1 DEF Aborts
<1>5. /\ Failure(file.open) \in ItemOf(F) /\ Failure(file.text) \in ItemOf(F)
      /\ Failure("unsupported_language") \in ItemOf(F) /\ Failure("parser_failed") \in ItemOf(F)
  BY <1>2, FailureTyped
<1>6. /\ Content(file.units, FALSE) \in ItemOf(F) /\ Content(<<>>, FALSE) \in ItemOf(F)
      /\ Content(file.units, file.parse = "partial") \in ItemOf(F)
  <2>1. (file.parse = "partial") \in BOOLEAN
    OBVIOUS
  <2> QED BY <1>1, <2>1, ContentTyped
<1> HIDE DEF Fine
<1>7. Fine(SourceItem(file, raw, left))
  BY <1>1, <1>3, <1>4, <1>5, <1>6 DEF SourceItem
<1>8. Fine(OutlineItem(file, raw))
  BY <1>1, <1>3, <1>4, <1>5, <1>6 DEF OutlineItem
<1>9. Fine(Got(file, outline, raw, left))
  BY <1>7, <1>8 DEF Got
<1> QED BY <1>9 DEF Fine

(* The units that a file keeps when nothing stops it.                       *)
FitsIn(got, left) == got.code = "none" /\ Len(got.item.units) <= left

(* With less room a file yields the same, or nothing.                       *)
LEMMA GotRight ==
  ASSUME NEW F, Readable(F), NEW file \in F, NEW outline \in BOOLEAN, NEW raw \in Nat, NEW left \in Nat \ {0},
         NEW best, best = Got(file, outline, file.size, Len(file.units) + 1)
  PROVE  /\ best.code = "none" => FitsIn(best, Len(file.units) + 1) /\ best.raw = RawSize(file, outline)
         /\ FitsIn(Got(file, outline, raw, left), left) <=> (FitsIn(best, left) /\ RawSize(file, outline) <= raw)
         /\ FitsIn(Got(file, outline, raw, left), left) => Got(file, outline, raw, left) = best
<1> DEFINE got == Got(file, outline, raw, left)
           size == file.size
           n == Len(file.units)
           spent == RawSize(file, outline)
           Right == /\ best.code = "none" => FitsIn(best, n + 1) /\ best.raw = spent
                    /\ FitsIn(got, left) <=> (FitsIn(best, left) /\ spent <= raw)
                    /\ FitsIn(got, left) => got = best
<1> SUFFICES Right
  OBVIOUS
<1>1. size \in Nat /\ n \in Nat /\ file.units \in Seq(Nat) /\ Len(<<1>>) = 1 /\ (file.units = <<>> <=> n = 0)
  BY DEF Readable
<1>2. /\ \A item, r : As(item, r).code = "none" /\ As(item, r).raw = r /\ As(item, r).item = item
      /\ Aborts("budget_exceeded").code # "none"
  BY DEF As, Aborts
<1>9. Len(<<1>>) \in 1 .. n + 1 /\ (n # 0 => n \in 1 .. n + 1) /\ 0 <= raw
  <2> HIDE DEF n
  <2> QED BY <1>1
<1>3. \A code : Len(Failure(code).units) \in 1 .. n + 1
  <2> HIDE DEF n
  <2> TAKE code
  <2>1. Failure(code).units = <<1>>
    BY DEF Failure, Item
  <2> QED BY ONLY <1>9, <2>1
<1>4. /\ \A warned : Content(<<>>, warned).units = <<1>>
      /\ \A warned : Content(file.units, warned).units = IF n = 0 THEN <<1>> ELSE file.units
  BY <1>1 DEF Content, Item
<1>10. /\ \A warned : Len(Content(<<>>, warned).units) \in 1 .. n + 1
       /\ \A warned : /\ Len(Content(file.units, warned).units) \in 1 .. n + 1
                       /\ Len(Content(file.units, warned).units) >= n
  <2>1. \A warned : Len(Content(<<>>, warned).units) \in 1 .. n + 1
    <3> TAKE warned
    <3>1. Content(<<>>, warned).units = <<1>>
      BY <1>4
    <3> HIDE DEF n
    <3> QED BY ONLY <1>9, <3>1
  <2>2. ASSUME NEW warned
        PROVE  /\ Len(Content(file.units, warned).units) \in 1 .. n + 1
               /\ Len(Content(file.units, warned).units) >= n
    <3> DEFINE units == Content(file.units, warned).units
    <3>1. units = IF n = 0 THEN <<1>> ELSE file.units
      BY <1>4
    <3> HIDE DEF units
    <3>2. CASE n = 0
      <4>1. units = <<1>>
        BY <3>1, <3>2
      <4>2. Len(units) = 1
        BY ONLY <1>1, <4>1
      <4> HIDE DEF n
      <4> QED BY <1>1, <1>9, <3>2, <4>2 DEF units
    <3>3. CASE n # 0
      <4>1. units = file.units
        BY <3>1, <3>3
      <4>2. Len(units) = n
        BY <4>1
      <4> HIDE DEF n
      <4> QED BY <1>1, <1>9, <3>3, <4>2 DEF units
    <3> QED BY <3>2, <3>3
  <2> QED BY <2>1, <2>2
<1>5. ASSUME NEW item, NEW r \in Nat, Len(item.units) \in 1 .. n + 1, spent = r,
             best = As(item, r), r <= raw => (FitsIn(got, left) <=> FitsIn(best, left)) /\ (FitsIn(got, left) => got = best),
             ~ (r <= raw) => got = Aborts("budget_exceeded")
      PROVE  Right
  <2>3. best.code = "none" /\ best.raw = r /\ best.item = item
    <3>1. best = As(item, r)
      BY <1>5
    <3> QED BY ONLY <1>2, <3>1
  <2>4. Len(item.units) <= n + 1
    <3> HIDE DEF n
    <3> QED BY <1>1, <1>5
  <2>1. FitsIn(best, n + 1)
    BY <2>3, <2>4 DEF FitsIn
  <2>2. ~ (r <= raw) => ~ FitsIn(got, left)
    BY <1>2, <1>5 DEF FitsIn
  <2> HIDE DEF got, spent, n
  <2> QED BY <1>5, <2>1, <2>2, <2>3
<1> HIDE DEF Right
<1>6. CASE ~ outline
  <2>1. /\ best = SourceItem(file, size, n + 1) /\ got = SourceItem(file, raw, left)
        /\ spent = IF file.open # "none" THEN 0 ELSE size
    BY <1>6 DEF Got, RawSize
  <2> HIDE DEF got, spent, size, n
  <2>2. ~ (size > size) /\ ~ (n > n + 1) /\ (size > raw <=> ~ (size <= raw))
    BY <1>1
  <2>3. CASE file.open # "none"
    <3>1. best = As(Failure(file.open), 0) /\ got = best /\ spent = 0
      BY <2>1, <2>3 DEF SourceItem
    <3>2. Len(Failure(file.open).units) \in 1 .. n + 1 /\ 0 <= raw
      BY <1>3, <1>9
    <3> QED BY <1>5, <3>1, <3>2
  <2>4. CASE file.open = "none" /\ file.text # "none"
    <3>1. best = As(Failure(file.text), size) /\ spent = size /\ got = IF size > raw THEN Aborts("budget_exceeded") ELSE best
      BY <2>1, <2>2, <2>4 DEF SourceItem, size
    <3>2. Len(Failure(file.text).units) \in 1 .. n + 1
      BY <1>3
    <3> QED BY <1>1, <1>5, <2>2, <3>1, <3>2
  <2>5. CASE file.open = "none" /\ file.text = "none"
    <3>1. /\ best = As(Content(file.units, FALSE), size) /\ spent = size
          /\ got = IF size > raw \/ n > left THEN Aborts("budget_exceeded") ELSE best
      BY <2>1, <2>2, <2>5 DEF SourceItem, size, n
    <3>3. Len(Content(file.units, FALSE).units) \in 1 .. n + 1 /\ Len(Content(file.units, FALSE).units) >= n
      BY <1>10
    <3>4. n > left => ~ FitsIn(got, left) /\ ~ FitsIn(best, left)
      <4> SUFFICES ASSUME n > left PROVE ~ FitsIn(got, left) /\ ~ FitsIn(best, left)
        OBVIOUS
      <4>1. ~ FitsIn(got, left)
        BY <1>2, <3>1 DEF FitsIn
      <4>2. ~ (Len(Content(file.units, FALSE).units) <= left)
        <5> DEFINE l == Len(Content(file.units, FALSE).units)
        <5>1. l \in 1 .. n + 1 /\ l >= n /\ n \in Nat /\ n > left
          BY <1>1, <3>3
        <5> HIDE DEF l
        <5>2. ~ (l <= left)
          BY ONLY <5>1, left \in Nat \ {0}
        <5> QED BY <5>2 DEF l
      <4>3. best.item = Content(file.units, FALSE)
        BY <1>2, <3>1
      <4> QED BY <4>1, <4>2, <4>3 DEF FitsIn
    <3>5. size <= raw => (FitsIn(got, left) <=> FitsIn(best, left)) /\ (FitsIn(got, left) => got = best)
      BY <2>2, <3>1, <3>4
    <3>6. ~ (size <= raw) => got = Aborts("budget_exceeded")
      BY <2>2, <3>1
    <3> QED BY <1>1, <1>5, <3>1, <3>3, <3>5, <3>6
  <2> QED BY <2>3, <2>4, <2>5
<1>7. CASE outline
  <2>1. /\ best = OutlineItem(file, size) /\ got = OutlineItem(file, raw)
        /\ spent = IF file.open # "none" \/ ~ file.coded THEN 0 ELSE size
    BY <1>7 DEF Got, RawSize
  <2> HIDE DEF got, spent, size, n
  <2>2. ~ (size > size) /\ (size > raw <=> ~ (size <= raw)) /\ 0 <= raw
    BY <1>1
  <2>3. CASE file.open # "none"
    <3>1. best = As(Failure(file.open), 0) /\ got = best /\ spent = 0
      BY <2>1, <2>3 DEF OutlineItem
    <3>2. Len(Failure(file.open).units) \in 1 .. n + 1
      BY <1>3
    <3> QED BY <1>5, <2>2, <3>1, <3>2
  <2>4. CASE file.open = "none" /\ ~ file.coded
    <3>1. best = As(Failure("unsupported_language"), 0) /\ got = best /\ spent = 0
      BY <2>1, <2>4 DEF OutlineItem
    <3>2. Len(Failure("unsupported_language").units) \in 1 .. n + 1
      BY <1>3
    <3> QED BY <1>5, <2>2, <3>1, <3>2
  <2>5. CASE file.open = "none" /\ file.coded
    <3> DEFINE item == IF file.text # "none" THEN Failure(file.text)
                       ELSE IF size = 0 THEN Content(<<>>, FALSE)
                       ELSE IF file.parse = "failed" THEN Failure("parser_failed")
                       ELSE Content(file.units, file.parse = "partial")
               stopped == file.text = "none" /\ size # 0 /\ file.parse = "aborted"
    <3>1. /\ spent = size
          /\ best = IF stopped THEN Aborts("budget_exceeded") ELSE As(item, size)
          /\ got = IF size > raw \/ stopped THEN Aborts("budget_exceeded") ELSE As(item, size)
      BY <2>1, <2>2, <2>5 DEF OutlineItem, size
    <3>2. Len(item.units) \in 1 .. n + 1
      <4> QED BY <1>3, <1>10
    <3> HIDE DEF item, stopped
    <3>5. size <= raw \/ ~ (size <= raw)
      OBVIOUS
    <3>3. CASE stopped
      <4>1. best = Aborts("budget_exceeded") /\ got = best
        BY <3>1, <3>3
      <4>2. best.code # "none" /\ ~ FitsIn(best, left) /\ ~ FitsIn(got, left)
        BY <1>2, <4>1 DEF FitsIn
      <4> QED BY <4>2 DEF Right
    <3>4. CASE ~ stopped
      <4>1. best = As(item, size) /\ got = IF size > raw THEN Aborts("budget_exceeded") ELSE best
        BY <3>1, <3>4
      <4> QED BY <1>1, <1>5, <2>2, <3>1, <3>2, <4>1
    <3> QED BY <3>3, <3>4
  <2> QED BY <2>3, <2>4, <2>5
<1> QED BY <1>6, <1>7

LEMMA NextItemTyped ==
  ASSUME NEW F, Readable(F), NEW file \in F, NEW outline \in BOOLEAN, NEW raw \in Nat, NEW room \in Nat,
         NEW built \in BuiltOf(F)
  PROVE  NextItem(built, file, outline, raw, room) \in BuiltOf(F)
<1> DEFINE left == room - built.kept
           inner == Got(file, outline, raw - built.raw, left)
           got == IF left <= 0 THEN Aborts("budget_exceeded") ELSE inner
           r == NextItem(built, file, outline, raw, room)
<1>1. /\ built.items \in Seq(ItemOf(F)) /\ built.raw \in Nat /\ built.kept \in Nat /\ built.code \in {"none", "budget_exceeded"}
      /\ left \in Int
  BY DEF BuiltOf
<1>2. inner.code \in {"none", "budget_exceeded"} /\ inner.raw \in Nat /\ inner.item \in ItemOf(F)
  BY GotTyped
<1>3. Aborts("budget_exceeded").code = "budget_exceeded"
  BY DEF Aborts
<1>4. r = IF built.code # "none" THEN built
          ELSE IF got.code # "none" THEN [built EXCEPT !.code = got.code]
          ELSE IF Len(got.item.units) > left THEN [built EXCEPT !.code = "budget_exceeded"]
          ELSE [built EXCEPT !.items = Append(@, got.item), !.raw = @ + got.raw, !.kept = @ + Len(got.item.units)]
  BY DEF NextItem, Got
<1>5. got.code \in {"none", "budget_exceeded"} /\ (got.code = "none" => got = inner)
  <2> HIDE DEF inner, left
  <2> QED BY <1>2, <1>3
<1> HIDE DEF r, got, inner, left
<1>6. CASE built.code # "none"
  BY <1>4, <1>6 DEF r
<1>7. CASE built.code = "none" /\ (got.code # "none" \/ Len(got.item.units) > left)
  <2>1. r = [built EXCEPT !.code = got.code] \/ r = [built EXCEPT !.code = "budget_exceeded"]
    BY <1>4, <1>7
  <2>2. r \in BuiltOf(F)
    BY <1>5, <2>1 DEF BuiltOf
  <2> QED BY <2>2 DEF r
<1>8. CASE built.code = "none" /\ got.code = "none" /\ ~ (Len(got.item.units) > left)
  <2> DEFINE items == Append(built.items, got.item)
             spent == built.raw + got.raw
             kept == built.kept + Len(got.item.units)
  <2>1. r = [built EXCEPT !.items = items, !.raw = spent, !.kept = kept]
    BY <1>4, <1>8
  <2>2. got.item \in ItemOf(F) /\ got.raw \in Nat
    BY <1>2, <1>5, <1>8
  <2>3. got.item.units \in Seq(Nat)
    BY <2>2 DEF ItemOf
  <2>4. items \in Seq(ItemOf(F)) /\ spent \in Nat /\ kept \in Nat
    BY <1>1, <2>2, <2>3
  <2> HIDE DEF items, spent, kept
  <2>5. r \in BuiltOf(F)
    BY <2>1, <2>4 DEF BuiltOf
  <2> QED BY <2>5 DEF r
<1> QED BY <1>5, <1>6, <1>7, <1>8

LEMMA NextItemRight ==
  ASSUME NEW F, Readable(F), NEW file \in F, NEW outline \in BOOLEAN, NEW raw \in Nat, NEW room \in Nat,
         NEW built \in BuiltOf(F), built.code = "none", built.raw <= raw, built.kept <= room,
         NEW best, best = Got(file, outline, file.size, Len(file.units) + 1),
         NEW r, r = NextItem(built, file, outline, raw, room)
  PROVE  IF best.code = "none" /\ built.raw + RawSize(file, outline) <= raw /\ built.kept + Len(best.item.units) <= room
           THEN /\ r.code = "none" /\ r.items = Append(built.items, best.item)
                /\ r.raw = built.raw + RawSize(file, outline) /\ r.kept = built.kept + Len(best.item.units)
         ELSE r.code # "none"
<1> DEFINE left == room - built.kept
           inner == Got(file, outline, raw - built.raw, left)
           got == IF left <= 0 THEN Aborts("budget_exceeded") ELSE inner
           spent == RawSize(file, outline)
           size == Len(best.item.units)
<1>1. built.raw \in Nat /\ built.kept \in Nat /\ left \in Nat /\ raw - built.raw \in Nat
  BY DEF BuiltOf
<1>2. /\ best.code \in {"none", "budget_exceeded"} /\ best.item.units \in Seq(Nat) /\ size \in Nat /\ size # 0 /\ best.raw \in Nat
  <2>1. best.code \in {"none", "budget_exceeded"} /\ best.item \in ItemOf(F) /\ best.raw \in Nat
    BY GotTyped
  <2>2. best.item.units \in Seq(Nat) \ {<<>>}
    BY <2>1 DEF ItemOf
  <2>3. size \in Nat /\ size # 0
    BY <2>2
  <2> QED BY <2>1, <2>2, <2>3
<1>3. spent \in Nat
  BY DEF RawSize, Readable
<1>4. r = IF got.code # "none" THEN [built EXCEPT !.code = got.code]
          ELSE IF Len(got.item.units) > left THEN [built EXCEPT !.code = "budget_exceeded"]
          ELSE [built EXCEPT !.items = Append(@, got.item), !.raw = @ + got.raw, !.kept = @ + Len(got.item.units)]
  BY DEF NextItem, Got
<1>5. best.code = "none" => best.raw = spent
  <2>1. file.size \in Nat /\ Len(file.units) + 1 \in Nat \ {0}
    BY DEF Readable
  <2> HIDE DEF spent
  <2> QED BY <2>1, GotRight DEF spent
<1>6. /\ got.code = "none" => left # 0 /\ got = inner
      /\ left # 0 => got = inner
      /\ left = 0 => got.code # "none"
  <2>1. Aborts("budget_exceeded").code # "none"
    BY DEF Aborts
  <2> HIDE DEF inner, left
  <2> QED BY <1>1, <2>1
<1>7. left # 0 => /\ FitsIn(inner, left) <=> (FitsIn(best, left) /\ spent <= raw - built.raw)
                  /\ FitsIn(inner, left) => inner = best
  <2> SUFFICES ASSUME left # 0
               PROVE  /\ FitsIn(inner, left) <=> (FitsIn(best, left) /\ spent <= raw - built.raw)
                      /\ FitsIn(inner, left) => inner = best
    OBVIOUS
  <2> DEFINE more == raw - built.raw
  <2>1. left \in Nat \ {0} /\ more \in Nat
    BY <1>1
  <2> HIDE DEF left, more, spent
  <2>2. /\ FitsIn(Got(file, outline, more, left), left) <=> (FitsIn(best, left) /\ RawSize(file, outline) <= more)
        /\ FitsIn(Got(file, outline, more, left), left) => Got(file, outline, more, left) = best
    BY <2>1, GotRight
  <2> QED BY <2>2 DEF more, spent
<1>8. (best.code = "none" /\ built.raw + spent <= raw /\ built.kept + size <= room)
        <=> (left # 0 /\ FitsIn(best, left) /\ spent <= raw - built.raw)
  <2>1. built.raw + spent <= raw <=> spent <= raw - built.raw
    <3> HIDE DEF spent
    <3> QED BY <1>1, <1>3
  <2>2. built.kept + size <= room <=> size <= left
    <3> HIDE DEF size
    <3> QED BY <1>1, <1>2
  <2>3. size <= left => left # 0
    <3> HIDE DEF size, left
    <3> QED BY <1>1, <1>2
  <2>4. FitsIn(best, left) <=> best.code = "none" /\ size <= left
    BY DEF FitsIn
  <2> HIDE DEF size, left, spent
  <2> QED BY <2>1, <2>2, <2>3, <2>4
<1> HIDE DEF got, inner, spent
<1>9. CASE left # 0 /\ FitsIn(best, left) /\ spent <= raw - built.raw
  <2>1. got = best /\ best.code = "none" /\ ~ (size > left) /\ got.raw = spent
    <3>1. got = best /\ FitsIn(best, left)
      BY <1>6, <1>7, <1>9
    <3>2. best.code = "none" /\ size <= left
      BY <3>1 DEF FitsIn
    <3>3. ~ (size > left)
      <4> HIDE DEF size, left
      <4> QED BY <1>1, <1>2, <3>2
    <3> QED BY <1>5, <3>1, <3>2, <3>3
  <2>2. r = [built EXCEPT !.items = Append(@, best.item), !.raw = @ + spent, !.kept = @ + size]
    BY <1>4, <2>1
  <2>3. /\ r.code = "none" /\ r.items = Append(built.items, best.item)
        /\ r.raw = built.raw + spent /\ r.kept = built.kept + size
    <3> HIDE DEF size
    <3> QED BY <2>2 DEF BuiltOf
  <2> HIDE DEF size, left
  <2> QED BY <1>8, <1>9, <2>3 DEF size, spent
<1>10. CASE ~ (left # 0 /\ FitsIn(best, left) /\ spent <= raw - built.raw)
  <2>1. ~ (got.code = "none" /\ ~ (Len(got.item.units) > left))
    <3> SUFFICES ASSUME got.code = "none", ~ (Len(got.item.units) > left) PROVE FALSE
      OBVIOUS
    <3>1. left # 0 /\ got = inner
      BY <1>6
    <3>2. inner.item \in ItemOf(F)
      BY GotTyped DEF inner
    <3>3. Len(inner.item.units) \in Nat
      BY <3>2 DEF ItemOf
    <3>4. Len(inner.item.units) <= left
      <4>1. ~ (Len(inner.item.units) > left)
        BY <3>1
      <4> HIDE DEF left
      <4> QED BY <1>1, <3>3, <4>1
    <3>5. FitsIn(inner, left)
      BY <3>1, <3>4 DEF FitsIn
    <3> QED BY <1>7, <1>10, <3>1, <3>5
  <2>2. r.code # "none"
    <3>1. (r = [built EXCEPT !.code = got.code] /\ got.code # "none") \/ r = [built EXCEPT !.code = "budget_exceeded"]
      BY <1>4, <2>1
    <3> QED BY <3>1 DEF BuiltOf
  <2> HIDE DEF size, left
  <2> QED BY <1>8, <1>10, <2>2 DEF size, spent
<1> QED BY <1>9, <1>10

(* What is built after each of the files.                                   *)
Builds(f, F, files, outline, raw, room) ==
  /\ f \in [0 .. Len(files) -> BuiltOf(F)]
  /\ f[0] = NothingBuilt /\ Built(files, outline, raw, room) = f[Len(files)]
  /\ \A k \in 1 .. Len(files) : f[k] = NextItem(f[k - 1], files[k], outline, raw, room)

LEMMA BuiltSteps ==
  ASSUME NEW F, Readable(F), NEW files \in Seq(F), NEW outline \in BOOLEAN, NEW raw \in Nat, NEW room \in Nat
  PROVE  \E f : Builds(f, F, files, outline, raw, room)
<1> DEFINE n == Len(files)
           Step(built, k) == NextItem(built, files[k], outline, raw, room)
           G == [p \in BuiltOf(F) \X (1 .. n) |-> Step(p[1], p[2])]
           Loop(h) == h = [k \in 0 .. n |-> IF k = 0 THEN NothingBuilt ELSE Step(h[k - 1], k)]
           f == CHOOSE h : Loop(h)
<1>1. n \in Nat
  OBVIOUS
<1>2. NothingBuilt \in BuiltOf(F)
  <2>1. <<>> \in Seq(ItemOf(F))
    OBVIOUS
  <2> QED BY <2>1 DEF NothingBuilt, BuiltOf
<1>3. \A built \in BuiltOf(F), k \in 1 .. n : Step(built, k) \in BuiltOf(F)
  <2> TAKE built \in BuiltOf(F), k \in 1 .. n
  <2>1. files[k] \in F
    OBVIOUS
  <2> QED BY <2>1, NextItemTyped
<1> HIDE DEF Step, n, NothingBuilt
<1>4. Built(files, outline, raw, room) = f[n]
  BY DEF Built, Looped, Step, n, NothingBuilt
<1>5. PICK h : Computes(n, BuiltOf(F), NothingBuilt, G, h)
  <2>1. G \in [BuiltOf(F) \X (1 .. n) -> BuiltOf(F)]
    BY <1>3
  <2> HIDE DEF G
  <2> QED BY <1>1, <1>2, <2>1, Recursion
<1>6. /\ h \in [0 .. n -> BuiltOf(F)] /\ h[0] = NothingBuilt
      /\ \A k \in 1 .. n : h[k] = Step(h[k - 1], k)
  <2>1. h \in [0 .. n -> BuiltOf(F)] /\ h[0] = NothingBuilt /\ \A k \in 1 .. n : h[k] = G[<<h[k - 1], k>>]
    BY <1>5 DEF Computes
  <2>2. \A k \in 1 .. n : <<h[k - 1], k>> \in BuiltOf(F) \X (1 .. n)
    <3> TAKE k \in 1 .. n
    <3>1. k - 1 \in 0 .. n
      BY <1>1
    <3> QED BY <2>1, <3>1
  <2> QED BY <2>1, <2>2
<1>7. Loop(h)
  <2>1. \A k \in 0 .. n : k # 0 => k \in 1 .. n
    BY <1>1
  <2>2. \A k \in 0 .. n : h[k] = IF k = 0 THEN NothingBuilt ELSE Step(h[k - 1], k)
    BY <1>6, <2>1
  <2> QED BY <1>6, <2>2
<1>8. Loop(f)
  <2> HIDE DEF Loop
  <2> QED BY <1>7
<1> HIDE DEF f, G
<1>9. f[0] = NothingBuilt /\ \A k \in 1 .. n : f[k] = Step(f[k - 1], k)
  <2>1. 0 \in 0 .. n /\ \A k \in 1 .. n : k \in 0 .. n /\ k # 0
    BY <1>1
  <2> QED BY <1>8, <2>1
<1>10. \A k \in 0 .. n : f[k] \in BuiltOf(F)
  <2> DEFINE U == {k \in 0 .. n : f[k] \in BuiltOf(F)}
  <2>1. 0 \in U
    BY <1>1, <1>2, <1>9
  <2>2. ASSUME NEW k \in 0 + 1 .. n, k - 1 \in U PROVE k \in U
    <3>1. k \in 1 .. n /\ k \in 0 .. n
      BY <1>1
    <3> QED BY <1>3, <1>9, <2>2, <3>1
  <2>3. \A k \in 0 .. n : k \in U
    <3> HIDE DEF U
    <3> QED BY <1>1, <2>1, <2>2, Upward
  <2> QED BY <2>3
<1>11. f \in [0 .. n -> BuiltOf(F)]
  BY <1>8, <1>10
<1> QED BY <1>4, <1>9, <1>11 DEF Step, n, Builds

(* What a read of the file alone gives.                                     *)
LEMMA AloneRight ==
  ASSUME NEW F, Readable(F), NEW file \in F, NEW outline \in BOOLEAN,
         NEW best, best = Got(file, outline, file.size, Len(file.units) + 1)
  PROVE  /\ Alone(file, outline) \in BuiltOf(F)
         /\ IF best.code = "none"
              THEN /\ Alone(file, outline).code = "none" /\ Alone(file, outline).items = <<best.item>>
                   /\ Alone(file, outline).kept = Len(best.item.units)
            ELSE Alone(file, outline).code # "none"
<1> DEFINE room == Len(file.units) + 1
           size == file.size
           alone == Alone(file, outline)
<1>1. size \in Nat /\ room \in Nat \ {0} /\ RawSize(file, outline) \in Nat /\ RawSize(file, outline) <= size
  BY DEF Readable, RawSize
<1>2. <<file>> \in Seq(F) /\ Len(<<file>>) = 1 /\ <<file>>[1] = file
  OBVIOUS
<1>3. best = Got(file, outline, size, room)
  OBVIOUS
<1>4. alone = Built(<<file>>, outline, size, room)
  BY DEF Alone
<1>5. best.code = "none" => Len(best.item.units) <= room
  <2>1. best.code = "none" => FitsIn(best, Len(file.units) + 1)
    BY <1>1, GotRight
  <2> QED BY <2>1 DEF FitsIn
<1>6. best.item.units \in Seq(Nat) /\ Len(best.item.units) \in Nat
  <2>1. best.item \in ItemOf(F)
    BY GotTyped
  <2>2. best.item.units \in Seq(Nat)
    BY <2>1 DEF ItemOf
  <2> QED BY <2>2
<1> HIDE DEF room, size, alone
<1>7. PICK f \in [0 .. 1 -> BuiltOf(F)] :
        /\ f[0] = NothingBuilt /\ alone = f[1]
        /\ \A k \in 1 .. 1 : f[k] = NextItem(f[k - 1], <<file>>[k], outline, size, room)
  <2>1. PICK f \in [0 .. Len(<<file>>) -> BuiltOf(F)] :
          /\ f[0] = NothingBuilt /\ Built(<<file>>, outline, size, room) = f[Len(<<file>>)]
          /\ \A k \in 1 .. Len(<<file>>) : f[k] = NextItem(f[k - 1], <<file>>[k], outline, size, room)
    <3> DEFINE files == <<file>>
    <3>1. files \in Seq(F) /\ size \in Nat /\ room \in Nat
      BY <1>1, <1>2
    <3> HIDE DEF files
    <3>2. \E f : Builds(f, F, files, outline, size, room)
      BY ONLY <3>1, Readable(F), outline \in BOOLEAN, BuiltSteps
    <3> QED BY <3>2 DEF files, Builds
  <2> QED BY <1>2, <1>4, <2>1
<1>8. alone \in BuiltOf(F) /\ alone = NextItem(NothingBuilt, file, outline, size, room) /\ NothingBuilt \in BuiltOf(F)
  <2>1. 1 \in 1 .. 1 /\ 1 - 1 = 0 /\ 0 \in 0 .. 1 /\ 1 \in 0 .. 1
    OBVIOUS
  <2> QED BY <1>2, <1>7, <2>1
<1>9. NothingBuilt.code = "none" /\ NothingBuilt.raw = 0 /\ NothingBuilt.kept = 0 /\ NothingBuilt.items = <<>>
  BY DEF NothingBuilt
<1>10. NothingBuilt.raw <= size /\ NothingBuilt.kept <= room
  BY <1>1, <1>9
<1>11. IF best.code = "none" /\ NothingBuilt.raw + RawSize(file, outline) <= size
            /\ NothingBuilt.kept + Len(best.item.units) <= room
         THEN /\ alone.code = "none" /\ alone.items = Append(NothingBuilt.items, best.item)
              /\ alone.kept = NothingBuilt.kept + Len(best.item.units)
       ELSE alone.code # "none"
  <2>1. room \in Nat /\ best = Got(file, outline, file.size, Len(file.units) + 1)
    BY <1>1
  <2> QED BY <1>1, <1>8, <1>9, <1>10, <2>1, NextItemRight
<1>12. Append(NothingBuilt.items, best.item) = <<best.item>>
  BY <1>9
<1>13. IF best.code = "none"
         THEN alone.code = "none" /\ alone.items = <<best.item>> /\ alone.kept = Len(best.item.units)
       ELSE alone.code # "none"
  <2>1. NothingBuilt.raw + RawSize(file, outline) = RawSize(file, outline)
        /\ NothingBuilt.kept + Len(best.item.units) = Len(best.item.units)
    BY <1>1, <1>6, <1>9
  <2> QED BY ONLY <1>1, <1>5, <1>11, <1>12, <2>1
<1> QED BY <1>8, <1>13 DEF alone

(* The files read so far have read and kept so much.                        *)
Summed(f, k) == SumOver(f, 1 .. k)

LEMMA SummedFacts ==
  ASSUME NEW n \in Nat, NEW f, \A i \in 1 .. n : f[i] \in Nat
  PROVE  /\ \A k \in 0 .. n : Summed(f, k) \in Nat
         /\ Summed(f, 0) = 0
         /\ \A k \in 1 .. n : Summed(f, k) = Summed(f, k - 1) + f[k]
<1>1. \A k \in 0 .. n : IsFiniteSet(1 .. k) /\ \A i \in 1 .. k : f[i] \in Nat
  BY FS_Interval
<1>2. \A k \in 0 .. n : SumOver(f, 1 .. k) \in Nat
  BY <1>1, SumFacts
<1>3. SumOver(f, 1 .. 0) = 0
  <2>1. 1 .. 0 = {}
    OBVIOUS
  <2> QED BY <2>1, FS_EmptySet, SumUnfolds
<1>4. ASSUME NEW k \in 1 .. n PROVE SumOver(f, 1 .. k) = SumOver(f, 1 .. k - 1) + f[k]
  <2>1. k \in 0 .. n /\ k - 1 \in 0 .. n /\ k \in 1 .. k
    OBVIOUS
  <2>2. (1 .. k) \ {k} = 1 .. k - 1
    OBVIOUS
  <2>3. SumOver(f, 1 .. k) = f[k] + SumOver(f, 1 .. k - 1)
    <3>1. \A x \in 1 .. k : SumOver(f, 1 .. k) = f[x] + SumOver(f, (1 .. k) \ {x})
      BY <1>1, <2>1, SumFacts
    <3> QED BY <2>1, <2>2, <3>1
  <2>4. f[k] \in Nat /\ SumOver(f, 1 .. k - 1) \in Nat
    BY <1>2, <2>1
  <2> QED BY <2>3, <2>4
<1> QED BY <1>2, <1>3, <1>4 DEF Summed

LEMMA FailureStays ==
  ASSUME NEW built, built.code # "none", NEW file, NEW outline, NEW raw, NEW room
  PROVE  NextItem(built, file, outline, raw, room) = built
BY DEF NextItem

(* The files before the k-th read and keep no more than they may, and none of *)
(* them stops a parser.                                                      *)
Affords(raws, kepts, stops, k, raw, room) ==
  Summed(raws, k) <= raw /\ Summed(kepts, k) <= room /\ \A i \in 1 .. k : ~ stops[i]

LEMMA AffordsFacts ==
  ASSUME NEW n \in Nat, NEW raws, NEW kepts, NEW stops, NEW raw \in Nat, NEW room \in Nat,
         \A i \in 1 .. n : raws[i] \in Nat /\ kepts[i] \in Nat
  PROVE  /\ Affords(raws, kepts, stops, 0, raw, room)
         /\ \A k \in 1 .. n :
              Affords(raws, kepts, stops, k, raw, room)
                <=> (/\ Affords(raws, kepts, stops, k - 1, raw, room) /\ ~ stops[k]
                     /\ Summed(raws, k - 1) + raws[k] <= raw /\ Summed(kepts, k - 1) + kepts[k] <= room)
<1>1. /\ \A k \in 0 .. n : Summed(raws, k) \in Nat
      /\ Summed(raws, 0) = 0
      /\ \A k \in 1 .. n : Summed(raws, k) = Summed(raws, k - 1) + raws[k]
  BY SummedFacts
<1>2. /\ \A k \in 0 .. n : Summed(kepts, k) \in Nat
      /\ Summed(kepts, 0) = 0
      /\ \A k \in 1 .. n : Summed(kepts, k) = Summed(kepts, k - 1) + kepts[k]
  BY SummedFacts
<1>3. Affords(raws, kepts, stops, 0, raw, room)
  BY <1>1, <1>2 DEF Affords
<1>4. ASSUME NEW k \in 1 .. n
      PROVE  Affords(raws, kepts, stops, k, raw, room)
                <=> (/\ Affords(raws, kepts, stops, k - 1, raw, room) /\ ~ stops[k]
                     /\ Summed(raws, k - 1) + raws[k] <= raw /\ Summed(kepts, k - 1) + kepts[k] <= room)
  <2>1. k - 1 \in 0 .. n /\ raws[k] \in Nat /\ kepts[k] \in Nat
    OBVIOUS
  <2>2. Summed(raws, k) <= raw <=> Summed(raws, k - 1) <= raw /\ Summed(raws, k - 1) + raws[k] <= raw
    BY <1>1, <2>1
  <2>3. Summed(kepts, k) <= room <=> Summed(kepts, k - 1) <= room /\ Summed(kepts, k - 1) + kepts[k] <= room
    BY <1>2, <2>1
  <2>4. (\A i \in 1 .. k : ~ stops[i]) <=> (\A i \in 1 .. k - 1 : ~ stops[i]) /\ ~ stops[k]
    <3>1. \A i : i \in 1 .. k <=> i \in 1 .. k - 1 \/ i = k
      OBVIOUS
    <3> QED BY <3>1
  <2>5. Summed(raws, k) = Summed(raws, k - 1) + raws[k] /\ Summed(kepts, k) = Summed(kepts, k - 1) + kepts[k]
    BY <1>1, <1>2
  <2> QED BY <2>2, <2>3, <2>4, <2>5 DEF Affords
<1> QED BY <1>3, <1>4

(* One file more: it is as it would be alone, or nothing is shown.          *)
Adds(r, built, alone, spent, raw, room) ==
  IF alone.code = "none" /\ built.raw + spent <= raw /\ built.kept + alone.kept <= room
    THEN /\ r.code = "none" /\ r.items = Append(built.items, alone.items[1])
         /\ r.raw = built.raw + spent /\ r.kept = built.kept + alone.kept
  ELSE r.code # "none"

LEMMA OneMore ==
  ASSUME NEW F, Readable(F), NEW file \in F, NEW outline \in BOOLEAN, NEW raw \in Nat, NEW room \in Nat,
         NEW built \in BuiltOf(F), built.code = "none", built.raw <= raw, built.kept <= room,
         NEW alone, alone = Alone(file, outline),
         NEW r, r = NextItem(built, file, outline, raw, room)
  PROVE  Adds(r, built, alone, RawSize(file, outline), raw, room)
<1> DEFINE best == Got(file, outline, file.size, Len(file.units) + 1)
           spent == RawSize(file, outline)
<1>1. /\ alone \in BuiltOf(F)
      /\ IF best.code = "none"
           THEN alone.code = "none" /\ alone.items = <<best.item>> /\ alone.kept = Len(best.item.units)
         ELSE alone.code # "none"
  BY AloneRight
<1>2. IF best.code = "none" /\ built.raw + spent <= raw /\ built.kept + Len(best.item.units) <= room
        THEN /\ r.code = "none" /\ r.items = Append(built.items, best.item)
             /\ r.raw = built.raw + spent /\ r.kept = built.kept + Len(best.item.units)
      ELSE r.code # "none"
  <2> HIDE DEF best
  <2>1. best = Got(file, outline, file.size, Len(file.units) + 1)
    BY DEF best
  <2> QED BY <2>1, NextItemRight
<1> HIDE DEF best, spent
<1>3. alone.items = <<best.item>> => alone.items[1] = best.item
  OBVIOUS
<1>4. IF alone.code = "none" /\ built.raw + spent <= raw /\ built.kept + alone.kept <= room
        THEN /\ r.code = "none" /\ r.items = Append(built.items, alone.items[1])
             /\ r.raw = built.raw + spent /\ r.kept = built.kept + alone.kept
      ELSE r.code # "none"
  <2>1. CASE best.code = "none"
    BY ONLY <1>1, <1>2, <1>3, <2>1
  <2>2. CASE best.code # "none"
    BY ONLY <1>1, <1>2, <2>2
  <2> QED BY <2>1, <2>2
<1> QED BY <1>4 DEF spent, Adds

(* What has been built after k files.                                       *)
Goes(built, raws, kepts, stops, firsts, k, raw, room) ==
  IF Affords(raws, kepts, stops, k, raw, room)
    THEN /\ built.code = "none" /\ built.items = [i \in 1 .. k |-> firsts[i]]
         /\ built.raw = Summed(raws, k) /\ built.kept = Summed(kepts, k)
  ELSE built.code # "none"

LEMMA BuiltRight ==
  ASSUME NEW F, Readable(F), NEW files \in Seq(F), NEW outline \in BOOLEAN, NEW raw \in Nat, NEW room \in Nat,
         NEW raws, raws = [ i \in DOMAIN files |-> RawSize(files[i], outline) ],
         NEW kepts, kepts = [ i \in DOMAIN files |-> Alone(files[i], outline).kept ],
         NEW stops, stops = [ i \in DOMAIN files |-> Alone(files[i], outline).code # "none" ],
         NEW firsts, firsts = [ i \in DOMAIN files |-> Alone(files[i], outline).items[1] ]
  PROVE  Goes(Built(files, outline, raw, room), raws, kepts, stops, firsts, Len(files), raw, room)
<1> DEFINE n == Len(files)
<1>1. n \in Nat /\ DOMAIN files = 1 .. n /\ \A k \in 1 .. n : files[k] \in F
  OBVIOUS
<1>2. PICK f : Builds(f, F, files, outline, raw, room)
  BY BuiltSteps
<1>3. /\ f \in [0 .. n -> BuiltOf(F)]
      /\ f[0] = NothingBuilt /\ Built(files, outline, raw, room) = f[n]
      /\ \A k \in 1 .. n : f[k] = NextItem(f[k - 1], files[k], outline, raw, room)
  BY <1>2 DEF Builds
<1> HIDE DEF n
<1>4. \A k \in 1 .. n : raws[k] \in Nat /\ kepts[k] \in Nat
  <2> TAKE k \in 1 .. n
  <2>1. Alone(files[k], outline) \in BuiltOf(F) /\ files[k] \in F
    BY <1>1, AloneRight
  <2>2. RawSize(files[k], outline) \in Nat
    BY <2>1 DEF RawSize, Readable
  <2>3. Alone(files[k], outline).kept \in Nat
    BY <2>1 DEF BuiltOf
  <2> QED BY <1>1, <2>2, <2>3
<1>5. /\ Affords(raws, kepts, stops, 0, raw, room)
      /\ \A k \in 1 .. n :
           Affords(raws, kepts, stops, k, raw, room)
             <=> (/\ Affords(raws, kepts, stops, k - 1, raw, room) /\ ~ stops[k]
                  /\ Summed(raws, k - 1) + raws[k] <= raw /\ Summed(kepts, k - 1) + kepts[k] <= room)
  BY <1>1, <1>4, AffordsFacts
<1>6. /\ Summed(raws, 0) = 0 /\ Summed(kepts, 0) = 0
      /\ \A k \in 1 .. n : Summed(raws, k) = Summed(raws, k - 1) + raws[k]
      /\ \A k \in 1 .. n : Summed(kepts, k) = Summed(kepts, k - 1) + kepts[k]
  BY <1>1, <1>4, SummedFacts
<1> DEFINE U == {k \in 0 .. n : Goes(f[k], raws, kepts, stops, firsts, k, raw, room)}
<1>7. 0 \in U
  <2>1. Goes(NothingBuilt, raws, kepts, stops, firsts, 0, raw, room)
    <3>1. [i \in 1 .. 0 |-> firsts[i]] = <<>>
      OBVIOUS
    <3> QED BY <1>5, <1>6, <3>1 DEF Goes, NothingBuilt
  <2> QED BY <1>1, <1>3, <2>1
<1>8. ASSUME NEW k \in 0 + 1 .. n, k - 1 \in U PROVE k \in U
  <2>1. k \in 1 .. n /\ k \in 0 .. n /\ k - 1 \in 0 .. n /\ files[k] \in F
    BY <1>1
  <2> DEFINE built == f[k - 1]
             r == f[k]
             alone == Alone(files[k], outline)
             file == files[k]
  <2>2. built \in BuiltOf(F) /\ r = NextItem(built, file, outline, raw, room)
    BY <1>3, <2>1
  <2>3. Goes(built, raws, kepts, stops, firsts, k - 1, raw, room)
    BY <1>8
  <2>4. raws[k] = RawSize(file, outline) /\ kepts[k] = alone.kept /\ stops[k] = (alone.code # "none")
        /\ firsts[k] = alone.items[1] /\ raws[k] \in Nat /\ kepts[k] \in Nat
    BY <1>1, <1>4, <2>1
  <2>5. Affords(raws, kepts, stops, k, raw, room)
          <=> (/\ Affords(raws, kepts, stops, k - 1, raw, room) /\ ~ stops[k]
               /\ Summed(raws, k - 1) + raws[k] <= raw /\ Summed(kepts, k - 1) + kepts[k] <= room)
    BY <1>5, <2>1
  <2>6. Summed(raws, k) = Summed(raws, k - 1) + raws[k] /\ Summed(kepts, k) = Summed(kepts, k - 1) + kepts[k]
    BY <1>6, <2>1
  <2>7. alone = Alone(file, outline) /\ file \in F
    BY <2>1
  <2> HIDE DEF built, r, alone, file, U
  <2>8. Goes(r, raws, kepts, stops, firsts, k, raw, room)
    <3>1. CASE ~ Affords(raws, kepts, stops, k - 1, raw, room)
      <4>1. built.code # "none"
        BY <2>3, <3>1 DEF Goes
      <4>2. r = built
        BY <2>2, <4>1, FailureStays
      <4> QED BY <2>5, <3>1, <4>1, <4>2 DEF Goes
    <3>2. CASE Affords(raws, kepts, stops, k - 1, raw, room)
      <4>1. /\ built.code = "none" /\ built.items = [i \in 1 .. k - 1 |-> firsts[i]]
            /\ built.raw = Summed(raws, k - 1) /\ built.kept = Summed(kepts, k - 1)
        BY <2>3, <3>2 DEF Goes
      <4>2. built.raw <= raw /\ built.kept <= room
        BY <3>2, <4>1 DEF Affords
      <4>3. IF alone.code = "none" /\ built.raw + RawSize(file, outline) <= raw /\ built.kept + alone.kept <= room
              THEN /\ r.code = "none" /\ r.items = Append(built.items, alone.items[1])
                   /\ r.raw = built.raw + RawSize(file, outline) /\ r.kept = built.kept + alone.kept
            ELSE r.code # "none"
        <5>1. Adds(r, built, alone, RawSize(file, outline), raw, room)
          BY ONLY <2>2, <2>7, <4>1, <4>2, OneMore, Readable(F), outline \in BOOLEAN, raw \in Nat, room \in Nat
        <5> QED BY ONLY <5>1 DEF Adds
      <4>4. Append(built.items, firsts[k]) = [i \in 1 .. k |-> firsts[i]]
        <5> DEFINE p == [i \in 1 .. k - 1 |-> firsts[i]]
                   S == {firsts[i] : i \in 1 .. k}
        <5>1. p \in Seq(S) /\ Len(p) = k - 1 /\ \A i \in 1 .. k - 1 : p[i] = firsts[i]
          <6>1. p \in [1 .. k - 1 -> S] /\ k - 1 \in Nat
            BY <2>1
          <6>2. p \in Seq(S) /\ Len(p) = k - 1
            <7> HIDE DEF p, S
            <7> QED BY <6>1
          <6> QED BY <6>2
        <5>2. firsts[k] \in S
          BY <2>1
        <5> DEFINE q == Append(p, firsts[k])
                   w == [i \in 1 .. k |-> firsts[i]]
        <5> HIDE DEF p, S
        <5>3. q = w
          <6>1. DOMAIN q = 1 .. k /\ DOMAIN w = 1 .. k /\ q = [i \in DOMAIN q |-> q[i]]
            BY <2>1, <5>1, <5>2
          <6>2. \A i \in 1 .. k : q[i] = w[i]
            <7>1. \A i \in 1 .. k : w[i] = firsts[i]
              OBVIOUS
            <7>2. q[Len(p) + 1] = firsts[k] /\ \A i \in 1 .. Len(p) : q[i] = p[i]
              BY <5>1, <5>2, AppendProperties
            <7>3. Len(p) = k - 1 /\ Len(p) + 1 = k /\ \A i \in 1 .. k : i = k \/ i \in 1 .. k - 1
              BY <2>1, <5>1
            <7> HIDE DEF q, w
            <7>4. q[k] = firsts[k] /\ \A i \in 1 .. k - 1 : q[i] = firsts[i]
              BY <5>1, <7>2, <7>3
            <7> QED BY ONLY <7>1, <7>3, <7>4
          <6>3. w = [i \in DOMAIN w |-> w[i]]
            OBVIOUS
          <6> HIDE DEF q, w
          <6> QED BY <6>1, <6>2, <6>3
        <5> QED BY <4>1, <5>3 DEF p, q, w
      <4> QED BY ONLY <2>4, <2>5, <2>6, <3>2, <4>1, <4>3, <4>4 DEF Goes
    <3> QED BY <3>1, <3>2
  <2> QED BY <2>1, <2>8 DEF U, r
<1>9. \A k \in 0 .. n : k \in U
  <2> HIDE DEF U
  <2> QED BY <1>1, <1>7, <1>8, Upward
<1>10. n \in 0 .. n
  BY <1>1
<1> QED BY <1>3, <1>9, <1>10 DEF n

(* Every read, whatever the files.                                          *)
LEMMA ItemsAreRight ==
  ASSUME NEW F, Readable(F), NEW files \in Seq(F), NEW outline \in BOOLEAN
  PROVE  ItemsRight(files, outline)
<1> DEFINE n == Len(files)
           alone == [ i \in DOMAIN files |-> Alone(files[i], outline) ]
           raws == [ i \in DOMAIN files |-> RawSize(files[i], outline) ]
           kepts == [ i \in DOMAIN files |-> Alone(files[i], outline).kept ]
           stops == [ i \in DOMAIN files |-> Alone(files[i], outline).code # "none" ]
           firsts == [ i \in DOMAIN files |-> Alone(files[i], outline).items[1] ]
           stopped == \E i \in DOMAIN files : alone[i].code # "none"
<1>1. n \in Nat /\ DOMAIN files = 1 .. n /\ DOMAIN raws = 1 .. n /\ DOMAIN kepts = 1 .. n
  OBVIOUS
<1>2. kepts = [ i \in DOMAIN files |-> alone[i].kept ] /\ firsts = [ i \in DOMAIN files |-> alone[i].items[1] ]
  OBVIOUS
<1>3. SumFunction(raws) = Summed(raws, n) /\ SumFunction([ i \in DOMAIN files |-> alone[i].kept ]) = Summed(kepts, n)
  BY <1>1, <1>2, SumIs DEF Summed
<1>4. stopped <=> \E i \in 1 .. n : stops[i]
  BY <1>1
<1>5. ASSUME NEW raw \in Nat, NEW room \in Nat
      PROVE  Goes(Built(files, outline, raw, room), raws, kepts, stops, firsts, n, raw, room)
  <2> HIDE DEF raws, kepts, stops, firsts
  <2>1. /\ raws = [ i \in DOMAIN files |-> RawSize(files[i], outline) ]
        /\ kepts = [ i \in DOMAIN files |-> Alone(files[i], outline).kept ]
        /\ stops = [ i \in DOMAIN files |-> Alone(files[i], outline).code # "none" ]
        /\ firsts = [ i \in DOMAIN files |-> Alone(files[i], outline).items[1] ]
    BY DEF raws, kepts, stops, firsts
  <2> QED BY <2>1, BuiltRight
<1>6. [i \in 1 .. n |-> firsts[i]] = firsts
  BY <1>1
<1> HIDE DEF raws, kepts, stops, firsts, stopped, n
<1>7. ASSUME NEW raw \in Nat, NEW room \in Nat, NEW built, built = Built(files, outline, raw, room)
      PROVE  /\ (built.code = "none") <=> (Summed(raws, n) <= raw /\ Summed(kepts, n) <= room /\ ~ stopped)
             /\ built.code = "none" => built.items = firsts
  BY <1>4, <1>5, <1>6, <1>7 DEF Goes, Affords
<1> QED BY <1>2, <1>3, <1>7 DEF ItemsRight, raws, stopped

-------------------------------------------------------------------------------
(* Every behaviour                                                         *)

(* What an algorithm was given says which one it is.                       *)
LEMMA KindFacts ==
  /\ \A i \in Texts : i.kind = "text"
  /\ \A i \in Contents : i.kind = "bytes"
  /\ \A i \in Searches : i.kind = "search"
  /\ \A i \in Patterns : i.kind = "glob"
  /\ \A i \in Messages : i.kind = "frame"
  /\ \A i \in Plans : i.kind = "plan"
  /\ \A i \in Reads : i.kind = "read"
  /\ \A i \in Parses : i.kind \in {"markdown", "syntax", "records"}
  /\ \A i \in Uses : i.kind = "cache"
<1>1. \A i \in Texts : i.kind = "text"
  BY DEF Texts
<1>2. \A i \in Contents : i.kind = "bytes"
  BY DEF Contents
<1>3. \A i \in Searches : i.kind = "search"
  BY DEF Searches
<1>4. \A i \in Patterns : i.kind = "glob"
  BY DEF Patterns
<1>5. \A i \in Messages : i.kind = "frame"
  BY DEF Messages
<1>6. \A i \in Plans : i.kind = "plan"
  BY DEF Plans
<1>7. \A i \in Reads : i.kind = "read"
  BY DEF Reads
<1>8. \A i \in Parses : i.kind \in {"markdown", "syntax", "records"}
  BY DEF Parses
<1>9. \A i \in Uses : i.kind = "cache"
  BY DEF Uses
<1> QED BY <1>1, <1>2, <1>3, <1>4, <1>5, <1>6, <1>7, <1>8, <1>9

LEMMA UsesRight ==
  ASSUME NEW i \in Uses
  PROVE  CacheRight(i.uses)
<1>1. PICK uses \in BoundedSeq([put : BOOLEAN, file : Files], CacheUses) : i = [kind |-> "cache", uses |-> uses]
  BY DEF Uses
<1>2. PICK n \in 0 .. CacheUses : uses \in [1 .. n -> [put : BOOLEAN, file : Files]]
  BY DEF BoundedSeq, SeqOf
<1>3. n \in Nat
  BY NavigationAssumption
<1>4. Len(uses) = n
  <2>1. \A S : \A q \in [1 .. n -> S] : Len(q) = n
    BY <1>3
  <2> QED BY <1>2, <2>1
<1>5. CacheRight(uses)
  BY <1>2, <1>3, <1>4, UsesKeepRight
<1> QED BY <1>1, <1>5

LEMMA PatternsRight ==
  ASSUME NEW i \in Patterns
  PROVE  PatternRight(i.pattern, Paths)
<1> DEFINE E == UNION { ToSet(chunk) : chunk \in Chunks }
<1>1. PICK chunks \in BoundedSeq(Chunks, ChunkMax) : i = [kind |-> "glob", pattern |-> FlattenSeq(chunks)]
  BY DEF Patterns
<1>2. Chunks \subseteq Seq(E) /\ \A path \in Paths : path \in Seq(Seq(DOMAIN Orbit)) \ {<<>>}
  BY NavigationAssumption
<1> HIDE DEF E
<1>3. chunks \in Seq(Seq(E))
  <2>1. PICK n \in 0 .. ChunkMax : chunks \in [1 .. n -> Chunks]
    BY DEF BoundedSeq, SeqOf
  <2>2. n \in Nat
    BY NavigationAssumption
  <2>3. chunks \in [1 .. n -> Seq(E)]
    BY <1>2, <2>1
  <2> QED BY <2>2, <2>3
<1>4. FlattenSeq(chunks) \in Seq(E)
  <2>1. PICK g \in [0 .. Len(chunks) -> Seq(E)] : Joins(chunks, g)
    BY <1>3, FlattenExists
  <2>2. FlattenSeq(chunks) = g[Len(chunks)]
    BY <1>3, <2>1, FlattenIs
  <2>3. Len(chunks) \in 0 .. Len(chunks)
    BY <1>3
  <2> QED BY <2>1, <2>2, <2>3
<1>5. PatternRight(FlattenSeq(chunks), Paths)
  <2> DEFINE pattern == FlattenSeq(chunks)
  <2> HIDE DEF pattern
  <2>1. pattern \in Seq(E)
    BY <1>4 DEF pattern
  <2>2. PatternRight(pattern, Paths)
    BY <1>2, <2>1, OrbitAssumption, PatternMeant
  <2> QED BY <2>2 DEF pattern
<1> QED BY <1>1, <1>5

(* Sequences up to a length are sequences.                                  *)
LEMMA BoundedFacts ==
  ASSUME NEW S, NEW size \in Nat, NEW q \in BoundedSeq(S, size)
  PROVE  q \in Seq(S)
<1>1. PICK n \in 0 .. size : q \in [1 .. n -> S]
  BY DEF BoundedSeq, SeqOf
<1>2. n \in Nat
  OBVIOUS
<1> QED BY <1>1, <1>2

LEMMA SearchesRight ==
  ASSUME NEW i \in Searches
  PROVE  SearchRight(i.lines, i.context)
<1>1. PICK lines \in BoundedSeq(BOOLEAN, SearchLines), context \in 0 .. MaxContext :
        i = [kind |-> "search", lines |-> lines, context |-> context]
  BY DEF Searches
<1>2. SearchLines \in Nat /\ MaxContext \in Nat
  BY NavigationAssumption
<1>3. lines \in Seq(BOOLEAN) /\ context \in Nat
  BY <1>2, BoundedFacts
<1>4. SearchRight(lines, context)
  BY <1>3, SearchIsRight
<1> QED BY <1>1, <1>4

LEMMA PlansRight ==
  ASSUME NEW i \in Plans
  PROVE  PlanRight(i.items, i.bytes, i.pages)
<1> DEFINE rows == { Item("rows", units, warned) :
                       units \in BoundedSeq(UnitSizes, UnitMax) \ {<<>>}, warned \in BOOLEAN }
<1>1. PICK items \in ItemLists, bytes \in PageSizes, pages \in {1, 2, UnitMax} :
        i = [kind |-> "plan", items |-> items, bytes |-> bytes, pages |-> pages]
  BY DEF Plans
<1>2. UnitSizes \subseteq Nat /\ UnitMax \in Nat \ {0} /\ PageSizes \subseteq Nat
  BY NavigationAssumption
<1>3. bytes \in Nat /\ pages \in Nat \ {0}
  BY <1>2
<1>4. rows \subseteq PageItem
  <2> SUFFICES ASSUME NEW units \in BoundedSeq(UnitSizes, UnitMax) \ {<<>>}, NEW warned \in BOOLEAN
               PROVE  Item("rows", units, warned) \in PageItem
    OBVIOUS
  <2>1. PICK n \in 0 .. UnitMax : units \in [1 .. n -> UnitSizes]
    BY DEF BoundedSeq, SeqOf
  <2>2. units \in Seq(Nat) \ {<<>>}
    <3>1. n \in Nat
      BY <1>2
    <3>2. units \in [1 .. n -> Nat]
      <4>1. \A k \in 1 .. n : units[k] \in Nat
        BY ONLY <1>2, <2>1
      <4>2. units = [k \in 1 .. n |-> units[k]]
        BY ONLY <2>1
      <4> QED BY ONLY <4>1, <4>2
    <3>3. units \in Seq(Nat)
      BY ONLY <3>1, <3>2
    <3> QED BY <3>3
  <2> QED BY <2>2 DEF Item, PageItem
<1>5. items \in [1 .. 1 -> rows] \cup [1 .. 2 -> rows]
  BY DEF ItemLists
<1> HIDE DEF rows
<1>6. items \in Seq(PageItem) /\ items # <<>>
  <2>1. PICK n \in {1, 2} : items \in [1 .. n -> rows]
    BY <1>5
  <2>2. items \in [1 .. n -> PageItem] /\ n \in Nat \ {0}
    BY <1>4, <2>1
  <2>3. items \in Seq(PageItem) /\ Len(items) = n
    BY <2>2
  <2> QED BY <2>2, <2>3
<1>7. PlanRight(items, bytes, pages)
  BY <1>3, <1>6, PlanIsRight
<1> QED BY <1>1, <1>7

LEMMA ReadsRight ==
  ASSUME NEW i \in Reads
  PROVE  ItemsRight(i.files, i.outline)
<1>1. PICK files \in BoundedSeq(ReadFiles, ReadFileMax), outline \in BOOLEAN :
        i = [kind |-> "read", files |-> files, outline |-> outline]
  BY DEF Reads
<1>2. Readable(ReadFiles) /\ ReadFileMax \in Nat
  BY NavigationAssumption DEF Readable
<1>3. files \in Seq(ReadFiles)
  BY <1>2, BoundedFacts
<1>4. ItemsRight(files, outline)
  BY <1>2, <1>3, ItemsAreRight
<1> QED BY <1>1, <1>4

(* A scan, or an algorithm on its input.                                   *)
NavigationInv ==
  /\ \/ input = [kind |-> "none"] /\ ScanInv
     \/ NoScan
  /\ PatternsExact
  /\ CacheKeepsRecent
  /\ ReadExact

LEMMA NavigationStarts == Init => NavigationInv
<1> SUFFICES ASSUME Init PROVE NavigationInv
  OBVIOUS
<1>1. CASE ScanInit /\ input = [kind |-> "none"]
  <2>1. ScanInv
    BY <1>1, ScanStarts
  <2>2. input.kind = "none"
    BY <1>1
  <2> QED BY <1>1, <2>1, <2>2 DEF NavigationInv, PatternsExact, CacheKeepsRecent, ReadExact
<1>2. CASE NoScan /\ input \in Texts \cup Contents \cup Searches \cup Patterns \cup Messages \cup Plans
                                 \cup Reads \cup Parses \cup Uses
  <2>1. input.kind = "glob" => input \in Patterns
    BY <1>2, KindFacts
  <2>2. input.kind = "cache" => input \in Uses
    BY <1>2, KindFacts
  <2>3. PatternsExact
    BY <2>1, PatternsRight DEF PatternsExact
  <2>4. CacheKeepsRecent
    BY <2>2, UsesRight DEF CacheKeepsRecent
  <2>5. /\ input.kind = "read" => input \in Reads
        /\ input.kind = "plan" => input \in Plans
        /\ input.kind = "search" => input \in Searches
    BY <1>2, KindFacts
  <2>6. ReadExact
    BY <2>5, ReadsRight, PlansRight, SearchesRight DEF ReadExact
  <2> QED BY <1>2, <2>3, <2>4, <2>6 DEF NavigationInv
<1> QED BY <1>1, <1>2 DEF Init

LEMMA NoScanStays == NoScan => ~ ScanNext
BY DEF NoScan, ScanNext, Begin, Continue, ShowSummary, EmitRow, Process, ProcessCut, PageFull, DeadlinePage,
       Finish, CallFails, Forget, CallStep, Running, Drained, Idle

LEMMA NavigationStep == NavigationInv /\ [Next]_vars => NavigationInv'
<1> SUFFICES ASSUME NavigationInv, [Next]_vars PROVE NavigationInv'
  OBVIOUS
<1>1. UNCHANGED input /\ [ScanNext]_scanVars
  BY DEF Next, vars, scanVars
<1>2. PatternsExact' /\ CacheKeepsRecent' /\ ReadExact'
  BY <1>1 DEF NavigationInv, PatternsExact, CacheKeepsRecent, ReadExact
<1>3. CASE input = [kind |-> "none"] /\ ScanInv
  <2>1. ScanInv'
    BY <1>1, <1>3, ScanStep
  <2> QED BY <1>1, <1>2, <1>3, <2>1 DEF NavigationInv
<1>4. CASE NoScan
  <2>1. UNCHANGED scanVars
    BY <1>1, <1>4, NoScanStays
  <2>2. NoScan'
    BY <1>4, <2>1 DEF NoScan, scanVars, NoWarnings, Fresh, Idle
  <2> QED BY <1>2, <2>2 DEF NavigationInv
<1> QED BY <1>3, <1>4 DEF NavigationInv

(* With no tree there is nothing to show and nothing to warn of.           *)
LEMMA NothingExact == NoScan => RowsExact
<1> SUFFICES ASSUME NoScan PROVE RowsExact
  OBVIOUS
<1>1. tree = <<>> /\ sent = <<>> /\ call = Idle /\ told = NoWarnings /\ ask.mode = "none"
  BY DEF NoScan
<1>2. Cuttable(Reached) = {}
  BY <1>1 DEF Cuttable
<1>3. RowsBut(Reached, {}) = <<>>
  <2>1. DOMAIN tree = {}
    BY <1>1
  <2>2. [ e \in DOMAIN tree |-> IF e \in Reached \ {} /\ Opens(e) THEN RowsOf(e) ELSE <<>> ] = <<>>
    BY <2>1
  <2>3. FlattenSeq(<<>>) = <<>>
    BY DEF FlattenSeq
  <2> QED BY <2>2, <2>3 DEF RowsBut
<1>4. Reached = {}
  <2> DEFINE Climbs1(h) == h = [n \in 0 .. Len(tree) |->
               IF n = 0 THEN {}
               ELSE IF n = 1 \/ (n \in Units(tree[n].up) /\ Lists(tree[n].up, h[n - 1]))
                 THEN h[n - 1] \cup {n}
               ELSE h[n - 1]]
             f == CHOOSE h : Climbs1(h)
             g == [n \in 0 .. Len(tree) |-> {}]
  <2>1. Reached = f[Len(tree)]
    BY DEF Reached
  <2>2. Len(tree) = 0 /\ 0 .. Len(tree) = {0}
    BY <1>1
  <2>3. Climbs1(g)
    BY <2>2
  <2>4. Climbs1(f)
    <3> HIDE DEF Climbs1
    <3> QED BY <2>3
  <2> HIDE DEF f
  <2> QED BY <2>1, <2>2, <2>4
<1>5. told = WarningsBut(Reached, {})
  <2>1. Cardinality({}) = 0
    BY FS_EmptySet
  <2>2. \A c \in Codes : { e \in Reached : Reason(e, Reached, {}) = c } = {}
    BY <1>4
  <2>3. Enumerated(Reached) = {}
    BY <1>4 DEF Enumerated
  <2>4. \A c : UNION { Reported(d, c) : d \in Enumerated(Reached) } = {}
    BY <2>3
  <2>5. \A c \in Codes : Cardinality({ e \in Reached : Reason(e, Reached, {}) = c })
                          + Cardinality(UNION { Reported(d, c) : d \in Enumerated(Reached) }) = 0
    <3> TAKE c \in Codes
    <3> DEFINE m == Cardinality({ e \in Reached : Reason(e, Reached, {}) = c })
               k == Cardinality(UNION { Reported(d, c) : d \in Enumerated(Reached) })
    <3>1. m = 0 /\ k = 0
      BY <2>1, <2>2, <2>4
    <3> HIDE DEF m, k
    <3>2. m + k = 0
      BY <3>1
    <3> QED BY <3>2 DEF m, k
  <2>6. WarningsBut(Reached, {}) = [c \in Codes |-> 0]
    BY <2>5 DEF WarningsBut
  <2> QED BY <1>1, <2>6 DEF NoWarnings
<1>6. sent \o call.out \o call.st.pending = <<>>
  BY <1>1 DEF Idle, Fresh
<1>7. IsPrefix(<<>>, <<>>)
  BY DEF IsPrefix
<1> QED BY <1>1, <1>2, <1>3, <1>5, <1>6, <1>7 DEF RowsExact

THEOREM NavigationInvariance == Spec => []NavigationInv
<1> QED BY NavigationStarts, NavigationStep, PTL DEF Spec

\* Whatever the tree, the request and the limits: the pages of a scan, put
\* together, are the rows of the tree in order and once each, and a scan that
\* ends has given them all and told of every object it could not show
\* (scanner.Advance, navigation's page loop).
THEOREM RowsAreExact == Spec => []RowsExact
<1>1. NavigationInv => RowsExact
  BY Promise, NothingExact DEF NavigationInv
<1> QED BY <1>1, NavigationInvariance, PTL

\* Every page with a cursor leaves a state that is not the one it began with
\* and that the scanner takes up again (validAdvanceInputs).
THEOREM CursorsAreResumable == Spec => CursorsResume
<1>1. ASSUME ScanInv, PageFull \/ DeadlinePage
      PROVE  Resumable(lineage'.st) /\ lineage' # lineage
  <2>1. /\ AskInv /\ sent \in Seq(RowSet) /\ LineageAt(lineage, sent, told) /\ CallAt(call, lineage, sent)
    BY <1>1 DEF ScanInv
  <2>2. /\ call.on /\ call.st.code = "none" /\ (call.progressed \/ call.out # <<>>)
        /\ (call.st.pending # <<>> \/ call.st.frontier # {})
        /\ lineage' = [kind |-> "scan", st |-> call.st]
    BY <1>1 DEF PageFull, DeadlinePage, Partial, Drained, Running, Overfull
  <2> QED BY <2>1, <2>2, PageKeeps
<1>2. NoScan => ~ (PageFull \/ DeadlinePage)
  BY DEF NoScan, PageFull, DeadlinePage, Running, Drained, Idle
<1>3. NavigationInv /\ [Next]_vars
        => [PageFull \/ DeadlinePage => Resumable(lineage'.st) /\ lineage' # lineage]_scanVars
  BY <1>1, <1>2 DEF NavigationInv
<1> QED BY <1>3, NavigationInvariance, PTL DEF Spec, CursorsResume

\* Whatever results come and are asked for again: the cache holds the results
\* used last, as many of them as one after the other ever fitted, and is charged
\* for those (codeparse/cache.go).
THEOREM CacheIsRecent == Spec => []CacheKeepsRecent
<1>1. NavigationInv => CacheKeepsRecent
  BY DEF NavigationInv
<1> QED BY <1>1, NavigationInvariance, PTL

\* Whatever the pattern that compiles, whatever the path: the search that never
\* goes back behind the last asterisk finds a division of the path among the
\* elements if there is one (scanner/glob.go).
THEOREM PatternsAreExact == Spec => []PatternsExact
<1>1. NavigationInv => PatternsExact
  BY DEF NavigationInv
<1> QED BY <1>1, NavigationInvariance, PTL

\* Whatever the files, the budgets, the sizes and the matches: a read has an item
\* for each file, its own and in order, or fails for what they need together
\* (navigation/read.go); its pages divide the items, and it is refused only when
\* no division would do (present/read.go); a search shows each line within the
\* context of a match once, in order (navigation/search_consumer.go).
THEOREM ReadsAreExact == Spec => []ReadExact
<1>1. NavigationInv => ReadExact
  BY DEF NavigationInv
<1> QED BY <1>1, NavigationInvariance, PTL
===============================================================================
