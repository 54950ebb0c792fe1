-------------------------- MODULE ParseServiceProofs --------------------------
(***************************************************************************)
(* Proofs about ParseService for every set of calls and every limit.       *)
(*                                                                         *)
(* The books of the limiter (UnitAccounting, UnitsInUse) are inductive     *)
(* together with ParserKept: a parser that is not "none" belongs to a call *)
(* that waits for it or has given up for good.  Without it, a call could   *)
(* wait for a unit while its former parser still holds one, and the two    *)
(* would be counted as one.                                                *)
(***************************************************************************)
EXTENDS ParseService, CollectionLemmas, FiniteSetTheorems

(* Where a call can be while a parser of it exists.                        *)
ParserKept ==
  \A c \in Calls : parser[c] # "none" =>
    \/ pc[c] = "parsing"
    \/ c \in over /\ pc[c] = "aborting"
    \/ c \in over /\ pc[c] \in {"idle", "returned"} /\ c \in noCommit \cup Shared

Books == UnitAccounting /\ UnitsInUse
LimiterInv == LimiterTypeOK /\ Books /\ ParserKept

(* Nothing the limiter counts has changed.                                 *)
LEMMA SameBooks ==
  ASSUME Books, UNCHANGED limiterVars, Waiting' = Waiting, Holders' = Holders
  PROVE  Books'
BY DEF Books, UnitAccounting, UnitsInUse, limiterVars

(* A call in line, or about to enter the lock, has no parser.              *)
LEMMA InLineNoUnit ==
  ASSUME LimiterInv, NEW c \in Calls,
         pc[c] \notin {"parsing", "aborting", "idle", "returned"}
  PROVE  parser[c] = "none"
BY DEF LimiterInv, ParserKept

(* The unit given back by c goes to the first live call in line, or the    *)
(* count goes down: the books stay right, wherever c goes on.              *)
LEMMA ReleaseBooks ==
  ASSUME LimiterInv, NEW c \in Holders, pc[c] # "queued",
         NEW place \in Places \ {"queued", "granted", "reserved"},
         Release(c, place),
         parser' \in [Calls -> Parsers], parser'[c] # "running",
         \A w \in Calls \ {c} : parser'[w] = parser[w]
  PROVE  /\ pc' \in [Calls -> Places] /\ waiters' \in Seq(Calls)
         /\ active' \in Nat /\ parents' \subseteq Calls
         /\ Books'
<1> DEFINE q == waiters
<1>1. /\ q \in Seq(Calls) /\ Len(q) \in Nat /\ DOMAIN q = 1 .. Len(q) /\ IsInjective(q)
      /\ ToSet(q) = Waiting /\ parents = Waiting \cup Holders
      /\ IsFiniteSet(Holders) /\ active = Cardinality(Holders) /\ active \in Nat
      /\ active <= MaxParsers /\ MaxParsers \in Nat
      /\ pc \in [Calls -> Places] /\ c \in Calls
  BY LenProperties, ParseLimitsAssumption
  DEF LimiterInv, LimiterTypeOK, Books, UnitAccounting, Holders
<1>2. \A w \in Waiting : w # c /\ w \in Calls /\ parser[w] = "none" /\ w \notin Holders
  BY InLineNoUnit DEF Waiting, Holders
<1>3. PICK n \in 0 .. Len(q) :
        LET dead == {q[i] : i \in 1 .. n}
            live == {q[i] : i \in {n + 1} \cap DOMAIN q}
        IN /\ dead \subseteq over /\ live \cap over = {}
           /\ active' = IF live = {} THEN active - 1 ELSE active
           /\ waiters' = SubSeq(q, n + 2, Len(q))
           /\ parents' = parents \ ({c} \cup dead)
           /\ pc' = [w \in Calls |-> IF w = c THEN place
                                     ELSE IF w \in dead THEN "ended"
                                     ELSE IF w \in live THEN "granted" ELSE pc[w]]
  BY DEF Release
<1> DEFINE dead == {q[i] : i \in 1 .. n}
           live == {q[i] : i \in {n + 1} \cap DOMAIN q}
<1>4. dead \subseteq Waiting /\ live \subseteq Waiting /\ dead \cap live = {}
  <2>1. \A i \in 1 .. n : i \in 1 .. Len(q) /\ i # n + 1
    BY <1>1
  <2>2. dead \subseteq ToSet(q) /\ live \subseteq ToSet(q)
    BY <1>1, <2>1 DEF ToSet
  <2>3. dead \cap live = {}
    BY <1>1, <2>1 DEF IsInjective
  <2> QED BY <1>1, <2>2, <2>3
<1>5. pc' \in [Calls -> Places] /\ parents' \subseteq Calls
  BY <1>1, <1>3 DEF Places, LimiterInv, LimiterTypeOK
<1>6. Waiting' = Waiting \ (dead \cup live)
  BY <1>1, <1>2, <1>3, <1>4 DEF Waiting
<1>7. Holders' = (Holders \ {c}) \cup live
  <2> HIDE DEF dead, live, q
  <2>1. \A w \in Calls : pc'[w] = IF w = c THEN place
                                  ELSE IF w \in dead THEN "ended"
                                  ELSE IF w \in live THEN "granted" ELSE pc[w]
    BY <1>3 DEF dead, live, q
  <2>2. \A w \in dead \cup live :
          w # c /\ w \in Calls /\ pc[w] = "queued" /\ parser[w] = "none" /\ w \notin Holders
    BY <1>2, <1>4 DEF Waiting
  <2>3. c \notin Holders'
    BY <1>1, <2>1 DEF Holders
  <2>4. \A w \in Calls \ {c} : w \in Holders' <=> w \in Holders \/ w \in live
    BY <1>4, <2>1, <2>2 DEF Holders
  <2>5. Holders' \subseteq Calls /\ Holders \subseteq Calls /\ live \subseteq Calls
    BY <2>2 DEF Holders
  <2> QED BY <2>2, <2>3, <2>4, <2>5
<1>8. IsFiniteSet(Holders \ {c}) /\ Cardinality(Holders \ {c}) = active - 1 /\ active > 0
  BY <1>1, FS_RemoveElement, FS_EmptySet
<1>9. parents' = Waiting' \cup Holders'
  BY <1>1, <1>2, <1>3, <1>4, <1>6, <1>7
<1>10. CASE n = Len(q)
  <2>1. live = {} /\ dead = Waiting
    BY <1>1, <1>10 DEF ToSet
  <2>2. waiters' = <<>>
    BY <1>1, <1>3, <1>10, SubSeqEmpty
  <2>3. waiters' \in Seq(Calls) /\ IsInjective(waiters') /\ ToSet(waiters') = {}
    BY <2>2 DEF IsInjective, ToSet
  <2>4. active' = active - 1 /\ active' \in Nat
    BY <1>1, <1>3, <1>8, <2>1
  <2> HIDE DEF dead, live, q
  <2>5. Waiting' = {} /\ Holders' = Holders \ {c}
    BY <1>6, <1>7, <2>1
  <2> QED
    BY <1>1, <1>5, <1>8, <1>9, <2>2, <2>3, <2>4, <2>5 DEF Books, UnitAccounting, UnitsInUse
<1>11. CASE n < Len(q)
  <2> DEFINE w == q[n + 1]
  <2>1. live = {w} /\ n + 1 \in 0 .. Len(q) /\ n + 2 = n + 1 + 1
    BY <1>1, <1>11
  <2>2. dead \cup live = {q[i] : i \in 1 .. n + 1}
    <3>1. \A i : i \in 1 .. n + 1 <=> i \in 1 .. n \/ i = n + 1
      BY <1>1
    <3> QED BY <2>1, <3>1
  <2>3. /\ waiters' \in Seq(Calls) /\ IsInjective(waiters')
        /\ ToSet(waiters') = ToSet(q) \ {q[i] : i \in 1 .. n + 1}
    <3>1. waiters' = SubSeq(q, (n + 1) + 1, Len(q))
      BY <1>3, <2>1
    <3> HIDE DEF q
    <3>2. \A m \in 0 .. Len(q) :
            /\ SubSeq(q, m + 1, Len(q)) \in Seq(Calls)
            /\ IsInjective(SubSeq(q, m + 1, Len(q)))
            /\ ToSet(SubSeq(q, m + 1, Len(q))) = ToSet(q) \ {q[i] : i \in 1 .. m}
      <4>1. q \in Seq(Calls) /\ IsInjective(q)
        BY <1>1
      <4> HIDE DEF dead, live, w
      <4> QED BY <4>1, DropAnyFacts, Zenon
    <3> HIDE DEF dead, live, w
    <3> QED BY <2>1, <3>1, <3>2
  <2>4. active' = active /\ q # <<>>
    BY <1>1, <1>3, <1>11, <2>1, EmptySeq
  <2>5. w \notin Holders
    BY <1>2, <1>4, <2>1
  <2> HIDE DEF dead, live, w, q
  <2>6. IsFiniteSet(Holders') /\ Cardinality(Holders') = active
    <3>1. w \notin Holders \ {c}
      BY <2>5
    <3>2. Holders' = (Holders \ {c}) \cup {w}
      BY <1>7, <2>1
    <3>3. Cardinality((Holders \ {c}) \cup {w}) = active - 1 + 1
      BY <1>8, <3>1, FS_AddElement
    <3>4. IsFiniteSet((Holders \ {c}) \cup {w})
      BY <1>8, FS_AddElement
    <3> QED BY <1>1, <3>2, <3>3, <3>4
  <2>7. active = MaxParsers
    BY <2>4 DEF LimiterInv, Books, UnitsInUse, q
  <2>8. ToSet(waiters') = Waiting'
    BY <1>1, <1>6, <2>2, <2>3
  <2> QED
    BY <1>1, <1>5, <1>9, <2>3, <2>4, <2>6, <2>7, <2>8 DEF Books, UnitAccounting, UnitsInUse
<1>12. n = Len(q) \/ n < Len(q)
  <2> HIDE DEF q, dead, live
  <2>1. Len(q) \in Nat
    BY <1>1
  <2>2. n \in 0 .. Len(q)
    OBVIOUS
  <2> QED BY <2>1, <2>2
<1> QED BY <1>1, <1>5, <1>10, <1>11, <1>12

-------------------------------------------------------------------------------
(* The invariant                                                           *)

LEMMA InitLimiterInv ==
  ASSUME Init
  PROVE  LimiterInv
<1>1. Waiting = {} /\ Holders = {}
  BY DEF Init, Waiting, Holders
<1>2. LimiterTypeOK /\ ParserKept
  BY DEF Init, LimiterTypeOK, ParserKept, Places, Parsers
<1>3. /\ waiters = <<>> /\ active = 0 /\ parents = {}
      /\ IsInjective(waiters) /\ ToSet(waiters) = {}
  BY DEF Init, IsInjective, ToSet
<1>4. IsFiniteSet({}) /\ Cardinality({}) = 0
  BY FS_EmptySet
<1> QED
  BY <1>1, <1>2, <1>3, <1>4, ParseLimitsAssumption
  DEF LimiterInv, Books, UnitAccounting, UnitsInUse

(* A step that leaves the limiter alone and moves c between places where   *)
(* it neither waits nor holds.                                             *)
LEMMA Elsewhere ==
  ASSUME LimiterInv, NEW c \in Calls, UNCHANGED limiterVars,
         NEW place \in Places \ {"queued", "granted", "reserved"},
         pc[c] \notin {"queued", "granted", "reserved"},
         Goto(c, place),
         parser' \in [Calls -> Parsers],
         \A w \in Calls : parser'[w] = "running" <=> parser[w] = "running"
  PROVE  pc' \in [Calls -> Places] /\ Books'
<1>1. pc \in [Calls -> Places] /\ pc' = [pc EXCEPT ![c] = place]
  BY DEF LimiterInv, LimiterTypeOK, Goto
<1>2. Waiting' = Waiting /\ Holders' = Holders
  BY <1>1 DEF Waiting, Holders
<1> QED BY <1>1, <1>2, SameBooks DEF LimiterInv, Places

(* Acquire takes a free unit.                                              *)
LEMMA AcquireAtOnceInv ==
  ASSUME LimiterInv, NEW c \in Calls, AcquireAtOnce(c)
  PROVE  LimiterInv'
<1>1. /\ pc \in [Calls -> Places] /\ pc[c] = "enter" /\ pc' = [pc EXCEPT ![c] = "reserved"]
      /\ parser' = parser /\ waiters' = waiters /\ waiters = <<>>
      /\ active' = active + 1 /\ active < MaxParsers /\ active \in Nat
      /\ parents' = parents \cup {c}
  BY DEF LimiterInv, LimiterTypeOK, AcquireAtOnce, Goto
<1>2. parser[c] = "none"
  BY <1>1, InLineNoUnit
<1>3. Waiting' = Waiting /\ Holders' = Holders \cup {c} /\ c \notin Holders
  BY <1>1, <1>2 DEF Waiting, Holders
<1>4. /\ IsFiniteSet(Holders') /\ Cardinality(Holders') = active'
  <2>1. IsFiniteSet(Holders) /\ Cardinality(Holders) = active
    BY DEF LimiterInv, Books, UnitAccounting
  <2> QED BY <1>1, <1>3, <2>1, FS_AddElement
<1>5. Books'
  BY <1>1, <1>3, <1>4, ParseLimitsAssumption
  DEF LimiterInv, Books, UnitAccounting, UnitsInUse
<1>6. LimiterTypeOK' /\ ParserKept'
  BY <1>1, <1>2
  DEF LimiterInv, LimiterTypeOK, ParserKept, AcquireAtOnce, callVars, Places
<1> QED BY <1>5, <1>6 DEF LimiterInv

(* Acquire joins the line, which it does only while no unit is free.       *)
LEMMA AcquireQueuesInv ==
  ASSUME LimiterInv, NEW c \in Calls, AcquireQueues(c)
  PROVE  LimiterInv'
<1>1. /\ pc \in [Calls -> Places] /\ pc[c] = "enter" /\ pc' = [pc EXCEPT ![c] = "queued"]
      /\ parser' = parser /\ waiters \in Seq(Calls) /\ waiters' = Append(waiters, c)
      /\ active' = active /\ active \in Nat /\ parents' = parents \cup {c}
      /\ IsInjective(waiters) /\ ToSet(waiters) = Waiting
  BY DEF LimiterInv, LimiterTypeOK, AcquireQueues, Goto, Books, UnitAccounting
<1>2. parser[c] = "none"
  BY <1>1, InLineNoUnit
<1>3. Waiting' = Waiting \cup {c} /\ Holders' = Holders /\ c \notin Waiting
  BY <1>1, <1>2 DEF Waiting, Holders
<1>4. /\ waiters' \in Seq(Calls) /\ IsInjective(waiters') /\ ToSet(waiters') = Waiting'
  BY <1>1, <1>3, AppendFacts
<1>5. active = MaxParsers
  BY ParseLimitsAssumption
  DEF LimiterInv, LimiterTypeOK, Books, UnitAccounting, UnitsInUse, AcquireQueues
<1>6. Books'
  BY <1>1, <1>3, <1>4, <1>5 DEF LimiterInv, Books, UnitAccounting, UnitsInUse
<1>7. LimiterTypeOK' /\ ParserKept'
  BY <1>1, <1>2, <1>4
  DEF LimiterInv, LimiterTypeOK, ParserKept, AcquireQueues, callVars, Places
<1> QED BY <1>6, <1>7 DEF LimiterInv

(* A waiting call gives up.                                                *)
LEMMA TerminalizeWaiterInv ==
  ASSUME LimiterInv, NEW c \in Calls, TerminalizeWaiter(c)
  PROVE  LimiterInv'
<1>1. /\ pc \in [Calls -> Places] /\ pc[c] = "queued" /\ pc' = [pc EXCEPT ![c] = "ended"]
      /\ parser' = parser /\ waiters \in Seq(Calls) /\ IsInjective(waiters)
      /\ ToSet(waiters) = Waiting /\ active' = active /\ parents' = parents \ {c}
      /\ parents = Waiting \cup Holders
  BY DEF LimiterInv, LimiterTypeOK, TerminalizeWaiter, Goto, Books, UnitAccounting
<1>2. parser[c] = "none" /\ c \notin Holders
  BY <1>1, InLineNoUnit DEF Holders
<1>3. PICK k \in DOMAIN waiters : waiters[k] = c /\ waiters' = RemoveAt(waiters, k)
  BY DEF TerminalizeWaiter
<1>4. /\ waiters' \in Seq(Calls) /\ IsInjective(waiters')
      /\ ToSet(waiters') = Waiting \ {c}
  BY <1>1, <1>3, RemoveAtFacts
<1>5. Waiting' = Waiting \ {c} /\ Holders' = Holders
  BY <1>1, <1>2 DEF Waiting, Holders
<1>6. waiters # <<>>
  BY <1>3
<1>7. Books'
  BY <1>1, <1>2, <1>4, <1>5, <1>6 DEF LimiterInv, Books, UnitAccounting, UnitsInUse
<1>8. LimiterTypeOK' /\ ParserKept'
  BY <1>1, <1>2, <1>4
  DEF LimiterInv, LimiterTypeOK, ParserKept, TerminalizeWaiter, callVars, Places
<1> QED BY <1>7, <1>8 DEF LimiterInv

(* A grant that is no longer wanted is passed on.                          *)
LEMMA ReservedUnwantedInv ==
  ASSUME LimiterInv, NEW c \in Calls, ReservedUnwanted(c)
  PROVE  LimiterInv'
<1>1. c \in Holders /\ parser[c] = "none" /\ pc[c] = "reserved"
  BY InLineNoUnit DEF ReservedUnwanted, Holders
<1>2. Release(c, "aborting") /\ parser' = parser /\ UNCHANGED <<callVars, file>>
  BY DEF ReservedUnwanted
<1>3. /\ pc' \in [Calls -> Places] /\ waiters' \in Seq(Calls)
      /\ active' \in Nat /\ parents' \subseteq Calls /\ Books'
  BY <1>1, <1>2, ReleaseBooks DEF LimiterInv, LimiterTypeOK, Places
<1>4. \A w \in Calls : parser[w] # "none" => pc'[w] = pc[w]
  <2> SUFFICES ASSUME NEW w \in Calls, parser[w] # "none" PROVE pc'[w] = pc[w]
    OBVIOUS
  <2>1. w # c /\ w \notin ToSet(waiters)
    BY <1>1, InLineNoUnit DEF LimiterInv, Books, UnitAccounting, Waiting
  <2> QED BY <1>2, <2>1 DEF Release, ToSet
<1>5. LimiterTypeOK' /\ ParserKept'
  BY <1>2, <1>3, <1>4 DEF LimiterInv, LimiterTypeOK, ParserKept, callVars
<1> QED BY <1>3, <1>5 DEF LimiterInv

(* A parser gives its unit back, abandoned or not.                         *)
LEMMA ParserReleasesInv ==
  ASSUME LimiterInv, NEW c \in Calls, ParserReleases(c)
  PROVE  LimiterInv'
<1>1. /\ c \in Holders /\ pc[c] \in {"parsing", "aborting", "idle", "returned"}
      /\ parser[c] = "running"
  BY InLineNoUnit DEF ParserReleases, Holders
<1>2. /\ Release(c, pc[c]) /\ parser' = [parser EXCEPT ![c] = "released"]
      /\ UNCHANGED <<callVars, file>> /\ parser \in [Calls -> Parsers]
  BY DEF ParserReleases, LimiterInv, LimiterTypeOK
<1>3. /\ pc' \in [Calls -> Places] /\ waiters' \in Seq(Calls)
      /\ active' \in Nat /\ parents' \subseteq Calls /\ Books'
  <2>1. pc[c] \in Places \ {"queued", "granted", "reserved"} /\ pc[c] # "queued"
    BY <1>1 DEF Places
  <2>2. parser' \in [Calls -> Parsers] /\ parser'[c] # "running"
    BY <1>2 DEF Parsers
  <2>3. \A w \in Calls \ {c} : parser'[w] = parser[w]
    BY <1>2
  <2> QED BY <1>1, <1>2, <2>1, <2>2, <2>3, ReleaseBooks
<1>4. \A w \in Calls : parser[w] # "none" => pc'[w] = pc[w]
  <2> SUFFICES ASSUME NEW w \in Calls, parser[w] # "none" PROVE pc'[w] = pc[w]
    OBVIOUS
  <2>1. w \notin ToSet(waiters)
    BY InLineNoUnit DEF LimiterInv, Books, UnitAccounting, Waiting
  <2> QED BY <1>2, <2>1 DEF Release, ToSet
<1>5. LimiterTypeOK' /\ ParserKept'
  BY <1>1, <1>2, <1>3, <1>4 DEF LimiterInv, LimiterTypeOK, ParserKept, callVars, Parsers
<1> QED BY <1>3, <1>5 DEF LimiterInv

(* Every step of a call that does not touch the limiter.                   *)
LEMMA QuietInv ==
  ASSUME LimiterInv, NEW c \in Calls,
         \/ CallOver(c) \/ CancelMarks(c) \/ CallReturns(c) \/ ParseAborts(c)
         \/ \E f \in Files : CacheHit(c, f) \/ CacheMiss(c, f)
         \/ AcquireAllowed(c) \/ AcquireRefused(c) \/ FinishParse(c)
  PROVE  LimiterInv'
<1>1. pc \in [Calls -> Places] /\ parser \in [Calls -> Parsers]
  BY DEF LimiterInv, LimiterTypeOK
<1>2. UNCHANGED limiterVars
  BY DEF CallOver, CancelMarks, CallReturns, ParseAborts, CacheHit, CacheMiss, AcquireAllowed,
         AcquireRefused, FinishParse, HitReturned, ParseAbandoned, OutputReceived, ParsedAborts,
         ParseReturns, AbortReturns, limiterVars
<1>3. \/ pc' = pc
      \/ /\ pc[c] \notin {"queued", "granted", "reserved"}
         /\ \E place \in Places \ {"queued", "granted", "reserved"} : Goto(c, place)
  BY DEF CallOver, CancelMarks, CallReturns, ParseAborts, CacheHit, CacheMiss, AcquireAllowed,
         AcquireRefused, FinishParse, HitReturned, ParseAbandoned, OutputReceived, ParsedAborts,
         ParseReturns, AbortReturns, Places
<1>4. /\ parser' \in [Calls -> Parsers]
      /\ \A w \in Calls : parser'[w] = "running" <=> parser[w] = "running"
  BY <1>1
  DEF CallOver, CancelMarks, CallReturns, ParseAborts, CacheHit, CacheMiss, AcquireAllowed,
      AcquireRefused, FinishParse, HitReturned, ParseAbandoned, OutputReceived, ParsedAborts,
      ParseReturns, AbortReturns, Parsers, Outputs
<1>5. pc' \in [Calls -> Places] /\ Books'
  <2>1. CASE pc' = pc
    <3>1. Waiting' = Waiting /\ Holders' = Holders
      BY <1>4, <2>1 DEF Waiting, Holders
    <3> QED BY <1>1, <1>2, <2>1, <3>1, SameBooks DEF LimiterInv
  <2>2. CASE /\ pc[c] \notin {"queued", "granted", "reserved"}
             /\ \E place \in Places \ {"queued", "granted", "reserved"} : Goto(c, place)
    BY <1>2, <1>4, <2>2, Elsewhere
  <2> QED BY <1>3, <2>1, <2>2
<1>6. /\ over' \subseteq Calls /\ noCommit' \subseteq Calls /\ file' \in [Calls -> Files]
      /\ over \subseteq over' /\ noCommit \subseteq noCommit'
  BY DEF CallOver, CancelMarks, CallReturns, ParseAborts, CacheHit, CacheMiss, AcquireAllowed,
         AcquireRefused, FinishParse, HitReturned, ParseAbandoned, OutputReceived, ParsedAborts,
         ParseReturns, AbortReturns, callVars, LimiterInv, LimiterTypeOK
<1>7. LimiterTypeOK'
  BY <1>2, <1>4, <1>5, <1>6 DEF LimiterInv, LimiterTypeOK, limiterVars
<1>8. ParserKept'
  <2> USE <1>1 DEF LimiterInv, ParserKept, Goto, callVars
  <2>1. CASE CallOver(c) \/ CancelMarks(c) \/ CallReturns(c) \/ ParseAborts(c)
    BY <2>1 DEF CallOver, CancelMarks, CallReturns, ParseAborts
  <2>2. CASE \E f \in Files : CacheHit(c, f) \/ CacheMiss(c, f)
    BY <2>2 DEF CacheHit, CacheMiss
  <2>3. CASE AcquireAllowed(c) \/ AcquireRefused(c)
    BY <2>3 DEF AcquireAllowed, AcquireRefused
  <2>4. CASE HitReturned(c) \/ ParseAbandoned(c) \/ ParsedAborts(c)
    BY <2>4 DEF HitReturned, ParseAbandoned, ParsedAborts
  <2>5. CASE OutputReceived(c)
    BY <2>5 DEF OutputReceived
  <2>6. CASE ParseReturns(c)
    BY <2>6 DEF ParseReturns
  <2>7. CASE AbortReturns(c)
    BY <2>7 DEF AbortReturns
  <2> QED BY <2>1, <2>2, <2>3, <2>4, <2>5, <2>6, <2>7 DEF FinishParse
<1> QED BY <1>5, <1>7, <1>8 DEF LimiterInv

LEMMA NextLimiterInv ==
  ASSUME LimiterInv, [Next]_vars
  PROVE  LimiterInv'
<1>1. CASE UNCHANGED vars
  BY <1>1
  DEF vars, callVars, limiterVars, LimiterInv, LimiterTypeOK, Books, UnitAccounting,
      UnitsInUse, ParserKept, Waiting, Holders
<1>2. CASE Next
  <2>1. CASE Finished
    BY <1>1, <2>1 DEF Finished
  <2>2. ASSUME NEW c \in Calls, Step(c) PROVE LimiterInv'
    <3>1. CASE \/ CallOver(c) \/ CancelMarks(c) \/ CallReturns(c) \/ ParseAborts(c)
               \/ \E f \in Files : CacheHit(c, f) \/ CacheMiss(c, f)
               \/ AcquireAllowed(c) \/ AcquireRefused(c) \/ FinishParse(c)
      BY <3>1, QuietInv
    <3>2. CASE AcquireAtOnce(c)
      BY <3>2, AcquireAtOnceInv
    <3>3. CASE AcquireQueues(c)
      BY <3>3, AcquireQueuesInv
    <3>4. CASE TerminalizeWaiter(c)
      BY <3>4, TerminalizeWaiterInv
    <3>5. CASE ReservedUnwanted(c)
      BY <3>5, ReservedUnwantedInv
    <3>6. CASE ParserReleases(c)
      BY <3>6, ParserReleasesInv
    <3>7. CASE Woken(c) \/ StartParser(c) \/ ParserSends(c)
      <4>1. /\ pc' \in [Calls -> Places] /\ parser' \in [Calls -> Parsers]
            /\ UNCHANGED limiterVars /\ UNCHANGED <<callVars, file>>
        BY <3>7
        DEF Woken, StartParser, ParserSends, Goto, LimiterInv, LimiterTypeOK, Places, Parsers,
            limiterVars, callVars, Outputs
      <4>2. Waiting' = Waiting /\ Holders' = Holders
        BY <3>7
        DEF Woken, StartParser, ParserSends, Goto, LimiterInv, LimiterTypeOK, Waiting, Holders,
            Outputs
      <4>3. Books'
        BY <4>1, <4>2, SameBooks DEF LimiterInv
      <4>4. LimiterTypeOK' /\ ParserKept'
        BY <3>7, <4>1
        DEF Woken, StartParser, ParserSends, Goto, LimiterInv, LimiterTypeOK, ParserKept,
            limiterVars, callVars
      <4> QED BY <4>3, <4>4 DEF LimiterInv
    <3> QED BY <2>2, <3>1, <3>2, <3>3, <3>4, <3>5, <3>6, <3>7 DEF Step, Acquire
  <2> QED BY <1>2, <2>1, <2>2 DEF Next
<1> QED BY <1>1, <1>2

(* The limiter's invariant holds for every set of calls and every limit.   *)
THEOREM LimiterInvariance == Spec => []LimiterInv
<1>1. Init => LimiterInv
  BY InitLimiterInv
<1>2. LimiterInv /\ [Next]_vars => LimiterInv'
  BY NextLimiterInv
<1> QED BY <1>1, <1>2, PTL DEF Spec

-------------------------------------------------------------------------------
(* What it implies                                                         *)

(* The variables of the limiter and of the calls keep their types.         *)
THEOREM LimiterTypeCorrect == Spec => []LimiterTypeOK
<1>1. LimiterInv => LimiterTypeOK
  BY DEF LimiterInv
<1> QED BY <1>1, LimiterInvariance, PTL

(* SubLimiter.active counts the parsers that run, abandoned ones included, *)
(* and never exceeds the maximum; its list and map agree with them.        *)
THEOREM UnitsAccounted == Spec => []UnitAccounting
<1>1. LimiterInv => UnitAccounting
  BY DEF LimiterInv, Books
<1> QED BY <1>1, LimiterInvariance, PTL

(* promoteHeadLocked leaves no unit free while a call waits.               *)
THEOREM UnitsAlwaysInUse == Spec => []UnitsInUse
<1>1. LimiterInv => UnitsInUse
  BY DEF LimiterInv, Books
<1> QED BY <1>1, LimiterInvariance, PTL

(* Both together: the books of the limiter.                                *)
THEOREM UnitsAreExact == Spec => []UnitsExact
BY UnitsAccounted, UnitsAlwaysInUse, PTL DEF UnitsExact

(* The panic of Acquire for a second unit is never reached.                *)
THEOREM NeverASecondUnit == Spec => []NoSecondUnit
<1>1. LimiterInv => NoSecondUnit
  <2> SUFFICES ASSUME LimiterInv, NEW c \in Calls, pc[c] = "enter" PROVE c \notin parents
    BY DEF NoSecondUnit
  <2>1. parser[c] = "none"
    BY InLineNoUnit
  <2> QED BY <2>1 DEF LimiterInv, Books, UnitAccounting, Waiting, Holders
<1> QED BY <1>1, LimiterInvariance, PTL

(* An abandoned parse closes the publication of its call.                  *)
THEOREM AbandonedAlwaysMarked == Spec => []AbandonedMarked
<1>1. LimiterInv => AbandonedMarked
  BY DEF LimiterInv, ParserKept, AbandonedMarked
<1> QED BY <1>1, LimiterInvariance, PTL

(* Both together: a call whose parser was abandoned does nothing more.     *)
THEOREM AbandonedAreBarred == Spec => []AbandonedBarred
BY NeverASecondUnit, AbandonedAlwaysMarked, PTL DEF AbandonedBarred

(* Only release grants a unit to a call in line, and it passes over dead   *)
(* calls only.                                                             *)
LEMMA ReleaseInOrder ==
  ASSUME LimiterInv, NEW e \in Calls, NEW place \in Places \ {"queued", "granted"},
         Release(e, place), NEW c \in Calls, NEW d \in Calls
  PROVE  ~Overtakes(c, d)
<1> SUFFICES ASSUME NEW i \in DOMAIN waiters, NEW j \in DOMAIN waiters,
                    i < j, waiters[i] = c, waiters[j] = d,
                    pc'[c] = "queued", pc'[d] = "granted"
             PROVE  FALSE
  BY DEF Overtakes
<1>1. /\ Len(waiters) \in Nat /\ DOMAIN waiters = 1 .. Len(waiters)
      /\ IsInjective(waiters) /\ ToSet(waiters) = Waiting
  BY LenProperties DEF LimiterInv, LimiterTypeOK, Books, UnitAccounting
<1>2. pc[d] = "queued"
  BY <1>1 DEF ToSet, Waiting
<1>3. PICK n \in 0 .. Len(waiters) :
        pc' = [w \in Calls |-> IF w = e THEN place
                               ELSE IF w \in {waiters[k] : k \in 1 .. n} THEN "ended"
                               ELSE IF w \in {waiters[k] : k \in {n + 1} \cap DOMAIN waiters}
                               THEN "granted" ELSE pc[w]]
  BY DEF Release
<1>4. d \in {waiters[k] : k \in {n + 1} \cap DOMAIN waiters} /\ c # e
  BY <1>2, <1>3
<1>5. j = n + 1
  BY <1>1, <1>4 DEF IsInjective
<1>6. i \in 1 .. n
  BY <1>1, <1>5
<1>7. pc'[c] = "ended"
  BY <1>3, <1>4, <1>6
<1> QED BY <1>7

LEMMA NextInOrder ==
  ASSUME LimiterInv, Next, NEW c \in Calls, NEW d \in Calls
  PROVE  ~Overtakes(c, d)
<1>1. \A i \in DOMAIN waiters : pc[waiters[i]] = "queued"
  BY DEF LimiterInv, Books, UnitAccounting, Waiting, ToSet
<1>2. CASE pc'[d] = "granted" /\ pc[d] = "queued"
  <2>1. PICK e \in Calls : Step(e)
    BY <1>2 DEF Next, Finished, vars
  <2>2. CASE ReservedUnwanted(e)
    BY <2>2, ReleaseInOrder DEF ReservedUnwanted, Places
  <2>3. CASE ParserReleases(e)
    <3>1. pc[e] \in {"parsing", "aborting", "idle", "returned"}
      BY <2>3, InLineNoUnit DEF ParserReleases
    <3> QED BY <2>3, <3>1, ReleaseInOrder DEF ParserReleases, Places
  <2>4. CASE ~ReservedUnwanted(e) /\ ~ParserReleases(e)
    BY <1>2, <2>1, <2>4
    DEF Step, Acquire, FinishParse, CallOver, CancelMarks, CallReturns, ParseAborts, CacheHit,
        CacheMiss, AcquireAllowed, AcquireRefused, AcquireAtOnce, AcquireQueues,
        TerminalizeWaiter, Woken, StartParser, HitReturned, ParseAbandoned, OutputReceived,
        ParsedAborts, ParseReturns, AbortReturns, ParserSends, Goto, LimiterInv, LimiterTypeOK
  <2> QED BY <2>2, <2>3, <2>4
<1>3. CASE ~(pc'[d] = "granted" /\ pc[d] = "queued")
  BY <1>1, <1>3 DEF Overtakes
<1> QED BY <1>2, <1>3

(* Units are granted in the order of arrival among calls that are alive.   *)
THEOREM FirstComeFirstServed == Spec => NoOvertaking
<1>1. LimiterInv /\ [Next]_vars => [\A c, d \in Calls : ~Overtakes(c, d)]_vars
  BY NextInOrder
<1> QED BY <1>1, LimiterInvariance, PTL DEF Spec, NoOvertaking
===============================================================================
