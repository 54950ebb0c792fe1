----------------------------- MODULE ParseService -----------------------------
(***************************************************************************)
(* The sub-work limiter (internal/runtime/sub_limiter.go) under its most   *)
(* demanding client, the code parsing service (internal/codeparse:         *)
(* service.go, cache.go).                                                  *)
(*                                                                         *)
(* A call parses files one after the other.  Each Parse that misses the    *)
(* cache takes a unit of the limiter, starts a parser goroutine and waits  *)
(* for its output, for the end of its context or for its deadline.  A      *)
(* parser cannot be interrupted: one that its call gave up runs on and     *)
(* keeps the unit.                                                         *)
(*                                                                         *)
(* The end of a context and the passing of a deadline never revert, and    *)
(* the code treats them alike but for the error code, so that one set      *)
(* (over) stands for both.                                                 *)
(***************************************************************************)
EXTENDS ParseCache

CONSTANTS
  Calls,       \* the calls, each with its WorkLease
  Shared,      \* those that compute a page for which other calls may wait
  MaxParsers   \* SubLimiter.max

ASSUME ParseLimitsAssumption ==   \* checked by NewSubLimiter
  /\ Shared \subseteq Calls
  /\ MaxParsers \in Nat \ {0}

VARIABLES
  over,      \* the calls whose context is done or whose deadline has passed
  noCommit,  \* the calls whose WorkLease.noCommit is set
  pc,        \* where a call stands
  file,      \* the file a call parses
  active,    \* SubLimiter.active
  waiters,   \* SubLimiter.waiters, head first
  parents,   \* the keys of the map SubLimiter.parents
  parser,    \* the call's parser goroutine; the output it has sent
  cache      \* Service.cache

callVars == <<over, noCommit>>
limiterVars == <<active, waiters, parents>>
vars == <<callVars, pc, file, limiterVars, parser, cache>>

(* idle      the call does something else                                  *)
(* hit       Parse found the result in the cache                           *)
(* acquire   Acquire is called                                             *)
(* enter     its first tests have passed, and it takes SubLimiter.mu       *)
(* queued    waiting, subWaiter.outcome is not yet set                     *)
(* granted   ready is closed with outcome SubAcquired ...                  *)
(* ended     ... or with another outcome                                   *)
(* reserved  a unit was granted; finishReserved is next                    *)
(* parsing   waiting for the parser, the context or the timer              *)
(* parsed    the parser's output was received and the call not aborted     *)
(* aborting  Parse is about to mark the parent and to return CallAborted   *)
(* returned  the call's worker has returned                                *)
Places == {"idle", "hit", "acquire", "enter", "queued", "granted", "ended",
           "reserved", "parsing", "parsed", "aborting", "returned"}
Outputs == {"usable", "fatal"}
Parsers == {"none", "running", "released"} \cup Outputs

Waiting == {c \in Calls : pc[c] = "queued"}
Holders == {c \in Calls : pc[c] \in {"granted", "reserved"} \/ parser[c] = "running"}

Init ==
  /\ over = {} /\ noCommit = {}
  /\ pc = [c \in Calls |-> "idle"]
  /\ file \in [Calls -> Files]
  /\ active = 0 /\ waiters = <<>> /\ parents = {}
  /\ parser = [c \in Calls |-> "none"]
  /\ cache = EmptyCache

Goto(c, place) == pc' = [pc EXCEPT ![c] = place]

-------------------------------------------------------------------------------
(* The call's surroundings                                                 *)

(* The client cancels, the deadline passes, or shutdown cancels the call.  *)
CallOver(c) ==
  /\ c \notin over
  /\ over' = over \cup {c}
  /\ UNCHANGED <<noCommit, pc, file, limiterVars, parser, cache>>

(* The coordinator marks the call's lease after it has cancelled it.       *)
CancelMarks(c) ==
  /\ c \in over \ noCommit /\ pc[c] # "returned"
  /\ noCommit' = noCommit \cup {c}
  /\ UNCHANGED <<over, pc, file, limiterVars, parser, cache>>

(* WorkLease.WorkerReturned: the parser, if any, stays behind.             *)
CallReturns(c) ==
  /\ pc[c] = "idle"
  /\ Goto(c, "returned")
  /\ UNCHANGED <<callVars, file, limiterVars, parser, cache>>

-------------------------------------------------------------------------------
(* Parse up to Acquire                                                     *)

ParseAborts(c) ==
  /\ pc[c] = "idle" /\ c \in over
  /\ Goto(c, "aborting")
  /\ UNCHANGED <<callVars, file, limiterVars, parser, cache>>

(* Cache.get moves the entry to the front of the list.                     *)
CacheHit(c, f) ==
  /\ pc[c] = "idle" /\ c \notin over
  /\ Cached(cache, f)
  /\ cache' = Used(cache, f)
  /\ file' = [file EXCEPT ![c] = f]
  /\ Goto(c, "hit")
  /\ UNCHANGED <<callVars, limiterVars, parser>>

HitReturned(c) ==
  /\ pc[c] = "hit"
  /\ Goto(c, IF c \in over THEN "aborting" ELSE "idle")
  /\ UNCHANGED <<callVars, file, limiterVars, parser, cache>>

CacheMiss(c, f) ==
  /\ pc[c] = "idle" /\ c \notin over
  /\ ~Cached(cache, f)
  /\ file' = [file EXCEPT ![c] = f]
  /\ Goto(c, "acquire")
  /\ UNCHANGED <<callVars, limiterVars, parser, cache>>

-------------------------------------------------------------------------------
(* SubLimiter.Acquire                                                      *)

(* The tests before the lock: lease, context, deadline.                    *)
AcquireAllowed(c) ==
  /\ pc[c] = "acquire"
  /\ Goto(c, IF c \in over \cup noCommit THEN "aborting" ELSE "enter")
  /\ UNCHANGED <<callVars, file, limiterVars, parser, cache>>

(* Under the lock the lease is tested again, after the assertion that the  *)
(* call owns no unit.                                                      *)
AcquireRefused(c) ==
  /\ pc[c] = "enter" /\ c \notin parents
  /\ c \in noCommit
  /\ Goto(c, "aborting")
  /\ UNCHANGED <<callVars, file, limiterVars, parser, cache>>

(* The context may end between the test and the lock: nothing then stops   *)
(* the reservation, and finishReserved tests it again.                     *)
AcquireAtOnce(c) ==
  /\ pc[c] = "enter" /\ c \notin parents /\ c \notin noCommit
  /\ active < MaxParsers /\ waiters = <<>>
  /\ active' = active + 1
  /\ parents' = parents \cup {c}
  /\ Goto(c, "reserved")
  /\ UNCHANGED <<callVars, file, waiters, parser, cache>>

AcquireQueues(c) ==
  /\ pc[c] = "enter" /\ c \notin parents /\ c \notin noCommit
  /\ ~(active < MaxParsers /\ waiters = <<>>)
  /\ waiters' = Append(waiters, c)
  /\ parents' = parents \cup {c}
  /\ Goto(c, "queued")
  /\ UNCHANGED <<callVars, file, active, parser, cache>>

(* ctx.Done() or the timer, and terminalizeWaiter finds the outcome unset. *)
(* (When it finds it set, the call goes on as Woken says.)                 *)
TerminalizeWaiter(c) ==
  /\ pc[c] = "queued" /\ c \in over
  /\ \E k \in DOMAIN waiters : waiters[k] = c /\ waiters' = RemoveAt(waiters, k)
  /\ parents' = parents \ {c}
  /\ Goto(c, "ended")
  /\ UNCHANGED <<callVars, file, active, parser, cache>>

Woken(c) ==
  /\ pc[c] \in {"granted", "ended"}
  /\ Goto(c, IF pc[c] = "granted" THEN "reserved" ELSE "aborting")
  /\ UNCHANGED <<callVars, file, limiterVars, parser, cache>>

(* Mutated form: only the head of the line is looked at, dead or not.      *)
Release_DeadHead(c, place) ==
  /\ IF waiters = <<>>
     THEN /\ active' = active - 1 /\ UNCHANGED waiters
          /\ parents' = parents \ {c}
          /\ Goto(c, place)
     ELSE LET head == Head(waiters) IN
          /\ waiters' = Tail(waiters)
          /\ active' = IF head \in over THEN active - 1 ELSE active
          /\ parents' = parents \ ({c} \cup ({head} \cap over))
          /\ pc' = [pc EXCEPT ![c] = place,
                             ![head] = IF head \in over THEN "ended" ELSE "granted"]

(* Mutated form: the youngest waiter is served first.                      *)
Release_Youngest(c, place) ==
  /\ parents' = parents \ {c}
  /\ IF waiters = <<>>
     THEN /\ active' = active - 1 /\ UNCHANGED waiters
          /\ Goto(c, place)
     ELSE /\ waiters' = Front(waiters)
          /\ UNCHANGED active
          /\ pc' = [pc EXCEPT ![c] = place, ![Last(waiters)] = "granted"]

(* release(c) with promoteHeadLocked: the dead waiters at the head of the  *)
(* line (n of them) are ended, and the first live one gets the unit.  The  *)
(* call c goes on at place.                                                *)
Release(c, place) ==
  \E n \in 0 .. Len(waiters) :
    LET dead == {waiters[i] : i \in 1 .. n}
        live == {waiters[i] : i \in {n + 1} \cap DOMAIN waiters}
    IN /\ dead \subseteq over /\ live \cap over = {}
       /\ active' = IF live = {} THEN active - 1 ELSE active
       /\ waiters' = SubSeq(waiters, n + 2, Len(waiters))
       /\ parents' = parents \ ({c} \cup dead)
       /\ pc' = [w \in Calls |-> IF w = c THEN place
                                 ELSE IF w \in dead THEN "ended"
                                 ELSE IF w \in live THEN "granted" ELSE pc[w]]

(* finishReserved                                                          *)
ReservedUnwanted(c) ==
  /\ pc[c] = "reserved" /\ c \in over \cup noCommit
  /\ Release(c, "aborting")
  /\ UNCHANGED <<callVars, file, parser, cache>>

(* ... and Parse starts the parser goroutine.                              *)
StartParser(c) ==
  /\ pc[c] = "reserved" /\ c \notin over \cup noCommit
  /\ parser' = [parser EXCEPT ![c] = "running"]
  /\ Goto(c, "parsing")
  /\ UNCHANGED <<callVars, file, limiterVars, cache>>

-------------------------------------------------------------------------------
(* The parser goroutine and the end of Parse                               *)

(* The parser returns or panics: lease.WorkerReturned() releases its unit. *)
ParserReleases(c) ==
  /\ parser[c] = "running"
  /\ Release(c, pc[c])
  /\ parser' = [parser EXCEPT ![c] = "released"]
  /\ UNCHANGED <<callVars, file, cache>>

(* The channel is buffered: the output is sent even if nobody receives it. *)
ParserSends(c) ==
  /\ parser[c] = "released"
  /\ \E output \in Outputs : parser' = [parser EXCEPT ![c] = output]
  /\ UNCHANGED <<callVars, pc, file, limiterVars, cache>>

(* Mutated form: the call waits for its parser whatever happens.           *)
ParseAbandoned_Never(c) ==
  /\ pc[c] = "parsing" /\ c \in over /\ parser[c] \in Outputs
  /\ Goto(c, "aborting")
  /\ UNCHANGED <<callVars, file, limiterVars, parser, cache>>

(* The select takes ctx.Done() or the timer, ready output or not.          *)
ParseAbandoned(c) ==
  /\ pc[c] = "parsing" /\ c \in over
  /\ Goto(c, "aborting")
  /\ UNCHANGED <<callVars, file, limiterVars, parser, cache>>

(* The select takes the output.  A fatal one is returned as an error.      *)
OutputReceived(c) ==
  /\ pc[c] = "parsing" /\ parser[c] \in Outputs
  /\ parser' = [parser EXCEPT ![c] = "none"]
  /\ Goto(c, IF c \in over THEN "aborting"
             ELSE IF parser[c] = "fatal" THEN "idle" ELSE "parsed")
  /\ UNCHANGED <<callVars, file, limiterVars, cache>>

(* The second test, after classifyParse.                                   *)
ParsedAborts(c) ==
  /\ pc[c] = "parsed" /\ c \in over
  /\ Goto(c, "aborting")
  /\ UNCHANGED <<callVars, file, limiterVars, parser, cache>>

ParseReturns(c) ==
  /\ pc[c] = "parsed" /\ c \notin over
  /\ Goto(c, "idle")
  /\ cache' = Put(cache, file[c])
  /\ UNCHANGED <<callVars, file, limiterVars, parser>>

(* Mutated form: the abort is reported without marking the lease.          *)
AbortReturns_Unmarked(c) ==
  /\ pc[c] = "aborting"
  /\ Goto(c, "idle")
  /\ UNCHANGED <<callVars, file, limiterVars, parser, cache>>

(* parent.MarkNoCommit(), and CallAborted is returned.  A lease shared     *)
(* with waiting calls only loses its own waiter: HandleSharedNoCommit      *)
(* retains it unmarked (see CursorContinue).                               *)
AbortReturns(c) ==
  /\ pc[c] = "aborting"
  /\ noCommit' \in {noCommit \cup {c}} \cup {noCommit : s \in Shared \cap {c}}
  /\ Goto(c, "idle")
  /\ UNCHANGED <<over, file, limiterVars, parser, cache>>

-------------------------------------------------------------------------------
Acquire(c) ==
  AcquireAllowed(c) \/ AcquireRefused(c) \/ AcquireAtOnce(c) \/ AcquireQueues(c)
  \/ TerminalizeWaiter(c) \/ Woken(c) \/ ReservedUnwanted(c) \/ StartParser(c)
FinishParse(c) ==
  HitReturned(c) \/ ParseAbandoned(c) \/ OutputReceived(c) \/ ParsedAborts(c) \/ ParseReturns(c)
  \/ AbortReturns(c)

Step(c) ==
  \/ CallOver(c) \/ CancelMarks(c) \/ CallReturns(c)
  \/ ParseAborts(c) \/ \E f \in Files : CacheHit(c, f) \/ CacheMiss(c, f)
  \/ Acquire(c) \/ FinishParse(c)
  \/ ParserReleases(c) \/ ParserSends(c)

(* Every call has returned, and every parser: the service idles.           *)
Finished ==
  /\ \A c \in Calls : pc[c] = "returned" /\ c \in over /\ parser[c] \notin {"running", "released"}
  /\ UNCHANGED vars

Next == (\E c \in Calls : Step(c)) \/ Finished

Spec == Init /\ [][Next]_vars

(* Deadlines pass, and the goroutine of a call takes the steps it can      *)
(* take.  Nothing is asked of a parser: it may run for ever.               *)
Fairness ==
  \A c \in Calls :
    /\ WF_vars(CallOver(c))
    /\ WF_vars(Acquire(c))
    /\ WF_vars(FinishParse(c))

FairSpec == Spec /\ Fairness
-------------------------------------------------------------------------------
(* Properties                                                              *)

LimiterTypeOK ==
  /\ over \subseteq Calls /\ noCommit \subseteq Calls
  /\ pc \in [Calls -> Places]
  /\ file \in [Calls -> Files]
  /\ active \in Nat
  /\ waiters \in Seq(Calls)
  /\ parents \subseteq Calls
  /\ parser \in [Calls -> Parsers]

(* The limiter's counter, list and map agree with what the goroutines      *)
(* hold: a unit is charged for each granted call and each parser that      *)
(* runs, whether or not its call still waits for it, the list has every    *)
(* waiting call once, the map has both.  In particular release never finds *)
(* the limiter idle or the call without ownership (its two panics).        *)
UnitAccounting ==
  /\ IsFiniteSet(Holders) /\ active = Cardinality(Holders)
  /\ active <= MaxParsers
  /\ IsInjective(waiters) /\ ToSet(waiters) = Waiting
  /\ parents = Waiting \cup Holders

(* No call waits while a unit is free, although waiters leave the line     *)
(* from anywhere and grants come back unused.                              *)
UnitsInUse == waiters # <<>> => active = MaxParsers

(* The two together: as many units are taken as parsers run, and as can be.*)
UnitsExact == UnitAccounting /\ UnitsInUse

(* Acquire never meets the panic "parent already owns sub-work": a call    *)
(* that returns from Parse has either got the unit of its parser back, or  *)
(* is over for good and will not come this far again.                      *)
NoSecondUnit == \A c \in Calls : pc[c] = "enter" => c \notin parents

(* A call whose parser was abandoned publishes nothing: between two        *)
(* parses, and when it has returned, its time is over (so that its page is *)
(* an error), and its lease is marked unless other calls wait for the page.*)
AbandonedMarked ==
  \A c \in Calls : pc[c] \in {"idle", "returned"} /\ parser[c] # "none" =>
    c \in over /\ c \in noCommit \cup Shared

(* Both: a call whose parser was abandoned does nothing more.              *)
AbandonedBarred == NoSecondUnit /\ AbandonedMarked

(* Units are granted in the order of arrival: whoever is granted one while *)
(* waiting leaves no live call ahead of it.                                *)
Overtakes(c, d) ==
  \E i, j \in DOMAIN waiters :
    /\ i < j /\ waiters[i] = c /\ waiters[j] = d
    /\ pc'[c] = "queued" /\ pc'[d] = "granted"

NoOvertaking == [][\A c, d \in Calls : ~Overtakes(c, d)]_vars

(* No call is hostage to a parser: Parse returns by the call's deadline    *)
(* even if every parser runs for ever.                                     *)
InParse(c) == pc[c] \notin {"idle", "returned"}

ParseEnds == \A c \in Calls : InParse(c) ~> ~InParse(c)
===============================================================================
