---------------------------- MODULE CursorContinue ----------------------------
(***************************************************************************)
(* The continuation of one cursor lineage (internal/cursor: continue.go    *)
(* with the parts of successor.go and registry.go it runs through).        *)
(*                                                                         *)
(* A lineage is a chain of pages.  The token of page 0 left with the       *)
(* initial response; the token of page p + 1 is part of the result of page *)
(* p.  Calls present tokens.  The first call for a page starts its         *)
(* computation (and gives the name to it here), later ones wait for it or  *)
(* get its memoized result.  A call waits until its computation ends or    *)
(* expires, or until it is cancelled; a computation that nobody waits for  *)
(* rolls the whole lineage back.                                           *)
(*                                                                         *)
(* Each action is one critical section of Registry.mu with what its        *)
(* goroutine does locally afterwards: an answer to a waiter and the return *)
(* of a lease touch nothing that another goroutine reads under the lock.   *)
(***************************************************************************)
EXTENDS Naturals, FiniteSets

CONSTANTS
  Calls,     \* the calls that continue this lineage
  NoCall,
  MaxPages   \* cfg.CursorMaxPages: the responses of a lineage, the initial one included

ASSUME ContinueAssumption ==   \* CommitDynamicInitial and CommitReadInitial want two pages
  /\ MaxPages \in Nat /\ MaxPages >= 2
  /\ NoCall \notin Calls

(* The entries of a lineage: page p resumes response p + 2.                *)
Pages == 0 .. MaxPages - 2

VARIABLES
  phase,      \* the lineage's flags; "removed" when it is gone
  armed,      \* the initial publication is not yet committed or aborted
  age,        \* against workExpiresAt and commitDeadline
  protected,  \* protectedUntil has not passed
  closed,     \* Registry.closed
  memo,       \* the entries with a memo, and so with a successor
  runtime,    \* entries.runtime: the computation of a page
  pins,       \* lineages.pins
  cancelled,  \* the calls whose context has ended
  noCommit,   \* WorkLease.noCommit, while the call owns its lease itself
  charged,    \* the calls whose WorkLease is not returned
  pc,         \* where a call stands
  asked,      \* the page whose token it presents
  joined,     \* the computation its waiter is attached to
  answer,     \* what its waiter was given
  stage,      \* where the computation started by a call stands
  result,     \* its outcome, or the best it can become: a successor ("more")
              \* or something final
  dead        \* the computations with noCommit

lineageVars == <<phase, armed, age, protected, closed>>
entryVars == <<memo, runtime, pins>>
leaseVars == <<cancelled, noCommit>>
callVars == <<charged, pc, asked, joined, answer>>
computationVars == <<stage, result, dead>>
vars == <<lineageVars, entryVars, leaseVars, callVars, computationVars>>

Live == {"publishing", "published"}       \* the phases in lineagePhaseMask here
Phases == Live \cup {"rollback", "removed"}
Ages == {"fresh", "stale", "over"}
Codes == {"expired", "budget"}
Answers == {"none", "cursor", "end", "closed"} \cup Codes
Results == {"more", "end"} \cup Codes
Stages == {"none", "computing", "returned", "expiring", "discarding", "ending",
           "extending", "finalizing", "publishing", "finished"}

Running == {s \in Calls : stage[s] \notin {"none", "finished"}}
Waiters(s) == {c \in Calls : joined[c] = s}

(* deriveChildToken needs the registry's secret: a client knows the tokens *)
(* it was given.                                                           *)
Known(p) == p = 0 \/ \E c \in Calls : answer[c] = "cursor" /\ asked[c] + 1 = p

Init ==
  /\ phase = "publishing" /\ armed = TRUE /\ age = "fresh" /\ protected = TRUE /\ closed = FALSE
  /\ memo = {} /\ runtime = [p \in Pages |-> NoCall] /\ pins = 0
  /\ cancelled = {} /\ noCommit = {} /\ charged = Calls
  /\ pc = [c \in Calls |-> "idle"] /\ asked = [c \in Calls |-> 0]
  /\ joined = [c \in Calls |-> NoCall] /\ answer = [c \in Calls |-> "none"]
  /\ stage = [c \in Calls |-> "none"] /\ result = [c \in Calls |-> "more"] /\ dead = {}

(* removeLineageLocked and cancelLineageWorkLocked, after runtime' and     *)
(* pins' are settled: a pinned lineage is only marked, and all that still  *)
(* computes for it is cancelled.                                           *)
RemoveLineage ==
  /\ phase' = IF pins' = 0 THEN "removed" ELSE "rollback"
  /\ dead' = IF pins' = 0 THEN dead ELSE dead \cup {s \in Calls : \E p \in Pages : runtime'[p] = s}

(* Every call in who is answered a, or closed without response when it was *)
(* cancelled meanwhile; their leases and those in more are returned.       *)
Deliver(who, a, more) ==
  /\ answer' = [c \in Calls |-> IF c \notin who THEN answer[c]
                                ELSE IF c \in cancelled THEN "closed" ELSE a]
  /\ pc' = [c \in Calls |-> IF c \in who THEN "answered" ELSE pc[c]]
  /\ joined' = [c \in Calls |-> IF c \in who THEN NoCall ELSE joined[c]]
  /\ charged' = (charged \ (who \ Running)) \ more
  /\ UNCHANGED asked

-------------------------------------------------------------------------------
(* Time, the client, and the rest of the registry                          *)

(* Calls have no deadline of their own: a context ends by cancellation.    *)
Cancel(c) ==
  /\ c \notin cancelled
  /\ cancelled' = cancelled \cup {c}
  /\ UNCHANGED <<lineageVars, entryVars, noCommit, callVars, computationVars>>

(* The coordinator marks a lease that has no owner yet.                    *)
MarkNoCommit(c) ==
  /\ c \in cancelled \ noCommit /\ pc[c] \in {"idle", "entering"}
  /\ noCommit' = noCommit \cup {c}
  /\ UNCHANGED <<lineageVars, entryVars, cancelled, callVars, computationVars>>

(* protectedUntil never lies behind commitDeadline.                        *)
TimePasses ==
  /\ \/ /\ protected /\ protected' = FALSE /\ UNCHANGED age
     \/ /\ age = "fresh" /\ age' = "stale" /\ UNCHANGED protected
     \/ /\ age = "stale" /\ ~protected /\ age' = "over" /\ UNCHANGED protected
  /\ UNCHANGED <<phase, armed, closed, entryVars, leaseVars, callVars, computationVars>>

(* InitialPublication.Commit and its failure                               *)
PublicationCommits ==
  /\ armed /\ armed' = FALSE
  /\ phase' = IF phase = "publishing" THEN "published" ELSE phase
  /\ UNCHANGED <<age, protected, closed, entryVars, leaseVars, callVars, computationVars>>

PublicationAborts ==
  /\ armed /\ armed' = FALSE
  /\ UNCHANGED entryVars
  /\ IF phase = "removed" THEN UNCHANGED <<phase, dead>> ELSE RemoveLineage
  /\ UNCHANGED <<age, protected, closed, leaseVars, callVars, stage, result>>

(* Another lineage needs the room.                                         *)
Evict ==
  /\ phase = "published" /\ pins = 0 /\ ~protected
  /\ UNCHANGED entryVars
  /\ RemoveLineage
  /\ UNCHANGED <<armed, age, protected, closed, leaseVars, callVars, stage, result>>

Close ==
  /\ ~closed /\ closed' = TRUE
  /\ UNCHANGED entryVars
  /\ IF phase = "removed" THEN UNCHANGED <<phase, dead>> ELSE RemoveLineage
  /\ UNCHANGED <<armed, age, protected, leaseVars, callVars, stage, result>>

-------------------------------------------------------------------------------
(* Registry.Continue                                                       *)

(* The waiter is asked before the lock is taken whether it is cancelled.   *)
Enter(c, p) ==
  /\ pc[c] = "idle" /\ Known(p)
  /\ IF c \in cancelled
     THEN Deliver({c}, "closed", {})
     ELSE /\ pc' = [pc EXCEPT ![c] = "entering"]
          /\ asked' = [asked EXCEPT ![c] = p]
          /\ UNCHANGED <<charged, joined, answer>>
  /\ UNCHANGED <<lineageVars, entryVars, leaseVars, computationVars>>

(* expiredLocked                                                           *)
Expired == age = "over" \/ (age = "stale" /\ ~protected)

(* resolveLocked finds no entry in a live lineage.                         *)
LookupFails(c) ==
  /\ pc[c] = "entering" /\ (closed \/ phase \notin Live)
  /\ Deliver({c}, "expired", {})
  /\ UNCHANGED <<lineageVars, entryVars, leaseVars, computationVars>>

LookupExpires(c) ==
  /\ pc[c] = "entering" /\ ~closed /\ phase \in Live /\ Expired
  /\ UNCHANGED entryVars
  /\ RemoveLineage
  /\ Deliver({c}, "expired", {})
  /\ UNCHANGED <<armed, age, protected, closed, leaseVars, stage, result>>

Resolved(c) == pc[c] = "entering" /\ ~closed /\ phase \in Live /\ ~Expired

Replay(c) ==
  /\ Resolved(c) /\ asked[c] \in memo
  /\ Deliver({c}, "cursor", {})
  /\ UNCHANGED <<lineageVars, entryVars, leaseVars, computationVars>>

(* Transfer fails: the join or the start is undone.                        *)
TransferFails(c) ==
  /\ Resolved(c) /\ asked[c] \notin memo /\ c \in noCommit
  /\ Deliver({c}, "closed", {})
  /\ UNCHANGED <<lineageVars, entryVars, leaseVars, computationVars>>

Join(c) ==
  /\ Resolved(c) /\ asked[c] \notin memo /\ c \notin noCommit
  /\ LET active == runtime[asked[c]] IN
       /\ active # NoCall /\ active \notin dead
       /\ joined' = [joined EXCEPT ![c] = active]
  /\ pc' = [pc EXCEPT ![c] = "waiting"]
  /\ UNCHANGED <<charged, asked, answer, lineageVars, entryVars, leaseVars, computationVars>>

(* Mutated form: a second call for a page computes it a second time.       *)
Start_Unshared(c) ==
  /\ Resolved(c) /\ asked[c] \notin memo /\ c \notin noCommit
  /\ runtime' = [runtime EXCEPT ![asked[c]] = c]
  /\ pins' = pins + 1
  /\ stage' = [stage EXCEPT ![c] = "computing"]
  /\ joined' = [joined EXCEPT ![c] = c]
  /\ pc' = [pc EXCEPT ![c] = "waiting"]
  /\ UNCHANGED <<memo, charged, asked, answer, result, dead, lineageVars, leaseVars>>

Start(c) ==
  /\ Resolved(c) /\ asked[c] \notin memo /\ c \notin noCommit
  /\ runtime[asked[c]] = NoCall
  /\ runtime' = [runtime EXCEPT ![asked[c]] = c]
  /\ pins' = pins + 1
  /\ stage' = [stage EXCEPT ![c] = "computing"]
  /\ joined' = [joined EXCEPT ![c] = c]
  /\ pc' = [pc EXCEPT ![c] = "waiting"]
  /\ UNCHANGED <<memo, charged, asked, answer, result, dead, lineageVars, leaseVars>>

-------------------------------------------------------------------------------
(* The end of one waiter                                                   *)

(* Mutated form: the lease of the starter is returned with its waiter.     *)
Detach_FreesStarter(c) ==
  LET active == joined[c] IN
  /\ Deliver({c}, "closed", {c})
  /\ IF Waiters(active) = {c}
     THEN dead' = dead \cup {active} /\ phase' = "rollback"
     ELSE UNCHANGED <<dead, phase>>
  /\ UNCHANGED <<armed, age, protected, closed, entryVars, leaseVars, stage>>

(* Mutated form: the computation goes with the call that started it.       *)
Detach_StarterEnds(c) ==
  LET active == joined[c] IN
  /\ Deliver({c}, "closed", {})
  /\ IF Waiters(active) = {c} \/ c = active
     THEN dead' = dead \cup {active} /\ phase' = "rollback"
     ELSE UNCHANGED <<dead, phase>>
  /\ UNCHANGED <<armed, age, protected, closed, entryVars, leaseVars, stage>>

(* cancelWaiter with tombstoneComputationLocked.  A computation that loses *)
(* its last waiter is cancelled and condemns the lineage.  The lease of    *)
(* the starter stays with the computation.                                 *)
Detach(c) ==
  LET active == joined[c] IN
  /\ Deliver({c}, "closed", {})
  /\ IF Waiters(active) = {c}
     THEN dead' = dead \cup {active} /\ phase' = "rollback"
     ELSE UNCHANGED <<dead, phase>>
  /\ UNCHANGED <<armed, age, protected, closed, entryVars, leaseVars, stage>>

(* watchCancellation, or the coordinator marking the lease: of a joined    *)
(* call through node.MarkNoCommit, of the starter through                  *)
(* HandleSharedNoCommit.                                                   *)
CancelWaiter(c) ==
  /\ c \in cancelled /\ joined[c] # NoCall
  /\ Detach(c)
  /\ UNCHANGED result

-------------------------------------------------------------------------------
(* The computation                                                         *)

(* The computation's context is cancelled with noCommit and has the        *)
(* lineage's commitDeadline as its deadline.                               *)
Late == age = "over"

Advance(s, from, to) == stage[s] = from /\ stage' = [stage EXCEPT ![s] = to]

ComputeReturns(s) ==
  /\ Advance(s, "computing", "returned")
  /\ \E r \in {result[s], "end"} : result' = [result EXCEPT ![s] = r]
  /\ UNCHANGED <<lineageVars, entryVars, leaseVars, callVars, dead>>

(* Work below the computation gives up at its scan deadline and marks the  *)
(* starter's lease (codeparse), although the starter is not cancelled.     *)
(* The page becomes an error.                                              *)
ComputationMarks(s) ==
  /\ stage[s] = "computing" /\ joined[s] = s
  /\ Detach(s)
  /\ result' = [result EXCEPT ![s] = "end"]

(* expireComputation                                                       *)
Expire(s) ==
  /\ Deliver(Waiters(s), "expired", {})
  /\ dead' = dead \cup {s} /\ phase' = "rollback"

WatchDeadline(s) ==
  /\ s \in Running \ dead /\ Late
  /\ Expire(s)
  /\ UNCHANGED <<armed, age, protected, closed, entryVars, leaseVars, stage, result>>

(* computationStatus                                                       *)
Status(s) ==
  /\ stage[s] = "returned"
  /\ stage' = [stage EXCEPT ![s] =
       IF s \in dead \/ closed THEN "discarding"
       ELSE IF Late THEN "expiring"
       ELSE IF result[s] = "more" THEN "extending" ELSE "ending"]
  /\ UNCHANGED <<lineageVars, entryVars, leaseVars, callVars, result, dead>>

StatusExpires(s) ==
  /\ Advance(s, "expiring", "discarding")
  /\ IF s \in dead THEN UNCHANGED <<phase, dead, callVars>> ELSE Expire(s)
  /\ UNCHANGED <<armed, age, protected, closed, entryVars, leaseVars, result>>

(* The outcome becomes final with code.                                    *)
EndsWith(s, code) ==
  /\ stage' = [stage EXCEPT ![s] = "ending"]
  /\ result' = [result EXCEPT ![s] = code]

(* previewSuccessor                                                        *)
Preview(s) ==
  /\ stage[s] = "extending"
  /\ IF s \in dead \/ closed \/ phase \notin Live \/ age # "fresh"
     THEN EndsWith(s, "expired")
     ELSE stage' = [stage EXCEPT ![s] = "finalizing"] /\ UNCHANGED result
  /\ UNCHANGED <<lineageVars, entryVars, leaseVars, callVars, dead>>

(* outcome.Finalize cannot render the page.                                *)
FinalizeFails(s) ==
  /\ stage[s] = "finalizing" /\ EndsWith(s, "end")
  /\ UNCHANGED <<lineageVars, entryVars, leaseVars, callVars, dead>>

(* materializeSuccessor: its refusals in their order ...                   *)
MaterializeRefused(s) ==
  /\ stage[s] = "finalizing"
  /\ UNCHANGED entryVars
  /\ \/ (closed \/ phase \notin Live) /\ EndsWith(s, "expired") /\ UNCHANGED <<phase, dead>>
     \/ ~closed /\ phase \in Live /\ Expired /\ EndsWith(s, "expired") /\ RemoveLineage
     \/ /\ ~closed /\ phase \in Live /\ ~Expired
        /\ EndsWith(s, IF asked[s] + 3 > MaxPages \/ age = "fresh" THEN "budget" ELSE "expired")
        /\ UNCHANGED <<phase, dead>>
  /\ UNCHANGED <<armed, age, protected, closed, leaseVars, callVars>>

(* ... and the successor                                                   *)
Materialize(s) ==
  /\ stage[s] = "finalizing"
  /\ ~closed /\ phase \in Live /\ age = "fresh" /\ asked[s] + 3 <= MaxPages
  /\ memo' = memo \cup {asked[s]}
  /\ protected' = TRUE
  /\ stage' = [stage EXCEPT ![s] = "publishing"]
  /\ UNCHANGED <<phase, armed, age, closed, runtime, pins, leaseVars, callVars, result, dead>>

(* What finishPartial, finishTerminal and finishDiscarded have in common:  *)
(* the waiters get a, and the computation and its lease are gone.          *)
Finish(s, a) ==
  /\ Deliver(Waiters(s), a, {s})
  /\ runtime' = [runtime EXCEPT ![asked[s]] = NoCall]
  /\ pins' = pins - 1
  /\ stage' = [stage EXCEPT ![s] = "finished"]
  /\ UNCHANGED <<memo, armed, age, protected, closed, leaseVars, result>>

(* Mutated form: what happened since materializeSuccessor is not looked at.*)
FinishPartial_Unchecked(s) ==
  /\ stage[s] = "publishing"
  /\ Finish(s, "cursor")
  /\ UNCHANGED <<phase, dead>>

FinishPartial(s) ==
  /\ stage[s] = "publishing"
  /\ IF ~closed /\ s \notin dead /\ phase \in Live
     THEN Finish(s, "cursor") /\ UNCHANGED <<phase, dead>>
     ELSE Finish(s, "closed") /\ RemoveLineage

FinishTerminal(s) ==
  /\ stage[s] = "ending"
  /\ Finish(s, IF closed \/ s \in dead THEN "closed" ELSE result[s])
  /\ RemoveLineage

(* Mutated form: the waiters of a condemned lineage are forgotten.         *)
FinishDiscarded_Silent(s) ==
  /\ stage[s] = "discarding"
  /\ runtime' = [runtime EXCEPT ![asked[s]] = NoCall]
  /\ pins' = pins - 1
  /\ stage' = [stage EXCEPT ![s] = "finished"]
  /\ charged' = charged \ {s}
  /\ RemoveLineage
  /\ UNCHANGED <<memo, armed, age, protected, closed, leaseVars, result, pc, asked, joined, answer>>

FinishDiscarded(s) == stage[s] = "discarding" /\ Finish(s, "closed") /\ RemoveLineage

-------------------------------------------------------------------------------
Continue(c) ==
  LookupFails(c) \/ LookupExpires(c) \/ Replay(c) \/ TransferFails(c) \/ Join(c) \/ Start(c)

Conclude(s) ==
  \/ Status(s) \/ StatusExpires(s) \/ Preview(s)
  \/ FinalizeFails(s) \/ MaterializeRefused(s) \/ Materialize(s)
  \/ FinishPartial(s) \/ FinishTerminal(s) \/ FinishDiscarded(s)

Step(c) ==
  \/ Cancel(c) \/ MarkNoCommit(c) \/ (\E p \in Pages : Enter(c, p)) \/ Continue(c) \/ CancelWaiter(c)
  \/ ComputeReturns(c) \/ ComputationMarks(c) \/ WatchDeadline(c) \/ Conclude(c)

(* Every call was answered, and nothing computes.                          *)
Finished == (\A c \in Calls : pc[c] = "answered") /\ Running = {} /\ UNCHANGED vars

Next ==
  \/ \E c \in Calls : Step(c)
  \/ TimePasses \/ PublicationCommits \/ PublicationAborts \/ Evict \/ Close
  \/ Finished

Spec == Init /\ [][Next]_vars

(* Time passes, goroutines take their steps, and a computation returns     *)
(* once its context has ended.  Nobody has to cancel.                      *)
Fairness ==
  /\ WF_vars(TimePasses)
  /\ \A c \in Calls :
       /\ WF_vars(CancelWaiter(c))
       /\ WF_vars(WatchDeadline(c))
       /\ WF_vars((c \in dead \/ Late) /\ ComputeReturns(c))
       /\ WF_vars(Conclude(c))

FairSpec == Spec /\ Fairness

(* The same without the last promise: a computation may hang, say in the   *)
(* read of a file.                                                         *)
UncooperativeSpec ==
  /\ Spec
  /\ WF_vars(TimePasses)
  /\ \A c \in Calls : WF_vars(CancelWaiter(c)) /\ WF_vars(WatchDeadline(c)) /\ WF_vars(Conclude(c))
-------------------------------------------------------------------------------
(* Properties                                                              *)

TypeOK ==
  /\ phase \in Phases /\ age \in Ages
  /\ armed \in BOOLEAN /\ protected \in BOOLEAN /\ closed \in BOOLEAN
  /\ memo \subseteq Pages
  /\ runtime \in [Pages -> Calls \cup {NoCall}]
  /\ pins \in Nat
  /\ cancelled \subseteq Calls /\ noCommit \subseteq Calls /\ charged \subseteq Calls
  /\ pc \in [Calls -> {"idle", "entering", "waiting", "answered"}]
  /\ asked \in [Calls -> Pages]
  /\ joined \in [Calls -> Calls \cup {NoCall}]
  /\ answer \in [Calls -> Answers]
  /\ stage \in [Calls -> Stages] /\ result \in [Calls -> Results]
  /\ dead \subseteq Calls

(* The pins of the lineage and the runtime column of its entries say what  *)
(* computes, so that the lineage and its root handle stay until the last   *)
(* computation has ended.                                                  *)
PinsExact ==
  /\ IsFiniteSet(Running) /\ pins = Cardinality(Running)
  /\ \A p \in Pages, s \in Calls : runtime[p] = s <=> s \in Running /\ asked[s] = p
  /\ phase = "removed" => Running = {}

(* A call that waits is attached to the running computation of its page,   *)
(* and a call is attached only while it waits: no waiter is forgotten, and *)
(* none hears a second time.                                               *)
WaitersHeld ==
  \A c \in Calls :
    /\ pc[c] = "waiting" <=> joined[c] # NoCall
    /\ pc[c] = "answered" <=> answer[c] # "none"
    /\ joined[c] # NoCall => joined[c] \in Running /\ asked[joined[c]] = asked[c]

(* A computation that nobody waits for is cancelled, and the lineage of a  *)
(* cancelled computation is on its way out: nothing is computed for nobody,*)
(* and nobody can join a computation that will not answer.                 *)
CondemnedTogether ==
  \A s \in Running :
    /\ Waiters(s) = {} => s \in dead
    /\ s \in dead => phase = "rollback"

(* A lease is returned exactly when its call has been answered and no      *)
(* computation that it pays for runs: a starter that was cancelled stays   *)
(* charged while others, or nobody, wait for its page.                     *)
SlotsCharged == charged = {c \in Calls : pc[c] # "answered"} \cup Running

(* What the lineage, its computations, their waiters and the slots they    *)
(* are charged hold of one another, and that none is held for nobody.      *)
HoldingsExact == PinsExact /\ WaitersHeld /\ SlotsCharged /\ CondemnedTogether

(* "A cursor ... advances once" (TOOLS.md): no page is computed twice,     *)
(* whatever happened to the first computation and its waiters.             *)
AdvancesOnce ==
  \A s, t \in Calls :
    stage[s] # "none" /\ stage[t] # "none" /\ asked[s] = asked[t] => s = t

(* The cursor in an answer works at the moment the answer is given: its    *)
(* entry exists, in a live lineage of an open registry.                    *)
CursorsLive ==
  [][\A c \in Calls : answer'[c] = "cursor" /\ answer[c] = "none" =>
       asked[c] \in memo /\ phase' \in Live /\ ~closed]_vars

(* A call that gives up takes nothing from the others: the computation     *)
(* they wait for goes on, even without the call that started it.           *)
OthersGoOn ==
  [][\A c, d \in Calls :
       joined[c] # NoCall /\ joined[d] = joined[c] /\ joined'[c] = NoCall /\ joined'[d] = joined[d]
         => joined[d] \in dead \/ joined[d] \notin dead']_vars

(* Every call that waits is answered, even if no client cancels.           *)
EveryWaiterAnswered == \A c \in Calls : pc[c] = "waiting" ~> pc[c] = "answered"

(* Who waits in a published lineage is answered by the commit deadline,    *)
(* even if the computation never returns (continue_test.go:331,            *)
(* "CommitDeadlineRespondsBeforeUncooperativeWorkerCleanup").              *)
DeadlineAnswers ==
  \A c \in Calls :
    pc[c] = "waiting" /\ phase = "published" ~> pc[c] = "answered" \/ closed

(* A condemned lineage is removed: its root handle and memory are freed.   *)
RollbackCompletes == phase = "rollback" ~> phase = "removed"

(* Nobody waits for ever for a lineage: not a call, and not its memory.    *)
ContinueCompletes == EveryWaiterAnswered /\ RollbackCompletes
===============================================================================
