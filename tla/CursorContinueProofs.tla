------------------------- MODULE CursorContinueProofs -------------------------
(***************************************************************************)
(* Proofs about CursorContinue, for every number of calls and of pages.    *)
(*                                                                         *)
(* IInv adds to the safety properties what a computation has done by the   *)
(* stage it is in (Computations).  Most steps leave the set of running     *)
(* computations alone: they answer some calls, move a computation on, and  *)
(* may condemn the lineage.  RunsOn covers them all; Enter, Join, Start    *)
(* and Finish are left.                                                    *)
(***************************************************************************)
EXTENDS CursorContinue, FiniteSetTheorems, TLAPS

(* A started computation took its call along and, when it waits, its       *)
(* waiter; only a started one can be cancelled; what it says at the end is *)
(* final; its page has a memo before it is published; and it leaves a memo *)
(* behind, or a lineage on its way out.                                    *)
Computations ==
  \A s \in Calls :
    /\ stage[s] # "none" => pc[s] \in {"waiting", "answered"} /\ joined[s] \in {s, NoCall}
    /\ stage[s] = "none" => s \notin dead
    /\ stage[s] = "ending" => result[s] # "more"
    /\ stage[s] = "publishing" => asked[s] \in memo
    /\ stage[s] = "finished" => asked[s] \in memo \/ phase \notin Live

IInv ==
  /\ TypeOK /\ PinsExact /\ WaitersHeld /\ CondemnedTogether
  /\ SlotsCharged /\ AdvancesOnce /\ Computations

(* What a step may do to the lineage while computations run: a lineage on  *)
(* its way out stays so, and it takes the cancelled computations along.    *)
PhaseStep ==
  /\ phase \notin Live => phase' \notin Live
  /\ phase' = "removed" => Running = {}
  /\ dead \subseteq dead' /\ dead' \subseteq dead \cup Running
  /\ \A s \in Running : s \in dead' => phase' = "rollback"

(* The calls in who are answered, the others are left alone.               *)
Answered(who) ==
  /\ asked' = asked
  /\ charged' = charged \ (who \ Running)
  /\ \A c \in Calls :
       IF c \in who
       THEN pc'[c] = "answered" /\ answer'[c] # "none" /\ joined'[c] = NoCall
       ELSE pc'[c] = pc[c] /\ answer'[c] = answer[c] /\ joined'[c] = joined[c]

(* Computations move on, but none begins or ends.                          *)
MovesOn ==
  /\ memo \subseteq memo'
  /\ \A s \in Calls :
       /\ stage'[s] # stage[s] => s \in Running /\ stage'[s] \notin {"none", "finished"}
       /\ stage'[s] = "ending" => result'[s] # "more"
       /\ stage'[s] = "publishing" => asked[s] \in memo'

-------------------------------------------------------------------------------
(* The initial state satisfies the invariant: nothing runs.                *)
THEOREM InitIInv == Init => IInv
<1> SUFFICES ASSUME Init PROVE IInv
  OBVIOUS
<1> USE ContinueAssumption DEF Init
<1>0. 0 \in Pages /\ Running = {}
  BY DEF Pages, Running
<1>1. TypeOK
  BY <1>0 DEF TypeOK, Phases, Live, Ages, Answers, Codes, Stages, Results
<1>2. PinsExact
  BY <1>0, FS_EmptySet DEF PinsExact, Running
<1>3. WaitersHeld /\ CondemnedTogether /\ SlotsCharged /\ AdvancesOnce /\ Computations
  BY <1>0 DEF WaitersHeld, CondemnedTogether, SlotsCharged, AdvancesOnce, Computations
<1> QED
  BY <1>1, <1>2, <1>3 DEF IInv

-------------------------------------------------------------------------------
(* Steps that begin and end no computation                                 *)

(* Calls may be answered, computations may move on and the lineage may be  *)
(* condemned in one step, as long as a computation that loses its last     *)
(* waiter is cancelled.                                                    *)
LEMMA RunsOn ==
  ASSUME IInv, TypeOK', NEW who \in SUBSET Calls, Answered(who), MovesOn, PhaseStep,
         runtime' = runtime, pins' = pins,
         \A s \in Running : Waiters(s) \subseteq who => s \in dead'
  PROVE  IInv'
<1> USE ContinueAssumption
<1>1. Running' = Running
  BY DEF MovesOn, Running
<1>2. PinsExact'
  BY <1>1 DEF IInv, PinsExact, PhaseStep, Answered
<1>3. WaitersHeld'
  BY <1>1 DEF IInv, WaitersHeld, Answered, TypeOK
<1>4. CondemnedTogether'
  <2> SUFFICES ASSUME NEW s \in Running
               PROVE  /\ Waiters(s)' = {} => s \in dead'
                      /\ s \in dead' => phase' = "rollback"
    BY <1>1 DEF CondemnedTogether
  <2>1. Waiters(s)' = Waiters(s) \ who
    BY DEF Waiters, Answered, Running
  <2> QED
    BY <2>1 DEF PhaseStep
<1>5. SlotsCharged'
  BY <1>1 DEF IInv, SlotsCharged, Answered, Running
<1>6. AdvancesOnce'
  BY DEF IInv, AdvancesOnce, MovesOn, Answered, Running
<1>7. Computations'
  BY DEF IInv, Computations, MovesOn, Answered, PhaseStep, Running
<1> QED
  BY <1>2, <1>3, <1>4, <1>5, <1>6, <1>7 DEF IInv

(* removeLineageLocked on a lineage whose pins stay condemns it.           *)
LEMMA RemovalCondemns ==
  ASSUME IInv, RemoveLineage, runtime' = runtime, pins' = pins
  PROVE  PhaseStep /\ phase' \in Phases \ Live /\ dead' \subseteq Calls
<1>1. pins = 0 <=> Running = {}
  BY FS_EmptySet DEF IInv, PinsExact
<1>2. dead' \subseteq dead \cup Running
  BY DEF RemoveLineage, IInv, PinsExact
<1> QED
  BY <1>1, <1>2 DEF RemoveLineage, PhaseStep, Phases, Live, IInv, TypeOK

(* Deliver answers exactly the calls it is told to.                        *)
LEMMA DeliverAnswers ==
  ASSUME IInv, NEW who \in SUBSET Calls, NEW a \in Answers \ {"none"}, Deliver(who, a, {})
  PROVE  Answered(who)
BY DEF Deliver, Answered, Answers, IInv, TypeOK

(* No call is answered by a step that leaves the calls alone.              *)
LEMMA NobodyAnswered ==
  ASSUME UNCHANGED callVars
  PROVE  Answered({})
BY DEF Answered, callVars

-------------------------------------------------------------------------------
(* Types                                                                   *)

(* Every step keeps the types: a page is answered with a final result, and *)
(* a computation that ends is counted among the pins.                      *)
LEMMA NextTypeOK ==
  ASSUME IInv, [Next]_vars
  PROVE  TypeOK'
<1> USE ContinueAssumption DEF TypeOK, IInv, lineageVars, entryVars, leaseVars, callVars, computationVars
<1>1. ASSUME NEW who \in SUBSET Calls, NEW more, NEW a \in Answers, Deliver(who, a, more)
      PROVE  /\ pc' \in [Calls -> {"idle", "entering", "waiting", "answered"}] /\ asked' \in [Calls -> Pages]
             /\ joined' \in [Calls -> Calls \cup {NoCall}] /\ answer' \in [Calls -> Answers]
             /\ charged' \subseteq Calls
  BY <1>1 DEF Deliver, Answers
<1>2. ASSUME RemoveLineage
      PROVE  phase' \in Phases /\ dead' \subseteq Calls
  BY <1>2 DEF RemoveLineage, Phases
<1>3. "rollback" \in Phases /\ {"closed", "cursor", "expired", "budget", "end"} \subseteq Answers
  BY DEF Phases, Answers, Codes
<1>4. CASE UNCHANGED vars
  BY <1>4 DEF vars
<1>5. CASE TimePasses
  BY <1>5 DEF TimePasses, Ages
<1>6. CASE PublicationCommits
  BY <1>6 DEF PublicationCommits, Phases, Live
<1>7. CASE PublicationAborts \/ Evict \/ Close
  BY <1>7, <1>2 DEF PublicationAborts, Evict, Close
<1>8. ASSUME NEW c \in Calls, Cancel(c) \/ MarkNoCommit(c) PROVE TypeOK'
  BY <1>8 DEF Cancel, MarkNoCommit
<1>9. ASSUME NEW c \in Calls, NEW p \in Pages, Enter(c, p) PROVE TypeOK'
  BY <1>9, <1>1, <1>3 DEF Enter
<1>10. ASSUME NEW c \in Calls, LookupFails(c) \/ Replay(c) \/ TransferFails(c) PROVE TypeOK'
  BY <1>10, <1>1, <1>3 DEF LookupFails, Replay, TransferFails
<1>11. ASSUME NEW c \in Calls, LookupExpires(c) PROVE TypeOK'
  BY <1>11, <1>1, <1>2, <1>3 DEF LookupExpires
<1>12. ASSUME NEW c \in Calls, Join(c) PROVE TypeOK'
  BY <1>12 DEF Join
<1>13. ASSUME NEW c \in Calls, Start(c) PROVE TypeOK'
  BY <1>13 DEF Start, Stages
<1>14. ASSUME NEW c \in Calls, joined[c] # NoCall, Detach(c)
       PROVE  /\ phase' \in Phases /\ dead' \subseteq Calls /\ charged' \subseteq Calls
              /\ pc' \in [Calls -> {"idle", "entering", "waiting", "answered"}] /\ asked' \in [Calls -> Pages]
              /\ joined' \in [Calls -> Calls \cup {NoCall}] /\ answer' \in [Calls -> Answers]
  <2>1. {c} \in SUBSET Calls /\ "closed" \in Answers /\ Deliver({c}, "closed", {})
    BY <1>14, <1>3 DEF Detach
  <2>2. phase' \in {phase, "rollback"} /\ dead' \subseteq dead \cup {joined[c]} /\ joined[c] \in Calls
    BY <1>14 DEF Detach
  <2> QED
    BY <2>1, <2>2, <1>1, <1>3
<1>15. ASSUME NEW c \in Calls, CancelWaiter(c) \/ ComputationMarks(c) PROVE TypeOK'
  <2>1. joined[c] # NoCall /\ Detach(c)
    BY <1>15 DEF CancelWaiter, ComputationMarks
  <2>2. result' \in [Calls -> Results]
    BY <1>15 DEF CancelWaiter, ComputationMarks, Results
  <2> QED
    BY <2>1, <2>2, <1>14 DEF Detach
<1>16. ASSUME NEW s \in Calls, Expire(s)
       PROVE  /\ phase' \in Phases /\ dead' \subseteq Calls /\ charged' \subseteq Calls
              /\ pc' \in [Calls -> {"idle", "entering", "waiting", "answered"}] /\ asked' \in [Calls -> Pages]
              /\ joined' \in [Calls -> Calls \cup {NoCall}] /\ answer' \in [Calls -> Answers]
  BY <1>16, <1>1, <1>3 DEF Expire, Waiters
<1>17. ASSUME NEW s \in Calls, WatchDeadline(s) \/ StatusExpires(s) PROVE TypeOK'
  BY <1>17, <1>16 DEF WatchDeadline, StatusExpires, Advance, Stages
<1>18. ASSUME NEW s \in Calls, ComputeReturns(s) \/ Status(s) \/ Preview(s) \/ FinalizeFails(s) PROVE TypeOK'
  BY <1>18 DEF ComputeReturns, Advance, Status, Preview, FinalizeFails, EndsWith, Stages, Results, Codes
<1>19. ASSUME NEW s \in Calls, MaterializeRefused(s) PROVE TypeOK'
  BY <1>19, <1>2 DEF MaterializeRefused, EndsWith, Stages, Results, Codes
<1>20. ASSUME NEW s \in Calls, Materialize(s) PROVE TypeOK'
  BY <1>20 DEF Materialize, Stages
<1>21. ASSUME NEW s \in Calls, s \in Running, NEW a \in Answers, Finish(s, a), phase' \in Phases, dead' \subseteq Calls
       PROVE  TypeOK'
  <2>1. pins \in Nat \ {0}
    BY <1>21, FS_EmptySet DEF PinsExact
  <2> QED
    <3>1. Waiters(s) \in SUBSET Calls /\ Deliver(Waiters(s), a, {s})
      BY <1>21 DEF Finish, Waiters
    <3>2. pins' \in Nat /\ stage' \in [Calls -> Stages] /\ runtime' \in [Pages -> Calls \cup {NoCall}]
      BY <1>21, <2>1 DEF Finish, Stages
    <3> QED
      BY <1>21, <3>1, <3>2, <1>1 DEF Finish
<1>22. ASSUME NEW s \in Calls, FinishPartial(s) \/ FinishTerminal(s) \/ FinishDiscarded(s) PROVE TypeOK'
  <2>1. s \in Running
    BY <1>22 DEF FinishPartial, FinishTerminal, FinishDiscarded, Running
  <2>2. FinishTerminal(s) => result[s] \in Answers
    BY DEF FinishTerminal, Computations, Results, Answers, Codes
  <2>3. PICK a \in Answers : Finish(s, a)
    BY <1>22, <2>2, <1>3 DEF FinishPartial, FinishTerminal, FinishDiscarded
  <2>4. phase' \in Phases /\ dead' \subseteq Calls
    BY <1>22, <1>2 DEF FinishPartial, FinishTerminal, FinishDiscarded
  <2> QED
    BY <2>1, <2>3, <2>4, <1>21
<1> QED
  BY <1>4, <1>5, <1>6, <1>7, <1>8, <1>9, <1>10, <1>11, <1>12, <1>13, <1>15, <1>17, <1>18, <1>19, <1>20, <1>22
     DEF Next, Step, Continue, Conclude, Finished

-------------------------------------------------------------------------------
(* Steps of calls that wait for nothing                                    *)

(* A call that stands before the lock has started nothing and waits for    *)
(* nothing, so that no computation loses a waiter with it.                 *)
LEMMA NotYetWaiting ==
  ASSUME IInv, NEW c \in Calls, pc[c] \in {"idle", "entering"}
  PROVE  /\ joined[c] = NoCall /\ answer[c] = "none" /\ stage[c] = "none" /\ c \notin Running
         /\ \A s \in Running : Waiters(s) \subseteq {c} => s \in dead
BY ContinueAssumption DEF IInv, TypeOK, Computations, WaitersHeld, CondemnedTogether, Running, Waiters

(* A computation with a waiter, or a cancelled one, stays as it is.        *)
LEMMA NobodyLeaves ==
  ASSUME IInv
  PROVE  \A s \in Running : Waiters(s) \subseteq {} => s \in dead
BY DEF IInv, CondemnedTogether

(* The steps that leave calls and computations alone.                      *)
LEMMA LineageStep ==
  ASSUME IInv, TypeOK',
         \/ TimePasses \/ PublicationCommits \/ PublicationAborts \/ Evict \/ Close
         \/ \E c \in Calls : Cancel(c) \/ MarkNoCommit(c)
         \/ UNCHANGED vars
  PROVE  IInv'
<1> USE DEF lineageVars, entryVars, leaseVars, callVars, computationVars
<1>1. Answered({}) /\ runtime' = runtime /\ pins' = pins /\ memo' = memo /\ stage' = stage /\ result' = result
  BY NobodyAnswered
     DEF TimePasses, PublicationCommits, PublicationAborts, Evict, Close, Cancel, MarkNoCommit, vars
<1>2. MovesOn
  BY <1>1 DEF MovesOn, IInv, Computations
<1>3. PhaseStep
  <2>1. CASE RemoveLineage
    BY <2>1, <1>1, RemovalCondemns
  <2>2. CASE phase' = phase /\ dead' = dead
    BY <2>2 DEF PhaseStep, IInv, CondemnedTogether, PinsExact
  <2>3. CASE PublicationCommits
    BY <2>3 DEF PublicationCommits, PhaseStep, Live, IInv, CondemnedTogether, PinsExact
  <2> QED
    BY <2>1, <2>2, <2>3 DEF TimePasses, PublicationAborts, Evict, Close, Cancel, MarkNoCommit, vars
<1> QED
  BY <1>1, <1>2, <1>3, NobodyLeaves, RunsOn DEF PhaseStep

(* Calls that are answered at once.                                        *)
LEMMA AnsweredAtOnce ==
  ASSUME IInv, TypeOK', NEW c \in Calls,
         \/ pc[c] = "idle" /\ Deliver({c}, "closed", {})
            /\ UNCHANGED <<lineageVars, entryVars, leaseVars, computationVars>>
         \/ LookupFails(c) \/ LookupExpires(c) \/ Replay(c) \/ TransferFails(c)
  PROVE  IInv'
<1> USE DEF lineageVars, entryVars, leaseVars, computationVars
<1>1. /\ pc[c] \in {"idle", "entering"}
      /\ runtime' = runtime /\ pins' = pins /\ memo' = memo /\ stage' = stage /\ result' = result
  BY DEF LookupFails, LookupExpires, Replay, TransferFails, Resolved
<1>2. PICK a \in Answers \ {"none"} : Deliver({c}, a, {})
  BY DEF LookupFails, LookupExpires, Replay, TransferFails, Answers, Codes
<1>3. Answered({c})
  BY <1>2, DeliverAnswers
<1>4. MovesOn
  BY <1>1 DEF MovesOn, IInv, Computations
<1>5. PhaseStep
  <2>1. CASE RemoveLineage
    BY <2>1, <1>1, RemovalCondemns
  <2>2. CASE phase' = phase /\ dead' = dead
    BY <2>2 DEF PhaseStep, IInv, CondemnedTogether, PinsExact
  <2> QED
    BY <2>1, <2>2 DEF LookupFails, LookupExpires, Replay, TransferFails
<1> QED
  BY <1>1, <1>3, <1>4, <1>5, NotYetWaiting, RunsOn DEF PhaseStep

(* A call that has entered stands before the lock.                         *)
LEMMA EnterKeeps ==
  ASSUME IInv, TypeOK', NEW c \in Calls, NEW p \in Pages, Enter(c, p)
  PROVE  IInv'
<1> USE DEF lineageVars, entryVars, leaseVars, computationVars
<1>1. CASE c \in cancelled
  BY <1>1, AnsweredAtOnce DEF Enter
<1>2. CASE c \notin cancelled
  <2>1. /\ pc[c] = "idle" /\ pc' = [pc EXCEPT ![c] = "entering"] /\ asked' = [asked EXCEPT ![c] = p]
        /\ UNCHANGED <<charged, joined, answer, lineageVars, entryVars, leaseVars, computationVars>>
    BY <1>2 DEF Enter
  <2>2. joined[c] = NoCall /\ answer[c] = "none" /\ stage[c] = "none" /\ c \notin Running
    BY <2>1, NotYetWaiting
  <2>3. Running' = Running /\ \A s \in Calls : Waiters(s)' = Waiters(s)
    BY <2>1 DEF Running, Waiters
  <2>4. PinsExact'
    BY <2>1, <2>2, <2>3 DEF PinsExact, IInv, TypeOK
  <2>5. WaitersHeld'
    <3>1. \A d \in Calls : joined[d] # NoCall => joined[d] # c /\ d # c
      BY <2>2 DEF IInv, WaitersHeld
    <3> QED
      BY <3>1, <2>1, <2>2, <2>3 DEF WaitersHeld, IInv, TypeOK
  <2>6. CondemnedTogether' /\ SlotsCharged'
    BY <2>1, <2>3 DEF CondemnedTogether, SlotsCharged, IInv, TypeOK, Running
  <2>7. AdvancesOnce' /\ Computations'
    BY <2>1, <2>2 DEF AdvancesOnce, Computations, IInv, TypeOK
  <2> QED
    BY <2>4, <2>5, <2>6, <2>7 DEF IInv
<1> QED
  BY <1>1, <1>2

(* A call that joins a computation waits for it too.                       *)
LEMMA JoinKeeps ==
  ASSUME IInv, TypeOK', NEW c \in Calls, Join(c)
  PROVE  IInv'
<1> USE ContinueAssumption DEF lineageVars, entryVars, leaseVars, computationVars
<1> DEFINE s == runtime[asked[c]]
<1>1. /\ pc[c] = "entering" /\ s # NoCall /\ s \notin dead
      /\ joined' = [joined EXCEPT ![c] = s] /\ pc' = [pc EXCEPT ![c] = "waiting"]
      /\ UNCHANGED <<charged, asked, answer, lineageVars, entryVars, leaseVars, computationVars>>
  BY DEF Join, Resolved
<1>2. joined[c] = NoCall /\ answer[c] = "none" /\ stage[c] = "none" /\ c \notin Running
  BY <1>1, NotYetWaiting
<1>3. s \in Running /\ asked[s] = asked[c]
  BY <1>1 DEF IInv, TypeOK, PinsExact, Running
<1> HIDE DEF s
<1>4. Running' = Running
  BY <1>1 DEF Running
<1>5. PinsExact'
  BY <1>1, <1>4 DEF PinsExact, IInv
<1>6. WaitersHeld'
  BY <1>1, <1>2, <1>3, <1>4 DEF WaitersHeld, IInv, TypeOK, Running
<1>7. CondemnedTogether'
  BY <1>1, <1>2, <1>4 DEF CondemnedTogether, Waiters, IInv, TypeOK, Running
<1>8. SlotsCharged' /\ AdvancesOnce' /\ Computations'
  BY <1>1, <1>2, <1>4 DEF SlotsCharged, AdvancesOnce, Computations, IInv, TypeOK, Running
<1> QED
  BY <1>5, <1>6, <1>7, <1>8 DEF IInv

(* A new computation is the first one of its page, for the finished ones   *)
(* have left a memo or a condemned lineage behind.                         *)
LEMMA StartKeeps ==
  ASSUME IInv, TypeOK', NEW c \in Calls, Start(c)
  PROVE  IInv'
<1> USE ContinueAssumption DEF lineageVars, entryVars, leaseVars, computationVars
<1>1. /\ pc[c] = "entering" /\ phase \in Live /\ asked[c] \notin memo /\ runtime[asked[c]] = NoCall
      /\ runtime' = [runtime EXCEPT ![asked[c]] = c] /\ pins' = pins + 1
      /\ stage' = [stage EXCEPT ![c] = "computing"]
      /\ joined' = [joined EXCEPT ![c] = c] /\ pc' = [pc EXCEPT ![c] = "waiting"]
      /\ UNCHANGED <<memo, charged, asked, answer, result, dead, lineageVars, leaseVars>>
  BY DEF Start, Resolved
<1>2. joined[c] = NoCall /\ answer[c] = "none" /\ stage[c] = "none" /\ c \notin Running
  BY <1>1, NotYetWaiting
<1>3. Running' = Running \cup {c}
  BY <1>1 DEF Running, IInv, TypeOK
<1>4. PinsExact'
  <2>1. IsFiniteSet(Running') /\ Cardinality(Running') = pins + 1
    BY <1>2, <1>3, FS_AddElement DEF IInv, PinsExact
  <2>2. phase' # "removed"
    BY <1>1 DEF Live
  <2>3. ASSUME NEW p \in Pages, NEW s \in Calls
        PROVE  runtime'[p] = s <=> s \in Running' /\ asked'[s] = p
    BY <1>1, <1>2, <1>3 DEF IInv, TypeOK, PinsExact
  <2> QED
    BY <1>1, <2>1, <2>2, <2>3 DEF PinsExact
<1>5. WaitersHeld'
  BY <1>1, <1>2, <1>3 DEF WaitersHeld, IInv, TypeOK
<1>6. CondemnedTogether'
  <2>1. c \notin dead
    BY <1>2 DEF IInv, Computations
  <2> QED
    BY <1>1, <1>2, <1>3, <2>1 DEF CondemnedTogether, Waiters, IInv, TypeOK, Running
<1>7. SlotsCharged'
  BY <1>1, <1>3 DEF SlotsCharged, IInv, TypeOK, Running
<1>8. AdvancesOnce'
  <2>1. \A t \in Calls : stage[t] # "none" => asked[t] # asked[c]
    BY <1>1 DEF IInv, TypeOK, PinsExact, Computations, Running
  <2> QED
    BY <1>1, <2>1 DEF AdvancesOnce, IInv, TypeOK
<1>9. Computations'
  BY <1>1 DEF Computations, IInv, TypeOK
<1> QED
  BY <1>4, <1>5, <1>6, <1>7, <1>8, <1>9 DEF IInv

-------------------------------------------------------------------------------
(* Steps of waiters and of running computations                            *)

(* The end of one waiter: without it the computation either has another    *)
(* one or is cancelled.                                                    *)
LEMMA DetachKeeps ==
  ASSUME IInv, TypeOK', NEW c \in Calls, CancelWaiter(c) \/ ComputationMarks(c)
  PROVE  IInv'
<1> USE ContinueAssumption DEF lineageVars, entryVars, leaseVars
<1> DEFINE active == joined[c]
<1>1. active \in Running /\ Deliver({c}, "closed", {})
  BY DEF CancelWaiter, ComputationMarks, Detach, IInv, WaitersHeld
<1>2. /\ runtime' = runtime /\ pins' = pins /\ memo' = memo /\ stage' = stage
      /\ IF Waiters(active) = {c}
         THEN dead' = dead \cup {active} /\ phase' = "rollback"
         ELSE dead' = dead /\ phase' = phase
  BY DEF CancelWaiter, ComputationMarks, Detach
<1>3. Answered({c})
  BY <1>1, DeliverAnswers DEF Answers
<1>4. MovesOn
  <2>1. \A s \in Calls : result'[s] = result[s] \/ stage[s] = "computing"
    BY DEF CancelWaiter, ComputationMarks, IInv, TypeOK
  <2> QED
    BY <1>2, <2>1 DEF MovesOn, IInv, Computations
<1>5. PhaseStep
  BY <1>1, <1>2 DEF PhaseStep, IInv, CondemnedTogether, PinsExact, Live
<1>6. \A s \in Running : Waiters(s) \subseteq {c} => s \in dead'
  <2> SUFFICES ASSUME NEW s \in Running, Waiters(s) \subseteq {c}, s \notin dead
               PROVE  s \in dead'
    BY <1>5 DEF PhaseStep
  <2>1. Waiters(s) = {c}
    BY DEF IInv, CondemnedTogether
  <2>2. s = active
    BY <2>1 DEF Waiters
  <2> QED
    BY <2>1, <2>2, <1>2
<1> QED
  BY <1>2, <1>3, <1>4, <1>5, <1>6, RunsOn

(* A computation of a lineage that expired is cancelled as its waiters are *)
(* answered.                                                               *)
LEMMA ExpireKeeps ==
  ASSUME IInv, TypeOK', NEW s \in Running, Expire(s), MovesOn, runtime' = runtime, pins' = pins
  PROVE  IInv'
<1>1. Waiters(s) \in SUBSET Calls /\ Deliver(Waiters(s), "expired", {}) /\ dead' = dead \cup {s} /\ phase' = "rollback"
  BY DEF Expire, Waiters
<1>2. Answered(Waiters(s))
  BY <1>1, DeliverAnswers DEF Answers, Codes
<1>3. PhaseStep
  BY <1>1 DEF PhaseStep, Live
<1>4. ASSUME NEW t \in Running, Waiters(t) \subseteq Waiters(s) PROVE t \in dead'
  <2>1. t = s \/ Waiters(t) = {}
    BY <1>4 DEF Waiters
  <2> QED
    BY <2>1, <1>1 DEF IInv, CondemnedTogether
<1> QED
  BY <1>1, <1>2, <1>3, <1>4, RunsOn

(* The steps of a computation before its last one.                         *)
LEMMA ComputationStep ==
  ASSUME IInv, TypeOK', NEW s \in Calls,
         \/ ComputeReturns(s) \/ WatchDeadline(s) \/ Status(s) \/ StatusExpires(s) \/ Preview(s)
         \/ FinalizeFails(s) \/ MaterializeRefused(s) \/ Materialize(s)
  PROVE  IInv'
<1> USE DEF lineageVars, entryVars, leaseVars, callVars
<1>1. runtime' = runtime /\ pins' = pins /\ s \in Running
  BY DEF ComputeReturns, WatchDeadline, Status, StatusExpires, Preview, FinalizeFails,
         MaterializeRefused, Materialize, Advance, Running
<1>2. MovesOn
  <2>1. memo \subseteq memo'
    BY DEF ComputeReturns, WatchDeadline, Status, StatusExpires, Preview, FinalizeFails,
           MaterializeRefused, Materialize
  <2>2. ASSUME NEW t \in Calls, t # s
        PROVE  stage'[t] = stage[t] /\ result'[t] = result[t]
    BY <2>2 DEF ComputeReturns, WatchDeadline, Status, StatusExpires, Preview, FinalizeFails,
                MaterializeRefused, Materialize, Advance, EndsWith, IInv, TypeOK
  <2>3. stage'[s] # stage[s] => stage'[s] \notin {"none", "finished"}
    BY DEF ComputeReturns, WatchDeadline, Status, StatusExpires, Preview, FinalizeFails,
           MaterializeRefused, Materialize, Advance, EndsWith, IInv, TypeOK
  <2>4. stage'[s] = "ending" => result'[s] # "more"
    BY DEF ComputeReturns, WatchDeadline, Status, StatusExpires, Preview, FinalizeFails,
           MaterializeRefused, Materialize, Advance, EndsWith, IInv, TypeOK, Computations
  <2>5. stage'[s] = "publishing" => asked[s] \in memo'
    BY DEF ComputeReturns, WatchDeadline, Status, StatusExpires, Preview, FinalizeFails,
           MaterializeRefused, Materialize, Advance, EndsWith, IInv, TypeOK, Computations
  <2> QED
    BY <1>1, <2>1, <2>2, <2>3, <2>4, <2>5 DEF MovesOn, IInv, Computations
<1>3. CASE Expire(s)
  BY <1>1, <1>2, <1>3, ExpireKeeps
<1>4. CASE UNCHANGED callVars /\ phase' = phase /\ dead' = dead
  <2>1. PhaseStep
    BY <1>4 DEF PhaseStep, IInv, CondemnedTogether, PinsExact
  <2> QED
    BY <2>1, <1>1, <1>2, <1>4, NobodyAnswered, NobodyLeaves, RunsOn DEF PhaseStep
<1>5. CASE UNCHANGED callVars /\ RemoveLineage
  <2>1. PhaseStep
    BY <1>1, <1>5, RemovalCondemns
  <2> QED
    BY <2>1, <1>1, <1>2, <1>5, NobodyAnswered, NobodyLeaves, RunsOn DEF PhaseStep
<1> QED
  BY <1>3, <1>4, <1>5 DEF ComputeReturns, WatchDeadline, Status, StatusExpires, Preview, FinalizeFails,
     MaterializeRefused, Materialize

-------------------------------------------------------------------------------
(* The end of a computation                                                *)

(* Its waiters are answered, the call that started it has been answered    *)
(* too, and the page has a memo or the lineage goes.                       *)
LEMMA FinishKeeps ==
  ASSUME IInv, TypeOK', NEW s \in Running, NEW a \in Answers \ {"none"}, Finish(s, a),
         RemoveLineage \/ (phase' = phase /\ dead' = dead /\ phase \in Live /\ asked[s] \in memo)
  PROVE  IInv'
<1> USE ContinueAssumption DEF leaseVars
<1>1. /\ Deliver(Waiters(s), a, {s}) /\ asked' = asked
      /\ runtime' = [runtime EXCEPT ![asked[s]] = NoCall] /\ pins' = pins - 1
      /\ stage' = [stage EXCEPT ![s] = "finished"] /\ UNCHANGED <<memo, result>>
  BY DEF Finish, Deliver
<1>2. Running' = Running \ {s} /\ s \in Calls
  BY <1>1 DEF Running, IInv, TypeOK
<1>3. IsFiniteSet(Running') /\ Cardinality(Running') = pins' /\ pins' \in Nat
  BY <1>1, <1>2, FS_RemoveElement DEF IInv, PinsExact, TypeOK
<1>4. pins' = 0 <=> Running' = {}
  BY <1>3, FS_EmptySet
<1>5. ASSUME NEW p \in Pages, NEW t \in Calls
      PROVE  runtime'[p] = t <=> t \in Running' /\ asked'[t] = p
  BY <1>1, <1>2 DEF IInv, TypeOK, PinsExact
<1>6. PinsExact'
  BY <1>3, <1>4, <1>5 DEF PinsExact, RemoveLineage, Live
<1>7. ASSUME NEW c \in Calls
      PROVE  IF joined[c] = s
             THEN pc'[c] = "answered" /\ answer'[c] # "none" /\ joined'[c] = NoCall
             ELSE pc'[c] = pc[c] /\ answer'[c] = answer[c] /\ joined'[c] = joined[c]
  BY <1>1 DEF Deliver, Waiters, IInv, TypeOK
<1>8. WaitersHeld'
  BY <1>1, <1>2, <1>7 DEF WaitersHeld, IInv
<1>9. CondemnedTogether'
  <2> SUFFICES ASSUME NEW t \in Running, t # s
               PROVE  /\ Waiters(t)' = {} => t \in dead'
                      /\ t \in dead' => phase' = "rollback"
    BY <1>2 DEF CondemnedTogether
  <2>1. Waiters(t)' = Waiters(t)
    BY <1>7 DEF Waiters, Running
  <2> QED
    BY <2>1, <1>2, <1>4 DEF IInv, CondemnedTogether, RemoveLineage
<1>10. SlotsCharged'
  <2>1. pc'[s] = "answered"
    BY <1>2, <1>7 DEF IInv, Computations, WaitersHeld, Running
  <2>2. charged' = (charged \ (Waiters(s) \ Running)) \ {s}
    BY <1>1 DEF Deliver
  <2> QED
    BY <2>1, <2>2, <1>2, <1>7 DEF SlotsCharged, IInv, Waiters, Running
<1>11. AdvancesOnce'
  BY <1>1, <1>2 DEF AdvancesOnce, IInv, TypeOK, Running
<1>12. Computations'
  <2>1. phase' \notin Live \/ asked[s] \in memo
    BY DEF RemoveLineage, Live
  <2>2. phase \notin Live => phase' \notin Live
    BY DEF RemoveLineage, Live
  <2>3. dead' \subseteq dead \cup Running
    BY <1>5, <1>2 DEF RemoveLineage
  <2> QED
    BY <2>1, <2>2, <2>3, <1>1, <1>2, <1>7 DEF Computations, IInv, TypeOK, Running
<1> QED
  BY <1>6, <1>8, <1>9, <1>10, <1>11, <1>12 DEF IInv

(* The three ways to end: finishPartial, finishTerminal, finishDiscarded.  *)
LEMMA FinishStep ==
  ASSUME IInv, TypeOK', NEW s \in Calls, FinishPartial(s) \/ FinishTerminal(s) \/ FinishDiscarded(s)
  PROVE  IInv'
<1>1. s \in Running
  BY DEF FinishPartial, FinishTerminal, FinishDiscarded, Running
<1>2. PICK a \in Answers \ {"none"} : Finish(s, a)
  BY DEF FinishPartial, FinishTerminal, FinishDiscarded, Answers, Codes, Results, IInv, TypeOK, Computations
<1>3. RemoveLineage \/ (phase' = phase /\ dead' = dead /\ phase \in Live /\ asked[s] \in memo)
  BY DEF FinishPartial, FinishTerminal, FinishDiscarded, IInv, Computations
<1> QED
  BY <1>1, <1>2, <1>3, FinishKeeps

-------------------------------------------------------------------------------
(* Every step keeps the invariant.                                         *)
THEOREM NextIInv == IInv /\ [Next]_vars => IInv'
<1> SUFFICES ASSUME IInv, [Next]_vars PROVE IInv'
  OBVIOUS
<1>1. TypeOK'
  BY NextTypeOK
<1>2. CASE \/ TimePasses \/ PublicationCommits \/ PublicationAborts \/ Evict \/ Close
           \/ Finished \/ UNCHANGED vars
  BY <1>1, <1>2, LineageStep DEF Finished
<1>3. ASSUME NEW c \in Calls, Step(c) PROVE IInv'
  <2>1. CASE Cancel(c) \/ MarkNoCommit(c)
    BY <1>1, <2>1, LineageStep
  <2>2. CASE \E p \in Pages : Enter(c, p)
    BY <1>1, <2>2, EnterKeeps
  <2>3. CASE LookupFails(c) \/ LookupExpires(c) \/ Replay(c) \/ TransferFails(c)
    BY <1>1, <2>3, AnsweredAtOnce
  <2>4. CASE Join(c)
    BY <1>1, <2>4, JoinKeeps
  <2>5. CASE Start(c)
    BY <1>1, <2>5, StartKeeps
  <2>6. CASE CancelWaiter(c) \/ ComputationMarks(c)
    BY <1>1, <2>6, DetachKeeps
  <2>7. CASE \/ ComputeReturns(c) \/ WatchDeadline(c) \/ Status(c) \/ StatusExpires(c) \/ Preview(c)
             \/ FinalizeFails(c) \/ MaterializeRefused(c) \/ Materialize(c)
    BY <1>1, <2>7, ComputationStep
  <2>8. CASE FinishPartial(c) \/ FinishTerminal(c) \/ FinishDiscarded(c)
    BY <1>1, <2>8, FinishStep
  <2> QED
    BY <1>3, <2>1, <2>2, <2>3, <2>4, <2>5, <2>6, <2>7, <2>8 DEF Step, Continue, Conclude
<1> QED
  BY <1>2, <1>3 DEF Next

(* The invariant holds for ever.                                           *)
THEOREM Invariance == Spec => []IInv
BY InitIInv, NextIInv, PTL DEF Spec

(* Every variable stays in its type: a page ends with a final result only. *)
THEOREM TypeCorrect == Spec => []TypeOK
BY Invariance, PTL DEF IInv

(* A lineage with a running computation is not removed, and pins count     *)
(* exactly the computations in the runtime column (continue.go).           *)
THEOREM PinsAreExact == Spec => []PinsExact
BY Invariance, PTL DEF IInv

(* Every waiter hangs on a running computation of its page.                *)
THEOREM WaitersAreHeld == Spec => []WaitersHeld
BY Invariance, PTL DEF IInv

(* Nothing is computed for nobody, and a cancelled computation condemns    *)
(* its lineage, so that nobody joins it (cancelWaiter, expireComputation). *)
THEOREM CondemnsTogether == Spec => []CondemnedTogether
BY Invariance, PTL DEF IInv

(* A work slot stays charged exactly as long as its call is unanswered or  *)
(* a page is computed on it.                                               *)
THEOREM SlotsStayCharged == Spec => []SlotsCharged
BY Invariance, PTL DEF IInv

(* Pins, waiters and slots agree with one another.                         *)
THEOREM HoldingsAreExact == Spec => []HoldingsExact
BY PinsAreExact, WaitersAreHeld, SlotsStayCharged, CondemnsTogether, PTL DEF HoldingsExact

(* No page is computed twice ("advances once", TOOLS.md).                  *)
THEOREM PagesAdvanceOnce == Spec => []AdvancesOnce
BY Invariance, PTL DEF IInv

-------------------------------------------------------------------------------
(* Action properties                                                       *)

(* A call that gives up takes nothing from those that wait with it         *)
(* (cancelWaiter): a computation is cancelled with its last waiter or with *)
(* all of them.                                                            *)
THEOREM OthersAreSpared == Spec => OthersGoOn
<1> DEFINE Spared == \A c, d \in Calls :
       joined[c] # NoCall /\ joined[d] = joined[c] /\ joined'[c] = NoCall /\ joined'[d] = joined[d]
         => joined[d] \in dead \/ joined[d] \notin dead'
<1>1. ASSUME IInv, [Next]_vars, NEW c \in Calls, NEW d \in Calls,
             joined[c] # NoCall, joined[d] = joined[c], joined'[c] = NoCall, joined'[d] = joined[d]
      PROVE  joined[d] \in dead \/ joined[d] \notin dead'
  <2> USE <1>1 DEF lineageVars, entryVars, leaseVars, callVars, computationVars
  <2>1. pc[c] = "waiting"
    BY DEF IInv, WaitersHeld
  <2>2. ASSUME NEW e \in Calls, pc[e] # "waiting", NEW a, Deliver({e}, a, {}) PROVE FALSE
    BY <2>1, <2>2 DEF Deliver
  <2>3. ASSUME NEW s \in Calls, NEW a, NEW more, Deliver(Waiters(s), a, more) PROVE FALSE
    BY <2>3, ContinueAssumption DEF Deliver, Waiters
  <2>4. ASSUME NEW e \in Calls, CancelWaiter(e) \/ ComputationMarks(e)
        PROVE  joined[d] \notin dead'  \/ joined[d] \in dead
    <3>1. Detach(e) /\ e = c
      BY <2>4 DEF CancelWaiter, ComputationMarks, Detach, Deliver
    <3>2. d # c /\ d \in Waiters(joined[c])
      BY DEF Waiters
    <3> QED
      BY <3>1, <3>2 DEF Detach
  <2>5. ASSUME NEW e \in Calls, \E p \in Pages : Enter(e, p) PROVE FALSE
    BY <2>1, <2>2, <2>5 DEF Enter
  <2>6. ASSUME NEW e \in Calls, LookupFails(e) \/ LookupExpires(e) \/ Replay(e) \/ TransferFails(e) PROVE FALSE
    BY <2>2, <2>6 DEF LookupFails, LookupExpires, Replay, TransferFails, Resolved
  <2>7. ASSUME NEW e \in Calls, Join(e) \/ Start(e) PROVE FALSE
    BY <2>1, <2>7, ContinueAssumption DEF Join, Start, Resolved, IInv, TypeOK
  <2>8. ASSUME NEW s \in Calls, \/ ComputeReturns(s) \/ WatchDeadline(s) \/ Status(s) \/ StatusExpires(s)
                                \/ Preview(s) \/ FinalizeFails(s) \/ MaterializeRefused(s) \/ Materialize(s)
        PROVE  FALSE
    BY <2>3, <2>8 DEF ComputeReturns, WatchDeadline, Status, StatusExpires, Preview, FinalizeFails,
       MaterializeRefused, Materialize, Expire
  <2>9. ASSUME NEW s \in Calls, FinishPartial(s) \/ FinishTerminal(s) \/ FinishDiscarded(s) PROVE FALSE
    BY <2>3, <2>9 DEF FinishPartial, FinishTerminal, FinishDiscarded, Finish
  <2>10. ~(\E e \in Calls : Cancel(e) \/ MarkNoCommit(e))
    BY DEF Cancel, MarkNoCommit
  <2>11. ~(TimePasses \/ PublicationCommits \/ PublicationAborts \/ Evict \/ Close \/ Finished \/ UNCHANGED vars)
    BY DEF TimePasses, PublicationCommits, PublicationAborts, Evict, Close, Finished, vars
  <2> QED
    BY <2>4, <2>5, <2>6, <2>7, <2>8, <2>9, <2>10, <2>11 DEF Next, Step, Continue, Conclude
<1>2. IInv /\ [Next]_vars => [Spared]_vars
  BY <1>1
<1> HIDE DEF Spared
<1>3. Spec => [][Spared]_vars
  BY <1>2, Invariance, PTL DEF Spec
<1> QED
  BY <1>3 DEF OthersGoOn, Spared

(* A cursor that is answered works at that moment (handleOutcome): its     *)
(* page is memoized in a live lineage of an open registry, whatever        *)
(* happened between the critical sections that made it.                    *)
THEOREM AnsweredCursorsLive == Spec => CursorsLive
<1> DEFINE Good(c) == answer'[c] = "cursor" /\ answer[c] = "none" =>
                        asked[c] \in memo /\ phase' \in Live /\ ~closed
<1>1. ASSUME IInv, [Next]_vars, NEW c \in Calls, answer'[c] = "cursor", answer[c] = "none"
      PROVE  asked[c] \in memo /\ phase' \in Live /\ ~closed
  <2> USE <1>1 DEF lineageVars, entryVars, leaseVars, callVars, computationVars
  <2>1. ASSUME NEW who, NEW a, NEW more, a # "cursor", Deliver(who, a, more) PROVE FALSE
    BY <2>1 DEF Deliver
  <2>2. CASE answer' = answer
    BY <2>2
  <2>3. ASSUME NEW e \in Calls, Replay(e) PROVE asked[c] \in memo /\ phase' \in Live /\ ~closed
    BY <2>3 DEF Replay, Resolved, Deliver
  <2>4. ASSUME NEW s \in Calls, FinishPartial(s) PROVE asked[c] \in memo /\ phase' \in Live /\ ~closed
    <3>1. PICK a : Finish(s, a)
      BY <2>4 DEF FinishPartial
    <3>2. joined[c] = s
      BY <3>1 DEF Finish, Deliver, Waiters
    <3>3. asked[c] \in memo
      BY <2>4, <3>2, ContinueAssumption DEF FinishPartial, IInv, WaitersHeld, Computations
    <3>4. CASE ~closed /\ s \notin dead /\ phase \in Live
      BY <2>4, <3>3, <3>4 DEF FinishPartial
    <3>5. CASE ~(~closed /\ s \notin dead /\ phase \in Live)
      BY <2>4, <2>1, <3>5 DEF FinishPartial, Finish
    <3> QED
      BY <3>4, <3>5
  <2>5. ASSUME NEW s \in Calls, FinishTerminal(s) \/ FinishDiscarded(s) PROVE FALSE
    BY <2>1, <2>5 DEF FinishTerminal, FinishDiscarded, Finish, IInv, TypeOK, Results, Codes
  <2>6. ASSUME NEW e \in Calls, \/ \E p \in Pages : Enter(e, p)
                                \/ LookupFails(e) \/ LookupExpires(e) \/ TransferFails(e)
        PROVE  FALSE
    BY <2>1, <2>6 DEF Enter, LookupFails, LookupExpires, TransferFails
  <2>7. ASSUME NEW e \in Calls, CancelWaiter(e) \/ ComputationMarks(e) PROVE FALSE
    BY <2>1, <2>7 DEF CancelWaiter, ComputationMarks, Detach
  <2>8. ASSUME NEW s \in Calls, WatchDeadline(s) \/ StatusExpires(s) PROVE FALSE
    BY <2>1, <2>8 DEF WatchDeadline, StatusExpires, Expire
  <2>9. \/ answer' = answer
        \/ \E e \in Calls : \/ \E p \in Pages : Enter(e, p)
                            \/ LookupFails(e) \/ LookupExpires(e) \/ TransferFails(e) \/ Replay(e)
                            \/ CancelWaiter(e) \/ ComputationMarks(e)
                            \/ WatchDeadline(e) \/ StatusExpires(e)
                            \/ FinishPartial(e) \/ FinishTerminal(e) \/ FinishDiscarded(e)
    BY DEF Next, Step, Continue, Conclude, Cancel, MarkNoCommit, Join, Start, ComputeReturns, Status,
       Preview, FinalizeFails, MaterializeRefused, Materialize,
       TimePasses, PublicationCommits, PublicationAborts, Evict, Close, Finished, vars
  <2> QED
    BY <2>2, <2>3, <2>4, <2>5, <2>6, <2>7, <2>8, <2>9
<1>2. IInv /\ [Next]_vars => [\A c \in Calls : Good(c)]_vars
  BY <1>1
<1> HIDE DEF Good
<1>3. Spec => [][\A c \in Calls : Good(c)]_vars
  BY <1>2, Invariance, PTL DEF Spec
<1> QED
  BY <1>3 DEF CursorsLive, Good
===============================================================================
