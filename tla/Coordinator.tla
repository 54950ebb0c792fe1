----------------------------- MODULE Coordinator -----------------------------
(***************************************************************************)
(* The admission coordinator of one connection (internal/runtime:          *)
(* admission.go, queue.go) with the part of WorkLease (work_lease.go) that *)
(* decides when a work slot is free again.                                 *)
(*                                                                         *)
(* The actors are the transport that admits and cancels requests, one      *)
(* goroutine per admitted request that calls Reservation.Start, the queue  *)
(* timers, and the executor that returns a lease.  Each action is one      *)
(* critical section of Coordinator.mu or of WorkLease.mu, so everything    *)
(* the code does between two of them may interleave.                       *)
(*                                                                         *)
(* A request identifier is admitted once: the connection never accepts an  *)
(* identifier twice (mcpstdio/id_registry.go).  A request's context is     *)
(* cancelled exactly in the states of ContextDone, so it is not a variable.*)
(***************************************************************************)
EXTENDS Naturals, FiniteSets, SequencesExt

CONSTANTS
  Requests,       \* the request identifiers the connection will admit
  MaxConcurrent,  \* Limits.MaxConcurrent
  QueueMax        \* Limits.QueueMax

ASSUME LimitsAssumption ==   \* checked by newCoordinatorWithClockAndFatal
  /\ MaxConcurrent \in Nat \ {0}
  /\ QueueMax \in Nat

VARIABLES
  state,     \* request.state; "new" before Admit, "rejected" after a refusal
  active,    \* Coordinator.active
  queue,     \* Coordinator.queue, head first
  requests,  \* the keys of the map Coordinator.requests
  ready,     \* the requests whose ready channel is closed
  timer,     \* the queue timer: armed, its callback under way ("firing") or
             \* recovering from a panic ("panicked"), or off
  start,     \* how far the goroutine of the request got in Reservation.Start
  right,     \* the requests with request.response # nil
  lease,     \* the WorkLease: not issued, live, returned but its slot not yet
             \* released ("returning"), or returned
  noCommit,  \* the requests whose WorkLease.noCommit is set
  marking    \* the cancellers between the unlock and lease.MarkNoCommit()

queueVars == <<active, queue, requests, ready, timer>>
leaseVars == <<lease, noCommit, marking>>
vars == <<state, queueVars, start, right, leaseVars>>

States == {"new", "rejected", "Queued", "Running", "Cancelled",
           "TimeoutResponseCommitted", "Lingering", "Returned"}
Timers == {"off", "armed", "firing", "panicked"}
Starts == {"none", "waiting", "run", "cancelled", "timeout"}
Leases == {"none", "live", "returning", "returned"}

Queued == {r \in Requests : state[r] = "Queued"}
Charged == {r \in Requests : state[r] \in {"Running", "Lingering"}}
ContextDone ==
  {r \in Requests : state[r] \in {"Cancelled", "TimeoutResponseCommitted", "Lingering", "Returned"}}

Init ==
  /\ state = [r \in Requests |-> "new"]
  /\ active = 0
  /\ queue = <<>>
  /\ requests = {}
  /\ ready = {}
  /\ timer = [r \in Requests |-> "off"]
  /\ start = [r \in Requests |-> "none"]
  /\ right = {}
  /\ lease = [r \in Requests |-> "none"]
  /\ noCommit = {}
  /\ marking = {}

-------------------------------------------------------------------------------
(* Admission                                                               *)

AdmitRun(r) ==
  /\ state[r] = "new"
  /\ active < MaxConcurrent /\ queue = <<>>
  /\ active' = active + 1
  /\ state' = [state EXCEPT ![r] = "Running"]
  /\ requests' = requests \cup {r}
  /\ UNCHANGED <<queue, ready, timer, start, right, leaseVars>>

AdmitQueued(r) ==
  /\ state[r] = "new"
  /\ ~(active < MaxConcurrent /\ queue = <<>>)
  /\ Len(queue) < QueueMax
  /\ queue' = Append(queue, r)
  /\ state' = [state EXCEPT ![r] = "Queued"]
  /\ requests' = requests \cup {r}
  /\ timer' = [timer EXCEPT ![r] = "armed"]
  /\ UNCHANGED <<active, ready, start, right, leaseVars>>

AdmitImmediateBudgetExceeded(r) ==
  /\ state[r] = "new"
  /\ ~(active < MaxConcurrent /\ queue = <<>>)
  /\ Len(queue) >= QueueMax
  /\ state' = [state EXCEPT ![r] = "rejected"]
  /\ UNCHANGED <<queueVars, start, right, leaseVars>>

-------------------------------------------------------------------------------
(* Reservation.Start, called once by the goroutine of the request          *)

(* The switch of the loop in Start, for a state other than Queued.  A      *)
(* request that runs gets its lease; a queue timeout hands out the one     *)
(* right to answer.                                                        *)
StartOutcome(r) ==
  \/ /\ state[r] = "Running"
     /\ start' = [start EXCEPT ![r] = "run"]
     /\ lease' = [lease EXCEPT ![r] = "live"]
     /\ UNCHANGED right
  \/ /\ state[r] = "Cancelled"
     /\ start' = [start EXCEPT ![r] = "cancelled"]
     /\ UNCHANGED <<right, lease>>
  \/ /\ state[r] = "TimeoutResponseCommitted" /\ r \in right
     /\ start' = [start EXCEPT ![r] = "timeout"]
     /\ right' = right \ {r}
     /\ UNCHANGED lease

Start(r) ==
  /\ state[r] \in {"Running", "Cancelled", "TimeoutResponseCommitted"}
  /\ start[r] = "none"
  /\ StartOutcome(r)
  /\ UNCHANGED <<state, queueVars, noCommit, marking>>

(* A queued request blocks on its ready channel, without the lock.         *)
StartWait(r) ==
  /\ state[r] = "Queued" /\ start[r] = "none"
  /\ start' = [start EXCEPT ![r] = "waiting"]
  /\ UNCHANGED <<state, queueVars, right, leaseVars>>

Wake(r) ==
  /\ start[r] = "waiting" /\ r \in ready
  /\ StartOutcome(r)
  /\ UNCHANGED <<state, queueVars, noCommit, marking>>

-------------------------------------------------------------------------------
(* Leaving the queue, leaving a slot                                       *)

(* queue.Remove(queueNode): nothing when the node is nil.                  *)
Unlink(r) ==
  IF r \in ToSet(queue)
  THEN \E k \in DOMAIN queue : queue[k] = r /\ queue' = RemoveAt(queue, k)
  ELSE UNCHANGED queue

(* Timer.Stop prevents a callback that has not begun, not one under way.   *)
Stopped(t) == IF t = "armed" THEN "off" ELSE t

(* Mutated form: the ready channel stays open.                             *)
LeaveQueue_NoSignal(r, s) ==
  /\ Unlink(r)
  /\ state' = [state EXCEPT ![r] = s]
  /\ requests' = requests \ {r}
  /\ UNCHANGED <<active, ready>>

(* A request leaves the queue for state s without ever having run.         *)
LeaveQueue(r, s) ==
  /\ Unlink(r)
  /\ state' = [state EXCEPT ![r] = s]
  /\ requests' = requests \ {r}
  /\ ready' = ready \cup {r}
  /\ UNCHANGED active

(* Mutated form: the slot is given back and nobody is promoted.            *)
FreeSlot_NoPromotion(r, s, closed, timers) ==
  /\ requests' = requests \ {r}
  /\ active' = active - 1
  /\ state' = [state EXCEPT ![r] = s]
  /\ timer' = timers
  /\ ready' = ready \cup closed
  /\ UNCHANGED queue

(* Mutated form: the youngest waiting request is promoted.                 *)
FreeSlot_Youngest(r, s, closed, timers) ==
  /\ requests' = requests \ {r}
  /\ IF queue # <<>>
     THEN LET last == Last(queue) IN
          /\ queue' = Front(queue)
          /\ state' = [state EXCEPT ![r] = s, ![last] = "Running"]
          /\ timer' = [timers EXCEPT ![last] = Stopped(@)]
          /\ ready' = ready \cup closed \cup {last}
          /\ UNCHANGED active
     ELSE /\ active' = active - 1
          /\ state' = [state EXCEPT ![r] = s]
          /\ timer' = timers
          /\ ready' = ready \cup closed
          /\ UNCHANGED queue

(* active--; promoteHeadLocked(): the slot passes to the head of the queue *)
(* under the same lock.  closed holds the requests whose ready channel the *)
(* caller closes; stopped is the timer map after the caller's change.      *)
FreeSlot(r, s, closed, timers) ==
  /\ requests' = requests \ {r}
  /\ IF queue # <<>> /\ active - 1 < MaxConcurrent
     THEN LET head == Head(queue) IN
          /\ queue' = Tail(queue)
          /\ active' = active
          /\ state' = [state EXCEPT ![r] = s, ![head] = "Running"]
          /\ timer' = [timers EXCEPT ![head] = Stopped(@)]
          /\ ready' = ready \cup closed \cup {head}
     ELSE /\ active' = active - 1
          /\ state' = [state EXCEPT ![r] = s]
          /\ timer' = timers
          /\ ready' = ready \cup closed
          /\ UNCHANGED queue

-------------------------------------------------------------------------------
(* Cancellation                                                            *)

CancelQueued(r) ==
  /\ state[r] = "Queued"
  /\ LeaveQueue(r, "Cancelled")
  /\ timer' = [timer EXCEPT ![r] = Stopped(@)]
  /\ UNCHANGED <<start, right, leaseVars>>

(* Admitted or promoted, but its goroutine has not yet taken the lease.    *)
CancelUnstarted(r) ==
  /\ state[r] = "Running" /\ lease[r] = "none"
  /\ FreeSlot(r, "Cancelled", {r}, timer)
  /\ UNCHANGED <<start, right, leaseVars>>

(* Mutated form: cancelling a worker gives its slot back at once.          *)
CancelWorking_FreesSlot(r) ==
  /\ state[r] = "Running" /\ lease[r] # "none"
  /\ FreeSlot(r, "Lingering", {}, timer)
  /\ marking' = marking \cup {r}
  /\ UNCHANGED <<start, right, lease, noCommit>>

(* The worker is under way: the slot stays charged, and the lease is       *)
(* marked after Coordinator.mu is released.                                *)
CancelWorking(r) ==
  /\ state[r] = "Running" /\ lease[r] # "none"
  /\ state' = [state EXCEPT ![r] = "Lingering"]
  /\ marking' = marking \cup {r}
  /\ UNCHANGED <<queueVars, start, right, lease, noCommit>>

(* lease.MarkNoCommit() for an owner that is not shared: the flag is set   *)
(* unless the worker has returned.                                         *)
MarkNoCommit(r) ==
  /\ r \in marking
  /\ marking' = marking \ {r}
  /\ noCommit' = IF lease[r] = "live" THEN noCommit \cup {r} ELSE noCommit
  /\ UNCHANGED <<state, queueVars, start, right, lease>>

-------------------------------------------------------------------------------
(* The queue timer                                                         *)

TimerFires(r) ==
  /\ timer[r] = "armed"
  /\ timer' = [timer EXCEPT ![r] = "firing"]
  /\ UNCHANGED <<state, active, queue, requests, ready, start, right, leaseVars>>

(* Mutated form: a stale callback is not recognised.                       *)
QueueTimedOut_Stale(r) ==
  /\ timer[r] = "firing"
  /\ LeaveQueue(r, "TimeoutResponseCommitted")
  /\ right' = right \cup {r}
  /\ timer' = [timer EXCEPT ![r] = "off"]
  /\ UNCHANGED <<start, leaseVars>>

QueueTimedOut(r) ==
  /\ timer[r] = "firing" /\ state[r] = "Queued"
  /\ LeaveQueue(r, "TimeoutResponseCommitted")
  /\ right' = right \cup {r}
  /\ timer' = [timer EXCEPT ![r] = "off"]
  /\ UNCHANGED <<start, leaseVars>>

(* The callback lost the race for Coordinator.mu: it returns.              *)
StaleTimer(r) ==
  /\ timer[r] = "firing" /\ state[r] # "Queued"
  /\ timer' = [timer EXCEPT ![r] = "off"]
  /\ UNCHANGED <<state, active, queue, requests, ready, start, right, leaseVars>>

(* The callback panics before its first change, and releases the lock.     *)
(* What may happen before failQueueTimerAfterPanic takes the lock again is *)
(* everything that may happen to a queued request.  (A panic after the     *)
(* first change differs only in a right to answer that reaches Start; the  *)
(* fatal transition, which precedes the cleanup, keeps the answer from     *)
(* being written.)                                                         *)
TimerPanics(r) ==
  /\ timer[r] = "firing" /\ state[r] = "Queued"
  /\ timer' = [timer EXCEPT ![r] = "panicked"]
  /\ UNCHANGED <<state, active, queue, requests, ready, start, right, leaseVars>>

(* failQueueTimerAfterPanic, by the state it finds.                        *)
FailWaiting(r) ==
  /\ timer[r] = "panicked" /\ state[r] = "Queued"
  /\ LeaveQueue(r, "Cancelled")
  /\ right' = right \ {r}
  /\ timer' = [timer EXCEPT ![r] = "off"]
  /\ UNCHANGED <<start, leaseVars>>

FailUnstarted(r) ==
  /\ timer[r] = "panicked" /\ state[r] = "Running" /\ lease[r] = "none"
  /\ FreeSlot(r, "Cancelled", {r}, [timer EXCEPT ![r] = "off"])
  /\ right' = right \ {r}
  /\ UNCHANGED <<start, leaseVars>>

FailWorking(r) ==
  /\ timer[r] = "panicked" /\ state[r] \in {"Running", "Lingering"} /\ lease[r] # "none"
  /\ state' = [state EXCEPT ![r] = "Lingering"]
  /\ marking' = marking \cup {r}
  /\ right' = right \ {r}
  /\ timer' = [timer EXCEPT ![r] = "off"]
  /\ UNCHANGED <<active, queue, requests, ready, start, lease, noCommit>>

FailGone(r) ==
  /\ timer[r] = "panicked" /\ state[r] \in {"Cancelled", "Returned"}
  /\ LeaveQueue(r, state[r])
  /\ right' = right \ {r}
  /\ timer' = [timer EXCEPT ![r] = "off"]
  /\ UNCHANGED <<start, leaseVars>>

-------------------------------------------------------------------------------
(* The worker returns                                                      *)

(* The first half of WorkLease.WorkerReturned, under the lease's lock.  A  *)
(* second call finds returned set and does nothing.                        *)
ReturnLease(r) ==
  /\ lease[r] = "live"
  /\ lease' = [lease EXCEPT ![r] = "returning"]
  /\ UNCHANGED <<state, queueVars, start, right, noCommit, marking>>

(* Its release function, after the owner's: Coordinator.workerReturned.    *)
WorkerReturned(r) ==
  /\ lease[r] = "returning"
  /\ lease' = [lease EXCEPT ![r] = "returned"]
  /\ FreeSlot(r, "Returned", {}, timer)
  /\ UNCHANGED <<start, right, noCommit, marking>>

-------------------------------------------------------------------------------
Admit(r) == AdmitRun(r) \/ AdmitQueued(r) \/ AdmitImmediateBudgetExceeded(r)
Cancel(r) == CancelQueued(r) \/ CancelUnstarted(r) \/ CancelWorking(r)
FailQueueTimerAfterPanic(r) ==
  FailWaiting(r) \/ FailUnstarted(r) \/ FailWorking(r) \/ FailGone(r)

Step(r) ==
  \/ Admit(r)
  \/ Start(r) \/ StartWait(r) \/ Wake(r)
  \/ Cancel(r) \/ MarkNoCommit(r)
  \/ TimerFires(r) \/ QueueTimedOut(r) \/ StaleTimer(r)
  \/ TimerPanics(r) \/ FailQueueTimerAfterPanic(r)
  \/ ReturnLease(r) \/ WorkerReturned(r)

(* Every request has been admitted and is gone: the coordinator idles.     *)
Finished ==
  /\ \A r \in Requests :
       /\ state[r] \in {"rejected", "Cancelled", "TimeoutResponseCommitted", "Returned"}
       /\ state[r] # "rejected" => start[r] \notin {"none", "waiting"}
       /\ timer[r] = "off"
  /\ marking = {}
  /\ UNCHANGED vars

Next == (\E r \in Requests : Step(r)) \/ Finished

Spec == Init /\ [][Next]_vars

(* What the code schedules by itself: a goroutine that is launched for     *)
(* every admitted request the transport does not abandon by cancelling it, *)
(* runnable goroutines, and workers that return.  Nothing is asked of the  *)
(* client, of cancellations or of the clock: the queue timers may never    *)
(* fire.                                                                   *)
Fairness ==
  \A r \in Requests :
    /\ WF_vars(state[r] \in {"Queued", "Running"} /\ (Start(r) \/ StartWait(r)))
    /\ WF_vars(Wake(r))
    /\ WF_vars(ReturnLease(r))
    /\ WF_vars(WorkerReturned(r))

FairSpec == Spec /\ Fairness
-------------------------------------------------------------------------------
(* Properties                                                              *)

TypeOK ==
  /\ state \in [Requests -> States]
  /\ active \in Nat
  /\ queue \in Seq(Requests)
  /\ requests \subseteq Requests
  /\ ready \subseteq Requests
  /\ timer \in [Requests -> Timers]
  /\ start \in [Requests -> Starts]
  /\ right \subseteq Requests
  /\ lease \in [Requests -> Leases]
  /\ noCommit \subseteq Requests
  /\ marking \subseteq Requests

(* The counter, the list and the map of the coordinator describe the same  *)
(* requests: active counts exactly the requests that hold a slot, the      *)
(* queue lists every queued request once, the map holds the keys of both,  *)
(* and neither limit is exceeded.  (active, queue and requests are changed *)
(* in nine places of admission.go and queue.go.)                           *)
SlotAccounting ==
  /\ IsFiniteSet(Charged) /\ active = Cardinality(Charged)
  /\ active <= MaxConcurrent
  /\ IsInjective(queue) /\ ToSet(queue) = Queued
  /\ Len(queue) <= QueueMax
  /\ requests = Queued \cup Charged

(* No request waits while a slot is free: whichever way a slot is given    *)
(* back (a worker returns, a cancellation before Start, the cleanup of a   *)
(* panic), promoteHeadLocked hands it on before the lock is released.      *)
WorkConserving == queue # <<>> => active = MaxConcurrent

(* Never more than MaxConcurrent workers are under way, cancelled ones     *)
(* included: WorkLease "keeps one active work slot charged until the       *)
(* actual worker returns" (work_lease.go:15).                              *)
Working == {r \in Requests : lease[r] = "live"}

WorkersWithinLimit ==
  /\ IsFiniteSet(Working)
  /\ Cardinality(Working) <= active
  /\ active <= MaxConcurrent

(* The books and the bound together.                                       *)
WorkBounded == SlotAccounting /\ WorkersWithinLimit

(* A goroutine blocked in Start has either been signalled or is still in   *)
(* the queue, where a promotion, a cancellation or its timer will find it. *)
NoLostWakeup ==
  \A r \in Requests : start[r] = "waiting" /\ r \notin ready => r \in Queued

(* The line is served: whoever waits in it does so behind busy slots and   *)
(* where the next free one will find it.                                   *)
LineServed == WorkConserving /\ NoLostWakeup

(* The right to answer a queue timeout exists once and only for a request  *)
(* that timed out: one that was cancelled, or promoted before the callback *)
(* got the lock, can never be answered by it.                              *)
OneAnswerRight ==
  \A r \in Requests :
    /\ r \in right => state[r] = "TimeoutResponseCommitted" /\ start[r] \in {"none", "waiting"}
    /\ start[r] = "timeout" => state[r] = "TimeoutResponseCommitted" /\ r \notin right
    /\ state[r] = "TimeoutResponseCommitted" => lease[r] = "none"

(* A cancelled worker is told: once the canceller is done, its live lease  *)
(* can no longer be transferred to a publication.                          *)
CancelledWorkMarked ==
  \A r \in Requests :
    state[r] = "Lingering" /\ r \notin marking /\ lease[r] = "live" => r \in noCommit

(* What was decided of a request is decided once: by the answer to Start,  *)
(* by the right to a timeout's answer, or by the mark of its lease.        *)
FateDecidedOnce == OneAnswerRight /\ CancelledWorkMarked

(* Every admitted request leaves the coordinator, even if no queue timer   *)
(* ever fires and nobody cancels: slots return and pass down the queue.    *)
RequestsDrain == \A r \in Requests : r \in requests ~> r \notin requests

(* The coordinator implements the bounded FIFO admission its callers rely  *)
(* on.                                                                     *)
Fate(r) ==
  CASE r \in Queued -> "waiting"
    [] r \in Charged -> "charged"
    [] state[r] = "new" -> "absent"
    [] OTHER -> "gone"

Admission == INSTANCE BoundedAdmission
  WITH fate <- [r \in Requests |-> Fate(r)], line <- queue

ImplementsBoundedAdmission == Admission!ASpec
===============================================================================
