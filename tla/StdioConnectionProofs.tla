------------------------ MODULE StdioConnectionProofs ------------------------
(***************************************************************************)
(* Proofs about Coordinator and StdioConnection, for every set of requests *)
(* and every limits.                                                       *)
(*                                                                         *)
(* First the coordinator: IInv joins its books (SlotAccounting,            *)
(* WorkConserving) to what each request's goroutine and lease can be doing *)
(* in each state (Lifecycle), without which neither is inductive: a slot   *)
(* is given back only by a request that holds one, and that is what        *)
(* Lifecycle says of the requests whose lease is being returned.           *)
(*                                                                         *)
(* Then the composition: every step of the connection is a step of its     *)
(* Coordinator or leaves it alone, so all that is proved of the            *)
(* coordinator holds inside a connection.  Then an invariant of the        *)
(* connection itself, ConnectionInv, which rests on the coordinator's.     *)
(* Last TrackingInv, which rests on both: who still has to settle a call,  *)
(* and whose failure a torn response goes back to.                         *)
(***************************************************************************)
EXTENDS StdioConnection, CollectionLemmas

-------------------------------------------------------------------------------
(* The inductive invariant                                                 *)

(* What the goroutine of a request and its lease can be doing in each      *)
(* state of the request.                                                   *)
Lifecycle ==
  \A r \in Requests :
    /\ state[r] \in {"new", "rejected"} => start[r] = "none" /\ lease[r] = "none"
    /\ state[r] = "Queued" => start[r] \in {"none", "waiting"} /\ lease[r] = "none"
    /\ state[r] = "Running" =>
         \/ start[r] \in {"none", "waiting"} /\ lease[r] = "none"
         \/ start[r] = "run" /\ lease[r] \in {"live", "returning"}
    /\ state[r] = "Lingering" => start[r] = "run" /\ lease[r] \in {"live", "returning"}
    /\ state[r] = "Cancelled" => start[r] \in {"none", "waiting", "cancelled"} /\ lease[r] = "none"
    /\ state[r] = "TimeoutResponseCommitted" =>
         start[r] \in {"none", "waiting", "timeout"} /\ lease[r] = "none"
    /\ state[r] = "Returned" => start[r] = "run" /\ lease[r] = "returned"

Books == SlotAccounting /\ WorkConserving
PerRequest == Lifecycle /\ NoLostWakeup /\ OneAnswerRight /\ CancelledWorkMarked

IInv == TypeOK /\ Books /\ PerRequest

-------------------------------------------------------------------------------
(* The books under the two ways out of the coordinator                     *)

(* Leaving the queue keeps the books: no slot changes hands, and the line  *)
(* only becomes shorter.                                                   *)
LEMMA LeaveQueueBooks ==
  ASSUME TypeOK, Books, NEW r \in Requests, r \in Queued,
         NEW s \in {"Cancelled", "TimeoutResponseCommitted"}, LeaveQueue(r, s)
  PROVE  queue' \in Seq(Requests) /\ Books'
<1>1. r \in ToSet(queue)
  BY DEF Books, SlotAccounting
<1>2. PICK k \in DOMAIN queue : queue[k] = r /\ queue' = RemoveAt(queue, k)
  BY <1>1 DEF LeaveQueue, Unlink
<1>3. queue \in Seq(Requests) /\ IsInjective(queue) /\ Len(queue) \in Nat
  BY LenProperties DEF TypeOK, Books, SlotAccounting
<1>4. /\ queue' \in Seq(Requests) /\ Len(queue') = Len(queue) - 1
      /\ IsInjective(queue') /\ ToSet(queue') = ToSet(queue) \ {r}
  BY <1>2, <1>3, RemoveAtFacts
<1>5. /\ Queued' = Queued \ {r} /\ Charged' = Charged
      /\ requests' = requests \ {r} /\ active' = active
  BY DEF LeaveQueue, TypeOK, Queued, Charged
<1>6. r \notin Charged
  BY DEF Queued, Charged
<1>7. queue # <<>>
  BY <1>2, <1>3, EmptySeq
<1> QED
  BY <1>3, <1>4, <1>5, <1>6, <1>7, LimitsAssumption
  DEF TypeOK, Books, SlotAccounting, WorkConserving

(* Giving back a slot keeps the books: it passes to the head of the queue, *)
(* or, if nobody waits, the count goes down by one.                        *)
LEMMA FreeSlotBooks ==
  ASSUME TypeOK, Books, NEW r \in Requests, r \in Charged,
         NEW s \in {"Cancelled", "Returned"}, NEW closed, NEW timers,
         FreeSlot(r, s, closed, timers)
  PROVE  queue' \in Seq(Requests) /\ active' \in Nat /\ Books'
<1>1. /\ IsFiniteSet(Charged) /\ active = Cardinality(Charged) /\ active \in Nat
      /\ queue \in Seq(Requests) /\ IsInjective(queue) /\ Len(queue) \in Nat
      /\ active <= MaxConcurrent /\ MaxConcurrent \in Nat /\ QueueMax \in Nat
      /\ ToSet(queue) = Queued /\ Len(queue) <= QueueMax
  BY LimitsAssumption, LenProperties DEF TypeOK, Books, SlotAccounting
<1>2. IsFiniteSet(Charged \ {r}) /\ Cardinality(Charged \ {r}) = active - 1
  BY <1>1, FS_RemoveElement
<1>3. active > 0
  BY <1>1, FS_EmptySet
<1>4. requests' = requests \ {r} /\ r \notin Queued
  BY DEF FreeSlot, Charged, Queued
<1>5. CASE queue # <<>>
  <2> DEFINE head == Head(queue)
  <2>1. /\ queue' = Tail(queue) /\ active' = active
        /\ state' = [state EXCEPT ![r] = s, ![head] = "Running"]
    BY <1>1, <1>5 DEF FreeSlot
  <2>2. /\ head \in Requests /\ head \in Queued
        /\ queue' \in Seq(Requests) /\ Len(queue') = Len(queue) - 1
        /\ IsInjective(queue') /\ ToSet(queue') = Queued \ {head}
    BY <1>1, <1>5, <2>1, TailFacts
  <2>3. head \notin Charged /\ head # r
    BY <1>4, <2>2 DEF Charged, Queued
  <2>4. Charged' = (Charged \ {r}) \cup {head} /\ Queued' = Queued \ {head}
    BY <2>1, <2>2, <2>3 DEF TypeOK, Charged, Queued
  <2>5. IsFiniteSet(Charged') /\ Cardinality(Charged') = active
    <3>1. /\ IsFiniteSet((Charged \ {r}) \cup {head})
          /\ Cardinality((Charged \ {r}) \cup {head}) = Cardinality(Charged \ {r}) + 1
      BY <1>2, <2>3, FS_AddElement
    <3> QED BY <1>1, <1>2, <2>4, <3>1
  <2>6. active = MaxConcurrent
    BY <1>5 DEF Books, WorkConserving
  <2> QED
    BY <1>1, <1>4, <2>1, <2>2, <2>4, <2>5, <2>6 DEF Books, SlotAccounting, WorkConserving
<1>6. CASE queue = <<>>
  <2>1. /\ queue' = queue /\ active' = active - 1
        /\ state' = [state EXCEPT ![r] = s]
    BY <1>6 DEF FreeSlot
  <2>2. Charged' = Charged \ {r} /\ Queued' = Queued
    BY <1>4, <2>1 DEF TypeOK, Charged, Queued
  <2> QED
    BY <1>1, <1>2, <1>3, <1>4, <1>6, <2>1, <2>2 DEF Books, SlotAccounting, WorkConserving
<1> QED BY <1>5, <1>6

(* A step that neither moves a request between the queue and the slots nor *)
(* touches the counter, the list or the map keeps the books.               *)
LEMMA SameBooks ==
  ASSUME Books, Queued' = Queued, Charged' = Charged,
         UNCHANGED <<active, queue, requests>>
  PROVE  Books'
BY DEF Books, SlotAccounting, WorkConserving

-------------------------------------------------------------------------------
LEMMA InitIInv == Init => IInv
<1> SUFFICES ASSUME Init PROVE IInv
  OBVIOUS
<1>1. TypeOK
  BY DEF Init, TypeOK, States, Timers, Starts, Leases
<1>2. Books
  <2>1. Charged = {} /\ Queued = {} /\ ToSet(queue) = {} /\ IsInjective(queue) /\ Len(queue) = 0
    BY DEF Init, Charged, Queued, ToSet, IsInjective
  <2> QED
    BY <2>1, FS_EmptySet, LimitsAssumption
    DEF Init, Books, SlotAccounting, WorkConserving
<1>3. PerRequest
  BY DEF Init, PerRequest, Lifecycle, NoLostWakeup, OneAnswerRight, CancelledWorkMarked
<1> QED BY <1>1, <1>2, <1>3 DEF IInv

(* Admission: the three outcomes of Admit.                                 *)
LEMMA AdmitIInv ==
  ASSUME IInv, NEW r \in Requests, Admit(r)
  PROVE  IInv'
<1> USE DEF IInv
<1>0. /\ queue \in Seq(Requests) /\ IsInjective(queue) /\ Len(queue) \in Nat
      /\ IsFiniteSet(Charged) /\ active = Cardinality(Charged) /\ active \in Nat
      /\ MaxConcurrent \in Nat /\ QueueMax \in Nat
  BY LimitsAssumption, LenProperties DEF TypeOK, Books, SlotAccounting
<1>1. CASE AdmitRun(r)
  <2>1. TypeOK'
    BY <1>1 DEF AdmitRun, TypeOK, States, leaseVars
  <2>2. Charged' = Charged \cup {r} /\ r \notin Charged /\ Queued' = Queued
    BY <1>1 DEF AdmitRun, TypeOK, Charged, Queued
  <2>3. IsFiniteSet(Charged') /\ Cardinality(Charged') = active + 1
    <3>1. /\ IsFiniteSet(Charged \cup {r})
          /\ Cardinality(Charged \cup {r}) = Cardinality(Charged) + 1
      BY <1>0, <2>2, FS_AddElement
    <3> QED BY <1>0, <2>2, <3>1
  <2>4. Books'
    BY <1>0, <1>1, <2>2, <2>3 DEF AdmitRun, Books, SlotAccounting, WorkConserving
  <2>5. PerRequest'
    BY <1>1 DEF AdmitRun, leaseVars, TypeOK, PerRequest, Lifecycle, NoLostWakeup,
                OneAnswerRight, CancelledWorkMarked, Queued
  <2> QED BY <2>1, <2>4, <2>5
<1>2. CASE AdmitQueued(r)
  <2>1. r \notin ToSet(queue)
    BY <1>2 DEF AdmitQueued, Books, SlotAccounting, Queued
  <2>2. /\ queue' = Append(queue, r)
        /\ queue' \in Seq(Requests) /\ Len(queue') = Len(queue) + 1
        /\ IsInjective(queue') /\ ToSet(queue') = ToSet(queue) \cup {r}
    BY <1>0, <1>2, <2>1, AppendFacts DEF AdmitQueued
  <2>3. TypeOK'
    BY <1>2, <2>2 DEF AdmitQueued, TypeOK, States, Timers, leaseVars
  <2>4. Charged' = Charged /\ Queued' = Queued \cup {r}
    BY <1>2 DEF AdmitQueued, TypeOK, Charged, Queued
  <2>5. active = MaxConcurrent
    BY <1>0, <1>2 DEF AdmitQueued, Books, SlotAccounting, WorkConserving
  <2>6. Books'
    BY <1>0, <1>2, <2>2, <2>4, <2>5 DEF AdmitQueued, Books, SlotAccounting, WorkConserving
  <2>7. PerRequest'
    BY <1>2 DEF AdmitQueued, leaseVars, TypeOK, PerRequest, Lifecycle, NoLostWakeup,
                OneAnswerRight, CancelledWorkMarked, Queued
  <2> QED BY <2>3, <2>6, <2>7
<1>3. CASE AdmitImmediateBudgetExceeded(r)
  <2> USE <1>3 DEF AdmitImmediateBudgetExceeded, queueVars, leaseVars
  <2>1. TypeOK'
    BY DEF TypeOK, States
  <2>2. Charged' = Charged /\ Queued' = Queued
    BY DEF TypeOK, Charged, Queued
  <2>3. Books'
    BY <2>2, SameBooks
  <2>4. PerRequest'
    BY DEF TypeOK, PerRequest, Lifecycle, NoLostWakeup, OneAnswerRight,
           CancelledWorkMarked, Queued
  <2> QED BY <2>1, <2>3, <2>4
<1> QED BY <1>1, <1>2, <1>3 DEF Admit

(* Reservation.Start: a lease, an outcome, or a wait on the ready channel. *)
LEMMA StartIInv ==
  ASSUME IInv, NEW r \in Requests, Start(r) \/ StartWait(r) \/ Wake(r)
  PROVE  IInv'
<1> USE DEF IInv, queueVars, leaseVars
<1>1. UNCHANGED <<state, active, queue, requests, ready, timer, noCommit, marking>>
  BY DEF Start, StartWait, Wake
<1>2. Charged' = Charged /\ Queued' = Queued
  BY <1>1 DEF Charged, Queued
<1>3. Books'
  BY <1>1, <1>2, SameBooks
<1>4. CASE Start(r)
  <2>1. TypeOK'
    BY <1>1, <1>4 DEF Start, StartOutcome, TypeOK, Starts, Leases
  <2>2. PerRequest'
    BY <1>1, <1>4 DEF Start, StartOutcome, TypeOK, PerRequest, Lifecycle, NoLostWakeup,
                      OneAnswerRight, CancelledWorkMarked, Queued
  <2> QED BY <1>3, <2>1, <2>2
<1>5. CASE StartWait(r)
  <2>1. TypeOK'
    BY <1>1, <1>5 DEF StartWait, TypeOK, Starts
  <2>2. PerRequest'
    BY <1>1, <1>5 DEF StartWait, TypeOK, PerRequest, Lifecycle, NoLostWakeup,
                      OneAnswerRight, CancelledWorkMarked, Queued
  <2> QED BY <1>3, <2>1, <2>2
<1>6. CASE Wake(r)
  <2>1. TypeOK'
    BY <1>1, <1>6 DEF Wake, StartOutcome, TypeOK, Starts, Leases
  <2>2. PerRequest'
    BY <1>1, <1>6 DEF Wake, StartOutcome, TypeOK, PerRequest, Lifecycle, NoLostWakeup,
                      OneAnswerRight, CancelledWorkMarked, Queued
  <2> QED BY <1>3, <2>1, <2>2
<1> QED BY <1>4, <1>5, <1>6

(* Leaving the queue keeps the rest of the invariant, for a cancellation,  *)
(* a timeout or the cleanup of a panic.                                    *)
LEMMA LeaveQueueIInv ==
  ASSUME IInv, NEW r \in Requests, r \in Queued,
         NEW s \in {"Cancelled", "TimeoutResponseCommitted"}, LeaveQueue(r, s),
         timer' \in [Requests -> Timers],
         right' = IF s = "Cancelled" THEN right \ {r} ELSE right \cup {r},
         UNCHANGED <<start, leaseVars>>
  PROVE  IInv'
<1> USE DEF IInv, leaseVars
<1>1. queue' \in Seq(Requests) /\ Books'
  BY LeaveQueueBooks
<1>2. TypeOK'
  BY <1>1 DEF LeaveQueue, TypeOK, States
<1>3. PerRequest'
  BY DEF LeaveQueue, TypeOK, PerRequest, Lifecycle, NoLostWakeup, OneAnswerRight,
         CancelledWorkMarked, Queued
<1> QED BY <1>1, <1>2, <1>3

(* Giving back a slot before the worker began, or after it returned.       *)
LEMMA FreeSlotIInv ==
  ASSUME IInv, NEW r \in Requests, r \in Charged,
         NEW timers \in [Requests -> Timers],
         \/ /\ FreeSlot(r, "Cancelled", {r}, timers)
            /\ state[r] = "Running" /\ lease[r] = "none"
            /\ UNCHANGED lease
         \/ /\ FreeSlot(r, "Returned", {}, timers)
            /\ lease[r] = "returning" /\ lease' = [lease EXCEPT ![r] = "returned"],
         right' = right \ {r} \/ right' = right, UNCHANGED <<start, noCommit, marking>>
  PROVE  IInv'
<1> USE DEF IInv
<1>1. queue' \in Seq(Requests) /\ active' \in Nat /\ Books'
  BY FreeSlotBooks
<1>2. queue # <<>> => Head(queue) \in Requests /\ Head(queue) \in Queued /\ Head(queue) # r
  <2>1. queue # <<>> => Head(queue) \in ToSet(queue)
    BY TailFacts DEF TypeOK, Books, SlotAccounting
  <2> QED BY <2>1 DEF Books, SlotAccounting, Queued, Charged
<1>3. TypeOK'
  BY <1>1, <1>2 DEF FreeSlot, TypeOK, States, Timers, Leases, Stopped
<1>4. ASSUME queue = <<>> PROVE PerRequest'
  BY <1>4 DEF FreeSlot, TypeOK, PerRequest, Lifecycle, NoLostWakeup, OneAnswerRight,
              CancelledWorkMarked, Queued, Charged
<1>5. ASSUME queue # <<>> PROVE PerRequest'
  <2> DEFINE head == Head(queue)
  <2>1. head \in Requests /\ state[head] = "Queued" /\ head # r
    BY <1>2, <1>5 DEF Queued
  <2>2. active - 1 < MaxConcurrent
    BY LimitsAssumption DEF TypeOK, Books, SlotAccounting
  <2>3. /\ \E s \in {"Cancelled", "Returned"} :
             /\ state' = [state EXCEPT ![r] = s, ![head] = "Running"]
             /\ s = "Cancelled" => r \in ready' /\ lease[r] = "none" /\ lease' = lease
             /\ s = "Returned" => /\ lease[r] = "returning"
                                 /\ lease' = [lease EXCEPT ![r] = "returned"]
      /\ ready \cup {head} \subseteq ready'
    BY <1>5, <2>2 DEF FreeSlot
  <2> HIDE DEF head
  <2>4. Lifecycle'
    BY <2>1, <2>3 DEF TypeOK, PerRequest, Lifecycle, Charged
  <2>5. NoLostWakeup'
    BY <2>1, <2>3 DEF TypeOK, PerRequest, Lifecycle, NoLostWakeup, Queued, Charged
  <2>6. OneAnswerRight' /\ CancelledWorkMarked'
    BY <2>1, <2>3 DEF TypeOK, PerRequest, Lifecycle, OneAnswerRight, CancelledWorkMarked, Charged
  <2> QED BY <2>4, <2>5, <2>6 DEF PerRequest
<1> QED BY <1>1, <1>3, <1>4, <1>5

(* Cancellation in each state, and the lease's MarkNoCommit that follows.  *)
LEMMA CancelIInv ==
  ASSUME IInv, NEW r \in Requests, Cancel(r) \/ MarkNoCommit(r)
  PROVE  IInv'
<1> USE DEF IInv
<1>1. CASE CancelQueued(r)
  <2>1. timer' \in [Requests -> Timers] /\ r \in Queued /\ r \notin right
    BY <1>1 DEF CancelQueued, TypeOK, Timers, Stopped, Queued, PerRequest, OneAnswerRight
  <2> QED BY <1>1, <2>1, LeaveQueueIInv DEF CancelQueued, leaseVars
<1>2. CASE CancelUnstarted(r)
  BY <1>2, FreeSlotIInv DEF CancelUnstarted, leaseVars, TypeOK, Charged
<1>3. CASE CancelWorking(r)
  <2> USE <1>3 DEF CancelWorking, queueVars
  <2>1. Charged' = Charged /\ Queued' = Queued
    BY DEF TypeOK, Charged, Queued
  <2>2. Books'
    BY <2>1, SameBooks
  <2>3. TypeOK'
    BY DEF TypeOK, States
  <2>4. PerRequest'
    BY DEF TypeOK, PerRequest, Lifecycle, NoLostWakeup, OneAnswerRight,
           CancelledWorkMarked, Queued
  <2> QED BY <2>2, <2>3, <2>4
<1>4. CASE MarkNoCommit(r)
  <2> USE <1>4 DEF MarkNoCommit, queueVars
  <2>1. Charged' = Charged /\ Queued' = Queued
    BY DEF Charged, Queued
  <2>2. Books'
    BY <2>1, SameBooks
  <2>3. TypeOK'
    BY DEF TypeOK
  <2>4. PerRequest'
    BY DEF TypeOK, PerRequest, Lifecycle, NoLostWakeup, OneAnswerRight,
           CancelledWorkMarked, Queued
  <2> QED BY <2>2, <2>3, <2>4
<1> QED BY <1>1, <1>2, <1>3, <1>4 DEF Cancel

(* The queue timer: a callback in time, a stale one, one that panics.      *)
LEMMA TimerIInv ==
  ASSUME IInv, NEW r \in Requests,
         \/ TimerFires(r) \/ QueueTimedOut(r) \/ StaleTimer(r)
         \/ TimerPanics(r) \/ FailQueueTimerAfterPanic(r)
  PROVE  IInv'
<1> USE DEF IInv
<1>1. CASE TimerFires(r) \/ StaleTimer(r) \/ TimerPanics(r)
  <2>1. /\ timer' \in [Requests -> Timers]
        /\ UNCHANGED <<state, active, queue, requests, ready, start, right, leaseVars>>
    BY <1>1 DEF TimerFires, StaleTimer, TimerPanics, TypeOK, Timers
  <2>2. Charged' = Charged /\ Queued' = Queued
    BY <2>1 DEF Charged, Queued
  <2>3. Books'
    BY <2>1, <2>2, SameBooks
  <2> QED
    BY <2>1, <2>3 DEF TypeOK, leaseVars, PerRequest, Lifecycle, NoLostWakeup, OneAnswerRight,
                      CancelledWorkMarked, Queued
<1>2. CASE QueueTimedOut(r)
  <2>1. timer' \in [Requests -> Timers] /\ r \in Queued
    BY <1>2 DEF QueueTimedOut, TypeOK, Timers, Queued
  <2> QED BY <1>2, <2>1, LeaveQueueIInv DEF QueueTimedOut
<1>3. CASE FailWaiting(r)
  <2>1. timer' \in [Requests -> Timers] /\ r \in Queued
    BY <1>3 DEF FailWaiting, TypeOK, Timers, Queued
  <2> QED BY <1>3, <2>1, LeaveQueueIInv DEF FailWaiting
<1>4. CASE FailUnstarted(r)
  <2>1. [timer EXCEPT ![r] = "off"] \in [Requests -> Timers]
    BY DEF TypeOK, Timers
  <2> QED BY <1>4, <2>1, FreeSlotIInv DEF FailUnstarted, leaseVars, Charged
<1>5. CASE FailWorking(r)
  <2> USE <1>5 DEF FailWorking
  <2>1. Charged' = Charged /\ Queued' = Queued
    BY DEF TypeOK, Charged, Queued
  <2>2. Books'
    BY <2>1, SameBooks
  <2>3. TypeOK'
    BY DEF TypeOK, States, Timers
  <2>4. PerRequest'
    BY DEF TypeOK, PerRequest, Lifecycle, NoLostWakeup, OneAnswerRight,
           CancelledWorkMarked, Queued
  <2> QED BY <2>2, <2>3, <2>4
<1>6. CASE FailGone(r)
  <2>1. state' = state /\ queue' = queue /\ active' = active /\ requests' = requests
    BY <1>6 DEF FailGone, LeaveQueue, Unlink, TypeOK, Books, SlotAccounting, Queued, Charged
  <2>2. Charged' = Charged /\ Queued' = Queued
    BY <2>1 DEF Charged, Queued
  <2>3. Books'
    BY <2>1, <2>2, SameBooks
  <2>4. TypeOK'
    BY <1>6, <2>1 DEF FailGone, LeaveQueue, leaseVars, TypeOK, Timers
  <2>5. PerRequest'
    BY <1>6, <2>1 DEF FailGone, LeaveQueue, leaseVars, TypeOK, PerRequest, Lifecycle,
                      NoLostWakeup, OneAnswerRight, CancelledWorkMarked, Queued
  <2> QED BY <2>3, <2>4, <2>5
<1> QED BY <1>1, <1>2, <1>3, <1>4, <1>5, <1>6 DEF FailQueueTimerAfterPanic

(* The worker returns its lease, then its slot.                            *)
LEMMA ReturnIInv ==
  ASSUME IInv, NEW r \in Requests, ReturnLease(r) \/ WorkerReturned(r)
  PROVE  IInv'
<1> USE DEF IInv
<1>1. CASE ReturnLease(r)
  <2> USE <1>1 DEF ReturnLease, queueVars
  <2>1. Charged' = Charged /\ Queued' = Queued
    BY DEF Charged, Queued
  <2>2. Books'
    BY <2>1, SameBooks
  <2>3. TypeOK'
    BY DEF TypeOK, Leases
  <2>4. PerRequest'
    BY DEF TypeOK, PerRequest, Lifecycle, NoLostWakeup, OneAnswerRight,
           CancelledWorkMarked, Queued
  <2> QED BY <2>2, <2>3, <2>4
<1>2. CASE WorkerReturned(r)
  <2>1. r \in Charged
    BY <1>2 DEF WorkerReturned, TypeOK, States, Charged, PerRequest, Lifecycle
  <2>2. timer \in [Requests -> Timers]
    BY DEF TypeOK
  <2> QED BY <1>2, <2>1, <2>2, FreeSlotIInv DEF WorkerReturned
<1> QED BY <1>1, <1>2

LEMMA NextIInv == IInv /\ [Next]_vars => IInv'
<1> SUFFICES ASSUME IInv, [Next]_vars PROVE IInv'
  OBVIOUS
<1>1. ASSUME NEW r \in Requests, Step(r) PROVE IInv'
  BY <1>1, AdmitIInv, StartIInv, CancelIInv, TimerIInv, ReturnIInv DEF Step
<1>2. CASE UNCHANGED vars
  <2>1. Charged' = Charged /\ Queued' = Queued
    BY <1>2 DEF vars, Charged, Queued
  <2>2. Books'
    BY <1>2, <2>1, SameBooks DEF vars, queueVars, IInv
  <2> QED
    BY <1>2, <2>2 DEF IInv, vars, queueVars, leaseVars, TypeOK, PerRequest, Lifecycle,
                      NoLostWakeup, OneAnswerRight, CancelledWorkMarked, Queued
<1> QED BY <1>1, <1>2 DEF Next, Finished

THEOREM Invariance == Spec => []IInv
BY InitIInv, NextIInv, PTL DEF Spec

-------------------------------------------------------------------------------
(* The properties                                                          *)

(* The variables of the coordinator keep their types.                      *)
THEOREM TypeCorrect == Spec => []TypeOK
BY Invariance, PTL DEF IInv

(* For any number of requests and any limits, the counter, the queue and   *)
(* the map of the coordinator agree and neither limit is exceeded.         *)
THEOREM SlotsAccounted == Spec => []SlotAccounting
BY Invariance, PTL DEF IInv, Books

(* No slot idles while a request waits for one.                            *)
THEOREM NoIdleSlot == Spec => []WorkConserving
BY Invariance, PTL DEF IInv, Books

(* No more than MaxConcurrent workers are ever under way, cancelled ones   *)
(* included.                                                               *)
THEOREM BoundedWork == Spec => []WorkersWithinLimit
<1>1. IInv => WorkersWithinLimit
  <2> SUFFICES ASSUME IInv PROVE WorkersWithinLimit
    OBVIOUS
  <2>1. Working \subseteq Charged
    BY DEF IInv, TypeOK, States, Working, Charged, PerRequest, Lifecycle
  <2>2. IsFiniteSet(Charged) /\ active = Cardinality(Charged) /\ active <= MaxConcurrent
    BY DEF IInv, Books, SlotAccounting
  <2> QED BY <2>1, <2>2, FS_Subset DEF WorkersWithinLimit
<1> QED BY <1>1, Invariance, PTL

(* A goroutine blocked in Start has been signalled or is still queued.     *)
THEOREM WakeupsKept == Spec => []NoLostWakeup
BY Invariance, PTL DEF IInv, PerRequest

(* Running and lingering workers stay within MaxConcurrent, and the books  *)
(* of the coordinator say so.                                              *)
THEOREM WorkIsBounded == Spec => []WorkBounded
BY SlotsAccounted, BoundedWork, PTL DEF WorkBounded

(* A waiting request neither waits for nothing nor sleeps through its turn.*)
THEOREM LineIsServed == Spec => []LineServed
BY NoIdleSlot, WakeupsKept, PTL DEF LineServed

(* The right to answer a queue timeout is unique and exclusive.            *)
THEOREM SingleAnswerRight == Spec => []OneAnswerRight
BY Invariance, PTL DEF IInv, PerRequest

(* A cancelled worker's lease is barred from publication.                  *)
THEOREM CancelledWorkBarred == Spec => []CancelledWorkMarked
BY Invariance, PTL DEF IInv, PerRequest

(* What was decided of a request is decided once (QueueTimedOut, cancel).  *)
THEOREM FateIsDecidedOnce == Spec => []FateDecidedOnce
BY SingleAnswerRight, CancelledWorkBarred, PTL DEF FateDecidedOnce

-------------------------------------------------------------------------------
(* Refinement of BoundedAdmission                                          *)

fateMap == [r \in Requests |-> Fate(r)]

(* What the mapping makes of each state.                                   *)
LEMMA FateOf ==
  ASSUME TypeOK, NEW r \in Requests
  PROVE  /\ Fate(r) = "waiting" <=> r \in Queued
         /\ Fate(r) = "charged" <=> r \in Charged
         /\ Fate(r) = "absent" <=> state[r] = "new"
         /\ Fate(r) = "gone" <=>
              state[r] \in {"rejected", "Cancelled", "TimeoutResponseCommitted", "Returned"}
BY DEF Fate, Queued, Charged, TypeOK, States

LEMMA AbstractSlots ==
  ASSUME IInv
  PROVE  /\ Admission!Charged = Charged
         /\ Admission!SlotFree <=> active < MaxConcurrent
<1>1. Admission!Charged = Charged
  <2>1. \A r \in Requests : Fate(r) = "charged" <=> r \in Charged
    BY FateOf DEF IInv
  <2>2. Charged \subseteq Requests
    BY DEF Charged
  <2> QED BY <2>1, <2>2 DEF Admission!Charged
<1>2. Admission!Cardinality(Charged) = Cardinality(Charged)
  BY DEF Admission!Cardinality, Cardinality
<1> QED BY <1>1, <1>2 DEF Admission!SlotFree, IInv, Books, SlotAccounting

(* A step that keeps every state and the queue is a stutter.               *)
LEMMA AbstractStutter ==
  ASSUME Queued' = Queued, Charged' = Charged, queue' = queue,
         \A r \in Requests : state[r] = "new" <=> state'[r] = "new"
  PROVE  UNCHANGED Admission!avars
BY DEF Admission!avars, Fate

(* Leaving the queue is Withdraw.                                          *)
LEMMA LeaveQueueRefines ==
  ASSUME IInv, NEW r \in Requests, r \in Queued,
         NEW s \in {"Cancelled", "TimeoutResponseCommitted"}, LeaveQueue(r, s)
  PROVE  Admission!Withdraw(r)
<1>1. r \in ToSet(queue)
  BY DEF IInv, Books, SlotAccounting
<1>2. PICK k \in DOMAIN queue : queue[k] = r /\ queue' = RemoveAt(queue, k)
  BY <1>1 DEF LeaveQueue, Unlink
<1>3. state' = [state EXCEPT ![r] = s]
  BY DEF LeaveQueue
<1>4. fateMap' = [fateMap EXCEPT ![r] = "gone"]
  BY <1>3 DEF IInv, TypeOK, fateMap, Fate, Queued, Charged
<1> QED BY <1>2, <1>4 DEF Admission!Withdraw, Admission!RemoveAt, RemoveAt, fateMap

(* Giving back a slot is HandOver when a request waits, Release otherwise. *)
LEMMA FreeSlotRefines ==
  ASSUME IInv, NEW r \in Requests, r \in Charged,
         NEW s \in {"Cancelled", "Returned"}, NEW closed, NEW timers,
         FreeSlot(r, s, closed, timers)
  PROVE  Admission!HandOver(r) \/ Admission!Release(r)
<1>0. fateMap[r] = "charged"
  BY FateOf DEF IInv, fateMap
<1>1. CASE queue # <<>>
  <2> DEFINE head == Head(queue)
  <2>1. active - 1 < MaxConcurrent
    BY LimitsAssumption DEF IInv, TypeOK, Books, SlotAccounting
  <2>2. queue' = Tail(queue) /\ state' = [state EXCEPT ![r] = s, ![head] = "Running"]
    BY <1>1, <2>1 DEF FreeSlot
  <2>3. head \in Requests /\ head \in Queued /\ head # r
    <3>1. head \in Requests /\ head \in ToSet(queue)
      BY <1>1, TailFacts DEF IInv, TypeOK, Books, SlotAccounting
    <3> QED BY <3>1 DEF IInv, Books, SlotAccounting, Queued, Charged
  <2> HIDE DEF head
  <2>4. fateMap' = [fateMap EXCEPT ![r] = "gone", ![head] = "charged"]
    BY <2>2, <2>3 DEF IInv, TypeOK, fateMap, Fate, Queued, Charged
  <2> QED BY <1>0, <1>1, <2>2, <2>4 DEF Admission!HandOver, fateMap, head
<1>2. CASE queue = <<>>
  <2>1. queue' = queue /\ state' = [state EXCEPT ![r] = s]
    BY <1>2 DEF FreeSlot
  <2>2. fateMap' = [fateMap EXCEPT ![r] = "gone"]
    BY <2>1 DEF IInv, TypeOK, fateMap, Fate, Queued, Charged
  <2> QED BY <1>0, <1>2, <2>1, <2>2 DEF Admission!Release, fateMap
<1> QED BY <1>1, <1>2

(* The three outcomes of Admit are Accept, Enqueue and Refuse.  That a     *)
(* request is queued or refused only when no slot is free is WorkConserving.*)
LEMMA AdmitRefines ==
  ASSUME IInv, NEW r \in Requests, Admit(r)
  PROVE  Admission!ANext
<1>0. /\ fateMap[r] = "absent" /\ state[r] = "new"
  BY FateOf DEF IInv, fateMap, Admit, AdmitRun, AdmitQueued, AdmitImmediateBudgetExceeded
<1>1. active <= MaxConcurrent /\ active \in Nat /\ MaxConcurrent \in Nat
      /\ (queue # <<>> => active = MaxConcurrent)
  BY LimitsAssumption DEF IInv, TypeOK, Books, SlotAccounting, WorkConserving
<1>2. CASE AdmitRun(r)
  <2>1. fateMap' = [fateMap EXCEPT ![r] = "charged"]
    BY <1>2 DEF AdmitRun, IInv, TypeOK, fateMap, Fate, Queued, Charged
  <2>2. Admission!SlotFree
    BY <1>2, AbstractSlots DEF AdmitRun
  <2>3. Admission!Accept(r)
    BY <1>0, <1>2, <2>1, <2>2 DEF AdmitRun, Admission!Accept, fateMap
  <2> QED BY <2>3 DEF Admission!ANext
<1>3. CASE AdmitQueued(r)
  <2>1. fateMap' = [fateMap EXCEPT ![r] = "waiting"]
    BY <1>3 DEF AdmitQueued, IInv, TypeOK, fateMap, Fate, Queued, Charged
  <2>2. ~Admission!SlotFree
    BY <1>1, <1>3, AbstractSlots DEF AdmitQueued
  <2>3. Admission!Enqueue(r)
    BY <1>0, <1>3, <2>1, <2>2 DEF AdmitQueued, Admission!Enqueue, fateMap
  <2> QED BY <2>3 DEF Admission!ANext
<1>4. CASE AdmitImmediateBudgetExceeded(r)
  <2>1. fateMap' = [fateMap EXCEPT ![r] = "gone"]
    BY <1>4 DEF AdmitImmediateBudgetExceeded, IInv, TypeOK, fateMap, Fate, Queued, Charged
  <2>2. ~Admission!SlotFree
    BY <1>1, <1>4, AbstractSlots DEF AdmitImmediateBudgetExceeded
  <2>3. Admission!Refuse(r)
    BY <1>0, <1>4, <2>1, <2>2 DEF AdmitImmediateBudgetExceeded, Admission!Refuse, fateMap, queueVars
  <2> QED BY <2>3 DEF Admission!ANext
<1> QED BY <1>2, <1>3, <1>4 DEF Admit

LEMMA StepRefines ==
  ASSUME IInv, NEW r \in Requests, Step(r)
  PROVE  Admission!ANext \/ UNCHANGED Admission!avars
<1>1. CASE Admit(r)
  BY <1>1, AdmitRefines
<1>2. CASE CancelQueued(r) \/ QueueTimedOut(r) \/ FailWaiting(r)
  <2>1. Admission!Withdraw(r)
    BY <1>2, LeaveQueueRefines DEF CancelQueued, QueueTimedOut, FailWaiting, Queued
  <2> QED BY <2>1 DEF Admission!ANext
<1>3. CASE CancelUnstarted(r) \/ FailUnstarted(r) \/ WorkerReturned(r)
  <2>1. r \in Charged
    BY <1>3 DEF CancelUnstarted, FailUnstarted, WorkerReturned, Charged, IInv, TypeOK,
                States, PerRequest, Lifecycle
  <2>2. Admission!HandOver(r) \/ Admission!Release(r)
    BY <1>3, <2>1, FreeSlotRefines DEF CancelUnstarted, FailUnstarted, WorkerReturned
  <2> QED BY <2>2 DEF Admission!ANext
<1>4. CASE CancelWorking(r) \/ FailWorking(r)
  <2>1. /\ state' = [state EXCEPT ![r] = "Lingering"] /\ queue' = queue
        /\ state[r] \in {"Running", "Lingering"}
    BY <1>4 DEF CancelWorking, FailWorking, queueVars
  <2>2. /\ Queued' = Queued /\ Charged' = Charged
        /\ \A q \in Requests : state[q] = "new" <=> state'[q] = "new"
    BY <2>1 DEF IInv, TypeOK, Queued, Charged
  <2> QED BY <2>1, <2>2, AbstractStutter
<1>5. CASE \/ Start(r) \/ StartWait(r) \/ Wake(r) \/ MarkNoCommit(r) \/ TimerFires(r)
           \/ StaleTimer(r) \/ TimerPanics(r) \/ FailGone(r) \/ ReturnLease(r)
  <2>1. state' = state /\ queue' = queue
    <3>1. CASE FailGone(r)
      BY <3>1 DEF FailGone, LeaveQueue, Unlink, IInv, TypeOK, Books, SlotAccounting, Queued
    <3> QED
      BY <1>5, <3>1 DEF Start, StartWait, Wake, MarkNoCommit, TimerFires, StaleTimer,
                        TimerPanics, ReturnLease, queueVars
  <2>2. Queued' = Queued /\ Charged' = Charged
    BY <2>1 DEF Queued, Charged
  <2> QED BY <2>1, <2>2, AbstractStutter
<1> QED BY <1>1, <1>2, <1>3, <1>4, <1>5 DEF Step, Cancel, FailQueueTimerAfterPanic

(* The coordinator of internal/runtime, with its timers, its two-step      *)
(* cancellation and its leases, implements bounded FIFO admission.         *)
THEOREM CoordinatorImplementsAdmission == Spec => ImplementsBoundedAdmission
<1>1. Init => Admission!AInit
  BY DEF Init, Admission!AInit, Fate, Queued, Charged
<1>2. IInv /\ [Next]_vars => [Admission!ANext]_(Admission!avars)
  <2> SUFFICES ASSUME IInv, [Next]_vars
               PROVE  Admission!ANext \/ UNCHANGED Admission!avars
    OBVIOUS
  <2>1. ASSUME NEW r \in Requests, Step(r)
        PROVE  Admission!ANext \/ UNCHANGED Admission!avars
    BY <2>1, StepRefines
  <2>2. CASE UNCHANGED vars
    <3>1. state' = state /\ queue' = queue
      BY <2>2 DEF vars, queueVars
    <3>2. Queued' = Queued /\ Charged' = Charged
      BY <3>1 DEF Queued, Charged
    <3> QED BY <3>1, <3>2, AbstractStutter
  <2> QED BY <2>1, <2>2 DEF Next, Finished
<1> QED
  BY <1>1, <1>2, Invariance, PTL DEF Spec, ImplementsBoundedAdmission, Admission!ASpec


-------------------------------------------------------------------------------
(* Composition                                                             *)

(* A reader's step admits, cancels or leaves the coordinator alone.        *)
LEMMA ServeSteps == Serve => [Next]_vars
<1> SUFFICES ASSUME Serve PROVE [Next]_vars
  OBVIOUS
<1>1. ASSUME NEW r \in Requests, ReservationCancel(r) PROVE [Next]_vars
  BY <1>1 DEF ReservationCancel, Next, Step
<1>2. ASSUME NEW r \in Requests, AdmitToolCall(r) PROVE [Next]_vars
  BY <1>2 DEF AdmitToolCall, Admit, Next, Step
<1>3. ASSUME NEW r \in Requests,
             NextFrame(r) \/ AcquireOutput(r) \/ CancelIgnored(r) \/ CancelDone(r)
      PROVE  [Next]_vars
  BY <1>3 DEF NextFrame, AcquireOutput, CancelIgnored, CancelDone
<1>4. ASSUME NEW r \in Requests, AcquireFails(r) \/ CancelToolRequest(r) PROVE [Next]_vars
  BY <1>1, <1>4 DEF AcquireFails, CancelToolRequest, CancelRequest
<1>5. ASSUME ServeReturns \/ StopAccepting \/ ServeStops \/ CloseExecutor PROVE [Next]_vars
  BY <1>5 DEF ServeReturns, StopAccepting, ServeStops, CloseExecutor
<1> QED BY <1>2, <1>3, <1>4, <1>5 DEF Serve

(* So does a step of a call's goroutine, of its executor or of a timer.    *)
LEMMA CallSteps ==
  ASSUME NEW r \in Requests,
         StartBlocks(r) \/ StartReturns(r) \/ Executor(r) \/ Respond(r) \/ Write(r)
           \/ Background(r)
  PROVE  [Next]_vars
<1>1. ASSUME Step(r) PROVE [Next]_vars
  BY <1>1 DEF Next
<1>2. ASSUME Abort(r) PROVE [Next]_vars
  BY <1>1, <1>2 DEF Abort, Step
<1>3. CASE StartBlocks(r) \/ StartReturns(r)
  BY <1>1, <1>3 DEF StartBlocks, StartReturns, Step
<1>4. CASE Executor(r)
  BY <1>1, <1>4 DEF Executor, ExecutorReturnsLease, CommitInitial, RenderFails, CallReturns,
                    WorkerPanics, Step
<1>5. CASE Respond(r)
  BY <1>2, <1>5 DEF Respond, CancelledBeforeResponse, ResponseEncoded, EncodeFails,
                    BeginTransaction, BeginRefused, ClaimResponse, ClaimLost, EnterWrite,
                    WriteRefused, WriteStopped, Leave
<1>6. CASE Write(r)
  BY <1>1, <1>2, <1>6 DEF Write, Prepare, StartOutput, EndOutput, WriteFails,
                          OrdinaryWritten, Commit, CommitFails, Expire, Step
<1>7. CASE Background(r)
  <2>1. ASSUME ReservationCancel(r) PROVE [Next]_vars
    BY <1>1, <2>1 DEF ReservationCancel, Step
  <2>2. CASE SweepOne(r)
    BY <2>1, <2>2 DEF SweepOne, CancelRequest
  <2> QED
    BY <1>1, <1>7, <2>2 DEF Background, QueueTimer, QueueTimerPanics, QueueTimerCleanup,
                            NoCommit, SlotReturned, PanicCleanup, PanicRecorded, Step
<1> QED BY <1>3, <1>4, <1>5, <1>6, <1>7

LEMMA ConnectionSteps == [ConnectionNext]_allVars => [Next]_vars
<1>1. Serve => [Next]_vars
  BY ServeSteps
<1>2. FatalTransition \/ Served => [Next]_vars
  BY DEF FatalTransition, Served, allVars
<1>3. UNCHANGED allVars => [Next]_vars
  BY DEF allVars
<1> QED BY <1>1, <1>2, <1>3, CallSteps DEF ConnectionNext

(* A connection drives its coordinator only in the ways the coordinator is *)
(* proved to handle: Start once per request, a lease returned once, a      *)
(* cancellation only of an admitted request.                               *)
THEOREM ConnectionUsesCoordinator == ConnectionSpec => Spec
<1>1. ConnectionInit => Init
  BY DEF ConnectionInit
<1> QED BY <1>1, ConnectionSteps, PTL DEF ConnectionSpec, Spec

(* Hence a connection never runs more calls than its limit, cancelled ones *)
(* that linger included.                                                   *)
THEOREM ConnectionWorkBounded == ConnectionSpec => []WorkersWithinLimit
BY ConnectionUsesCoordinator, BoundedWork, PTL

-------------------------------------------------------------------------------
(* What the connection may rely on when the coordinator moves              *)

(* A coordinator step other than an admission or a timer's panic: a request*)
(* stays admitted or refused, and what Start returned stays returned.      *)
Sticky ==
  /\ \A q \in Requests :
       /\ state'[q] = "new" <=> state[q] = "new"
       /\ state'[q] = "rejected" <=> state[q] = "rejected"
       /\ start[q] \in {"run", "timeout"} => start'[q] = start[q]
       /\ start[q] = "none" /\ phase[q] # "launched" => start'[q] = "none"
       /\ timer'[q] = "panicked" => timer[q] = "panicked"

LEMMA SlotSticks ==
  ASSUME IInv, NEW r \in Requests, state[r] \notin {"new", "rejected"},
         NEW s \in {"Cancelled", "Returned"}, NEW closed, NEW timers,
         \/ timers = timer
         \/ timers = [timer EXCEPT ![r] = "off"],
         FreeSlot(r, s, closed, timers), UNCHANGED start
  PROVE  Sticky
<1>1. queue # <<>> => Head(queue) \in Requests /\ state[Head(queue)] = "Queued"
  <2> SUFFICES ASSUME queue # <<>> PROVE Head(queue) \in Queued
    BY DEF Queued
  <2>1. queue \in Seq(Requests) /\ ToSet(queue) = Queued
    BY DEF IInv, TypeOK, Books, SlotAccounting
  <2> QED BY <2>1, HeadTailProperties DEF ToSet
<1>2. timer \in [Requests -> Timers] /\ state \in [Requests -> States]
  BY DEF IInv, TypeOK
<1>3. timers \in [Requests -> Timers]
      /\ \A q \in Requests : timers[q] = "panicked" => timer[q] = "panicked"
  BY <1>2 DEF Timers
<1> QED BY <1>1, <1>2, <1>3 DEF FreeSlot, Sticky, Stopped

LEMMA QueueSticks ==
  ASSUME IInv, NEW r \in Requests, state[r] \notin {"new", "rejected"},
         NEW s \in {"Cancelled", "TimeoutResponseCommitted", "Returned"},
         LeaveQueue(r, s), UNCHANGED start,
         \/ timer' = [timer EXCEPT ![r] = Stopped(@)]
         \/ timer' = [timer EXCEPT ![r] = "off"]
  PROVE  Sticky
BY DEF IInv, TypeOK, LeaveQueue, Sticky, Stopped

LEMMA CancelSticks ==
  ASSUME IInv, NEW r \in Requests, ReservationCancel(r)
  PROVE  Sticky /\ marking' \subseteq marking \cup {r} /\ state[r] \notin {"new", "rejected"}
<1>1. CASE CancelQueued(r)
  BY <1>1, QueueSticks DEF CancelQueued, leaseVars
<1>2. CASE CancelUnstarted(r)
  BY <1>2, SlotSticks DEF CancelUnstarted, leaseVars
<1>3. CASE CancelWorking(r)
  BY <1>3 DEF CancelWorking, IInv, TypeOK, Sticky, queueVars
<1>4. CASE UNCHANGED vars /\ state[r] \in {"Cancelled", "TimeoutResponseCommitted", "Lingering", "Returned"}
  BY <1>4 DEF vars, queueVars, leaseVars, Sticky
<1> QED BY <1>1, <1>2, <1>3, <1>4 DEF ReservationCancel, Cancel

LEMMA TimerSticks ==
  ASSUME IInv, NEW r \in Requests,
         TimerFires(r) \/ QueueTimedOut(r) \/ StaleTimer(r) \/ FailQueueTimerAfterPanic(r)
  PROVE  Sticky /\ marking' \subseteq marking \cup {r}
               /\ (~FailQueueTimerAfterPanic(r) => marking' = marking)
<1>1. CASE TimerFires(r) \/ StaleTimer(r)
  BY <1>1 DEF TimerFires, StaleTimer, IInv, TypeOK, Sticky, leaseVars
<1>2. CASE QueueTimedOut(r)
  BY <1>2, QueueSticks DEF QueueTimedOut, leaseVars
<1>3. CASE FailWaiting(r)
  BY <1>3, QueueSticks DEF FailWaiting, leaseVars, FailQueueTimerAfterPanic
<1>4. CASE FailGone(r)
  BY <1>4, QueueSticks DEF FailGone, leaseVars, FailQueueTimerAfterPanic
<1>5. CASE FailUnstarted(r)
  BY <1>5, SlotSticks DEF FailUnstarted, leaseVars, FailQueueTimerAfterPanic
<1>6. CASE FailWorking(r)
  BY <1>6 DEF FailWorking, IInv, TypeOK, Sticky, FailQueueTimerAfterPanic
<1> QED BY <1>1, <1>2, <1>3, <1>4, <1>5, <1>6 DEF FailQueueTimerAfterPanic

LEMMA LeaseSticks ==
  ASSUME IInv, NEW r \in Requests,
         \/ UNCHANGED vars
         \/ phase[r] = "launched" /\ (Start(r) \/ StartWait(r) \/ Wake(r))
         \/ MarkNoCommit(r) \/ ReturnLease(r) \/ WorkerReturned(r)
  PROVE  Sticky /\ marking' \subseteq marking
<1>1. CASE UNCHANGED vars
  BY <1>1 DEF vars, queueVars, leaseVars, Sticky
<1>2. CASE phase[r] = "launched" /\ (Start(r) \/ StartWait(r))
  BY <1>2 DEF Start, StartWait, StartOutcome, IInv, TypeOK, Sticky, queueVars, leaseVars
<1>3. CASE Wake(r)
  BY <1>3 DEF Wake, StartOutcome, IInv, TypeOK, Sticky, queueVars
<1>4. CASE MarkNoCommit(r) \/ ReturnLease(r)
  BY <1>4 DEF MarkNoCommit, ReturnLease, Sticky, queueVars
<1>5. CASE WorkerReturned(r)
  <2>1. state[r] \notin {"new", "rejected"}
    BY <1>5 DEF WorkerReturned, IInv, PerRequest, Lifecycle
  <2> QED BY <1>5, <2>1, SlotSticks DEF WorkerReturned
<1> QED BY <1>1, <1>2, <1>3, <1>4, <1>5

LEMMA AbortSticks ==
  ASSUME IInv, NEW r \in Requests, Abort(r)
  PROVE  Sticky /\ marking' \subseteq marking
BY LeaseSticks DEF Abort

-------------------------------------------------------------------------------
(* The invariant of the connection                                         *)

(* Where a request stands in the connection and in its coordinator.        *)
Placed ==
  /\ \A r, q \in frame : r = q
  /\ \A r \in Requests :
      /\ phase[r] = "none" <=> state[r] = "new"
      /\ phase[r] \in {"admitted", "launched", "calling", "called", "ready", "timedOut", "open",
                       "panicked", "cleaning"} => state[r] # "rejected"
      /\ phase[r] = "refused" => state[r] = "rejected"
      /\ r \in toolRequests \cup sweep \cup cancelled => state[r] \notin {"new", "rejected"}
      /\ phase[r] = "calling" => start[r] = "run"
      /\ phase[r] \in {"none", "admitted"} => start[r] = "none"
      /\ state[r] = "rejected" /\ phase[r] # "gone" => reader = "refusing" /\ frame = {r}

(* Who may answer: the call that claimed its response, or the reader for   *)
(* a call it refused.                                                      *)
Answering ==
  \A r \in Requests :
    /\ phase[r] \in {"claimed", "writing"} => r \in responding \/ state[r] = "rejected"
    /\ response[r] # "none" =>
         /\ phase[r] \in {"writing", "settling", "gone"}
         /\ r \in responding \/ state[r] = "rejected"
    /\ r \in cancelled \cap responding => start[r] = "timeout"

(* Who may mark a lease: a winning cancellation, or the cleanup that       *)
(* follows the fatal transition.                                           *)
Marking ==
  \A r \in Requests :
    /\ r \in marking => r \in cancelled \/ fatal = "done"
    /\ timer[r] = "panicked" => fatal # "no"

(* How far the publication of a call is.                                   *)
Publishing ==
  \A r \in Requests :
    /\ cursor[r] # "none" => start[r] = "run"
    /\ cursor[r] = "Publishing" => phase[r] = "writing"
    /\ cursor[r] = "Published" => response[r] = "whole"
    /\ response[r] # "none" /\ cursor[r] # "none" /\ ~terminalStopped =>
         \/ cursor[r] \in {"Publishing", "Published"}
         \/ cursor[r] = "dropped" /\ phase[r] = "writing"

(* What the fatal signal and the shutdown have silenced.                   *)
Silenced ==
  /\ fatal = "done" => \A r \in Requests : phase[r] # "writing"
  /\ reader \in {"waiting", "stopping", "done"} => gateStopped
  /\ reader \in {"stopping", "done"} => InTransaction = {} /\ terminalStopped
  /\ executorClosed => reader = "done"

ConnectionInv ==
  /\ ConnectionTypeOK /\ NoUnpreparedToken
  /\ Placed /\ Answering /\ Marking /\ Publishing /\ Silenced

-------------------------------------------------------------------------------
(* Initial states and steps                                                *)

LEMMA InitConnectionInv == ConnectionInit => ConnectionInv
<1> SUFFICES ASSUME ConnectionInit PROVE ConnectionInv
  OBVIOUS
<1>1. TypeOK
  BY InitIInv DEF ConnectionInit, IInv
<1> QED
  BY <1>1 DEF ConnectionInit, Init, ConnectionInv, ConnectionTypeOK, NoUnpreparedToken, Placed,
              Answering, Marking, Publishing, Silenced, Phases, Cursors, Readers, InTransaction

(* The reader between two frames.                                          *)
LEMMA ReaderInv ==
  ASSUME IInv, TypeOK', ConnectionInv, NEW r \in Requests,
         NextFrame(r) \/ AcquireOutput(r) \/ CancelIgnored(r) \/ CancelDone(r)
  PROVE  ConnectionInv'
<1>1. UNCHANGED vars
  BY DEF NextFrame, AcquireOutput, CancelIgnored, CancelDone
<1>2. state' = state /\ start' = start /\ marking' = marking /\ timer' = timer
  BY <1>1 DEF vars, queueVars, leaseVars
<1> USE DEF ConnectionInv, ConnectionTypeOK, NoUnpreparedToken, Placed, Answering, Marking,
            Publishing, Silenced, InTransaction, Readers, requestVars, outputVars, stopVars
<1>3. CASE NextFrame(r)
  BY <1>2, <1>3 DEF NextFrame
<1>4. CASE AcquireOutput(r)
  BY <1>2, <1>4 DEF AcquireOutput, Goto, Phases
<1>5. CASE CancelIgnored(r) \/ CancelDone(r)
  BY <1>2, <1>5 DEF CancelIgnored, CancelDone
<1> QED BY <1>3, <1>4, <1>5

(* The shutdown, the fatal transition, and steps that change nothing.      *)
LEMMA ShutdownInv ==
  ASSUME IInv, TypeOK', ConnectionInv,
         \/ ServeReturns \/ StopAccepting \/ ServeStops \/ CloseExecutor
         \/ FatalTransition \/ UNCHANGED allVars
  PROVE  ConnectionInv'
<1>1. UNCHANGED vars
  BY DEF ServeReturns, StopAccepting, ServeStops, CloseExecutor, FatalTransition, allVars
<1>2. state' = state /\ start' = start /\ marking' = marking /\ timer' = timer
  BY <1>1 DEF vars, queueVars, leaseVars
<1> USE DEF ConnectionInv, ConnectionTypeOK, NoUnpreparedToken, Placed, Answering, Marking,
            Publishing, Silenced, InTransaction, Readers, requestVars, outputVars, stopVars
<1>3. CASE ServeReturns
  BY <1>2, <1>3 DEF ServeReturns
<1>4. CASE StopAccepting
  BY <1>2, <1>4 DEF StopAccepting
<1>5. CASE ServeStops
  BY <1>2, <1>5 DEF ServeStops, Stop
<1>6. CASE CloseExecutor
  <2>1. /\ cursor' \in [Requests -> Cursors]
        /\ \A q \in Requests :
             /\ cursor'[q] \notin {"Provisional", "Publishing", "Published"}
             /\ cursor'[q] # "none" => cursor[q] # "none"
    BY <1>6 DEF CloseExecutor, Cursors
  <2>2. /\ terminalStopped /\ InTransaction = {} /\ gateStopped
        /\ reader = "stopping" /\ reader' = "done"
        /\ UNCHANGED <<phase, cancelled, responding, toolRequests, response, frame, sweep,
                      gateStopped, terminalStopped, asyncError, fatal>>
        /\ executorClosed' \in BOOLEAN
    BY <1>6 DEF CloseExecutor
  <2> QED BY <1>2, <2>1, <2>2
<1>7. CASE FatalTransition
  <2>1. \A q \in Requests : phase[q] # "writing"
    BY <1>7 DEF FatalTransition, Writers
  <2>2. /\ fatal' = "done"
        /\ UNCHANGED <<phase, cancelled, responding, toolRequests, cursor, response, reader, frame,
                      sweep, gateStopped, terminalStopped, asyncError, executorClosed>>
    BY <1>7 DEF FatalTransition, serveVars
  <2> QED BY <1>2, <2>1, <2>2
<1>8. CASE UNCHANGED allVars
  BY <1>2, <1>8 DEF allVars, connectionVars, serveVars
<1> QED BY <1>3, <1>4, <1>5, <1>6, <1>7, <1>8

(* The reader admits a call.                                               *)
LEMMA AdmitInv ==
  ASSUME IInv, TypeOK', ConnectionInv, NEW r \in Requests, AdmitToolCall(r)
  PROVE  ConnectionInv'
<1>1. /\ state[r] = "new" /\ start' = start /\ marking' = marking
      /\ \/ state' = [state EXCEPT ![r] = "Running"] /\ phase' = [phase EXCEPT ![r] = "admitted"]
            /\ reader' = "admitting" /\ timer' = timer
         \/ state' = [state EXCEPT ![r] = "Queued"] /\ phase' = [phase EXCEPT ![r] = "admitted"]
            /\ reader' = "admitting" /\ timer' = [timer EXCEPT ![r] = "armed"]
         \/ state' = [state EXCEPT ![r] = "rejected"] /\ phase' = [phase EXCEPT ![r] = "refused"]
            /\ reader' = "refusing" /\ timer' = timer
  BY DEF AdmitToolCall, AdmitRun, AdmitQueued, AdmitImmediateBudgetExceeded, Goto, leaseVars, queueVars
<1>2. state \in [Requests -> States] /\ timer \in [Requests -> Timers]
      /\ start[r] = "none"
  BY <1>1 DEF IInv, TypeOK, PerRequest, Lifecycle
<1>3. frame = {r}
  BY DEF AdmitToolCall, ConnectionInv, ConnectionTypeOK, Placed
<1> QED
  BY <1>1, <1>2, <1>3 DEF AdmitToolCall, ConnectionInv, ConnectionTypeOK, NoUnpreparedToken, Placed,
         Answering, Marking, Publishing, Silenced, InTransaction, Phases, Readers, outputVars, stopVars

(* Cancellations: of a call that got no output place, of a registered      *)
(* call, of every call.                                                    *)
LEMMA CancellingInv ==
  ASSUME IInv, TypeOK', ConnectionInv, NEW r \in Requests,
         AcquireFails(r) \/ CancelToolRequest(r) \/ SweepOne(r)
  PROVE  ConnectionInv'
<1> USE DEF ConnectionInv, ConnectionTypeOK, NoUnpreparedToken, Placed, Answering, Marking,
            Publishing, Silenced, InTransaction, Readers, outputVars, stopVars
<1>1. CASE AcquireFails(r)
  <2>1. Sticky /\ marking' \subseteq marking \cup {r} /\ state[r] \notin {"new", "rejected"}
    BY <1>1, CancelSticks DEF AcquireFails
  <2>2. lease[r] = "none"
    BY <1>1, <2>1 DEF AcquireFails, IInv, TypeOK, States, PerRequest, Lifecycle
  <2>3. marking' = marking
    BY <1>1, <2>2 DEF AcquireFails, ReservationCancel, Cancel, CancelQueued, CancelUnstarted,
                      CancelWorking, leaseVars, vars
  <2> QED BY <1>1, <2>1, <2>3 DEF AcquireFails, Sticky, Goto, Phases
<1>2. ASSUME CancelRequest(r) PROVE Sticky /\ marking' \subseteq marking \cup {r}
                                    /\ state[r] \notin {"new", "rejected"}
  BY <1>2, CancelSticks DEF CancelRequest
<1>3. CASE CancelToolRequest(r)
  BY <1>2, <1>3 DEF CancelToolRequest, CancelRequest, Cancellable, Sticky
<1>4. CASE SweepOne(r) /\ CancelRequest(r)
  BY <1>2, <1>4 DEF SweepOne, CancelRequest, Cancellable, Sticky
<1>5. CASE SweepOne(r) /\ UNCHANGED <<vars, cancelled, toolRequests>>
  <2>1. Sticky /\ marking' \subseteq marking
    BY <1>5, LeaseSticks
  <2> QED BY <1>5, <2>1 DEF SweepOne, Sticky
<1> QED BY <1>1, <1>3, <1>4, <1>5 DEF SweepOne

(* Timers, panics, and the second halves of MarkNoCommit and               *)
(* WorkerReturned.                                                         *)
LEMMA BackgroundInv ==
  ASSUME IInv, TypeOK', ConnectionInv, NEW r \in Requests,
         \/ QueueTimer(r) \/ QueueTimerPanics(r) \/ QueueTimerCleanup(r)
         \/ NoCommit(r) \/ SlotReturned(r) \/ PanicCleanup(r) \/ PanicRecorded(r)
  PROVE  ConnectionInv'
<1> USE DEF ConnectionInv, ConnectionTypeOK, NoUnpreparedToken, Placed, Answering, Marking,
            Publishing, Silenced, InTransaction, Readers, requestVars, outputVars, serveVars,
            stopVars
<1>1. CASE QueueTimer(r)
  <2>1. Sticky /\ marking' = marking
    BY <1>1, TimerSticks DEF QueueTimer, TimerFires, QueueTimedOut, StaleTimer, leaseVars
  <2> QED BY <1>1, <2>1 DEF QueueTimer, Sticky, connectionVars
<1>2. CASE QueueTimerPanics(r)
  <2>1. UNCHANGED <<state, start, marking>> /\ timer' = [timer EXCEPT ![r] = "panicked"]
    BY <1>2 DEF QueueTimerPanics, TimerPanics, leaseVars
  <2> QED BY <1>2, <2>1 DEF QueueTimerPanics, Trigger
<1>3. CASE QueueTimerCleanup(r)
  <2>1. Sticky /\ fatal = "done"
    BY <1>3, TimerSticks DEF QueueTimerCleanup
  <2> QED BY <1>3, <2>1 DEF QueueTimerCleanup, Sticky, connectionVars
<1>4. CASE SlotReturned(r)
  <2>1. Sticky /\ marking' \subseteq marking
    BY <1>4, LeaseSticks DEF SlotReturned
  <2> QED BY <1>4, <2>1 DEF SlotReturned, Sticky, connectionVars
<1>5. CASE PanicCleanup(r)
  <2>1. Sticky /\ marking' \subseteq marking
    BY <1>5, LeaseSticks DEF PanicCleanup
  <2> QED BY <1>5, <2>1 DEF PanicCleanup, Sticky, Goto, Phases
<1>8. CASE PanicRecorded(r)
  <2>1. Sticky /\ marking' \subseteq marking
    BY <1>8, LeaseSticks DEF PanicRecorded
  <2> QED BY <1>8, <2>1 DEF PanicRecorded, Sticky, Goto, Phases, Unregister, Stop,
                            StoreAsyncError
<1>7. CASE NoCommit(r)
  <2>1. Sticky /\ marking' \subseteq marking /\ r \in marking
    BY <1>7, LeaseSticks DEF NoCommit, MarkNoCommit
  <2>2. CASE cursor' = cursor
    BY <1>7, <2>1, <2>2 DEF NoCommit, Sticky
  <2>3. CASE cursor' # cursor
    <3>1. /\ cursor' = [cursor EXCEPT ![r] = "rolledBack"]
          /\ cursor[r] \in {"Provisional", "Publishing"}
      BY <1>7, <2>3 DEF NoCommit
    <3>2. response[r] = "none"
      <4> SUFFICES ASSUME response[r] # "none" PROVE FALSE
        OBVIOUS
      <4>1. cursor[r] = "Publishing" /\ phase[r] = "writing" /\ start[r] = "run"
        BY <3>1
      <4>2. r \in cancelled
        BY <2>1, <4>1
      <4> QED BY <4>1, <4>2
    <3> QED BY <1>7, <2>1, <3>1, <3>2 DEF NoCommit, Sticky, Cursors
  <2> QED BY <2>2, <2>3
<1> QED BY <1>1, <1>2, <1>3, <1>4, <1>5, <1>7, <1>8

(* The goroutine and its executor, up to the end of the call.              *)
LEMMA ExecutionInv ==
  ASSUME IInv, TypeOK', ConnectionInv, NEW r \in Requests,
         StartBlocks(r) \/ StartReturns(r) \/ Executor(r)
  PROVE  ConnectionInv'
<1> USE DEF ConnectionInv, ConnectionTypeOK, NoUnpreparedToken, Placed, Answering, Marking,
            Publishing, Silenced, InTransaction, Readers, requestVars, outputVars, serveVars,
            stopVars
<1>1. Sticky /\ marking' \subseteq marking
  BY LeaseSticks DEF StartBlocks, StartReturns, Executor, ExecutorReturnsLease, CommitInitial,
                     CallReturns, RenderFails, WorkerPanics
<1>2. CASE StartBlocks(r) \/ ExecutorReturnsLease(r)
  BY <1>1, <1>2 DEF StartBlocks, ExecutorReturnsLease, connectionVars, Sticky
<1>3. CASE StartReturns(r)
  BY <1>1, <1>3 DEF StartReturns, Goto, Phases, Unregister, Sticky
<1>4. CASE CommitInitial(r)
  BY <1>1, <1>4 DEF CommitInitial, Cursors, Sticky
<1>5. CASE CallReturns(r)
  BY <1>1, <1>5 DEF CallReturns, Goto, Phases, Sticky
<1>6. CASE RenderFails(r)
  BY <1>1, <1>6 DEF RenderFails, Goto, Phases, Cursors, Sticky
<1>7. CASE WorkerPanics(r)
  BY <1>1, <1>7 DEF WorkerPanics, Goto, Phases, Trigger, Sticky
<1> QED BY <1>2, <1>3, <1>4, <1>5, <1>6, <1>7 DEF Executor

(* What every abort does to the publication.                               *)
LEMMA AbortEffect ==
  ASSUME ConnectionTypeOK, NEW r \in Requests, Abort(r)
  PROVE  /\ cursor' \in [Requests -> Cursors]
         /\ \A q \in Requests \ {r} : cursor'[q] = cursor[q]
         /\ cursor'[r] \in {"none", "rolledBack", "dropped"}
         /\ cursor'[r] = "none" <=> cursor[r] = "none"
BY DEF Abort, ConnectionTypeOK, Cursors

(* From the end of the call to the claim of the response.                  *)
LEMMA ClaimingInv ==
  ASSUME IInv, TypeOK', ConnectionInv, NEW r \in Requests,
         \/ CancelledBeforeResponse(r) \/ ResponseEncoded(r) \/ EncodeFails(r)
         \/ BeginTransaction(r) \/ BeginRefused(r) \/ ClaimResponse(r) \/ ClaimLost(r)
  PROVE  ConnectionInv'
<1> USE DEF ConnectionInv, ConnectionTypeOK, NoUnpreparedToken, Placed, Answering, Marking,
            Publishing, Silenced, InTransaction, Readers, outputVars, serveVars, stopVars
<1>1. Sticky /\ marking' \subseteq marking
  BY LeaseSticks, AbortSticks
     DEF CancelledBeforeResponse, ResponseEncoded, EncodeFails, BeginTransaction, BeginRefused,
         ClaimResponse, ClaimLost
<1>2. CASE CancelledBeforeResponse(r)
  BY <1>1, <1>2, AbortEffect DEF CancelledBeforeResponse, Goto, Phases, Unregister, Sticky
<1>3. CASE ResponseEncoded(r)
  BY <1>1, <1>3 DEF ResponseEncoded, Goto, Phases, Sticky
<1>4. CASE EncodeFails(r)
  BY <1>1, <1>4, AbortEffect DEF EncodeFails, Goto, Phases, Unregister, Sticky
<1>5. CASE BeginTransaction(r)
  BY <1>1, <1>5 DEF BeginTransaction, Goto, Phases, Sticky
<1>6. CASE BeginRefused(r)
  BY <1>1, <1>6, AbortEffect DEF BeginRefused, Goto, Phases, Unregister, Sticky
<1>7. CASE ClaimResponse(r)
  BY <1>1, <1>7 DEF ClaimResponse, MayRespond, Goto, Phases, Unregister, Sticky
<1>8. CASE ClaimLost(r)
  BY <1>1, <1>8, AbortEffect DEF ClaimLost, Goto, Phases, Unregister, Sticky
<1> QED BY <1>2, <1>3, <1>4, <1>5, <1>6, <1>7, <1>8

(* The write of a response and the end of the goroutine.                   *)
LEMMA WritingInv ==
  ASSUME IInv, TypeOK', ConnectionInv, NEW r \in Requests,
         EnterWrite(r) \/ WriteRefused(r) \/ WriteStopped(r) \/ Leave(r) \/ Write(r)
  PROVE  ConnectionInv'
<1> USE DEF ConnectionInv, ConnectionTypeOK, NoUnpreparedToken, Placed, Answering, Marking,
            Publishing, Silenced, InTransaction, Readers, requestVars, outputVars, serveVars,
            stopVars
<1>1. Sticky /\ marking' \subseteq marking
  BY LeaseSticks, AbortSticks
     DEF EnterWrite, WriteRefused, WriteStopped, Leave, Write, Prepare, StartOutput, EndOutput,
         WriteFails, OrdinaryWritten, Commit, CommitFails, Expire
<1>2. CASE EnterWrite(r)
  BY <1>1, <1>2 DEF EnterWrite, Goto, Phases, Sticky
<1>3. CASE WriteRefused(r)
  BY <1>1, <1>3, AbortEffect DEF WriteRefused, Goto, Phases, StoreAsyncError, Stop, Sticky
<1>4. CASE WriteStopped(r)
  BY <1>1, <1>4, AbortEffect DEF WriteStopped, Goto, Phases, Sticky
<1>5. CASE Leave(r)
  <2>1. /\ phase[r] \in {"settling", "yielding", "aborting", "failing"}
        /\ phase' = [phase EXCEPT ![r] = "gone"]
        /\ UNCHANGED <<cancelled, responding, toolRequests, cursor, response, sweep,
                      executorClosed, fatal>>
    BY <1>5 DEF Leave, Goto
  <2>2. /\ gateStopped' \in BOOLEAN /\ terminalStopped' \in BOOLEAN
        /\ asyncError' \in {"none", "error", "fatal"}
        /\ gateStopped => gateStopped'
        /\ terminalStopped => terminalStopped'
    BY <1>5 DEF Leave, StoreAsyncError, Stop
  <2>3. CASE state[r] = "rejected"
    <3>1. reader = "refusing" /\ frame = {r} /\ reader' \in {"reading", "closing"} /\ frame' = {}
      BY <1>5, <2>1, <2>3 DEF Leave
    <3> QED BY <1>1, <2>1, <2>2, <3>1 DEF Sticky, Phases
  <2>4. CASE state[r] # "rejected"
    <3>1. UNCHANGED <<reader, frame>>
      BY <1>5, <2>4 DEF Leave
    <3> QED BY <1>1, <2>1, <2>2, <2>4, <3>1 DEF Sticky, Phases
  <2> QED BY <2>3, <2>4
<1>6. CASE Prepare(r)
  BY <1>1, <1>6 DEF Prepare, Cursors, Sticky
<1>7. CASE StartOutput(r) \/ EndOutput(r)
  BY <1>1, <1>7 DEF StartOutput, EndOutput, Sticky
<1>8. CASE WriteFails(r)
  BY <1>1, <1>8, AbortEffect DEF WriteFails, Goto, Phases, StoreAsyncError, Stop, Sticky
<1>9. CASE OrdinaryWritten(r)
  BY <1>1, <1>9 DEF OrdinaryWritten, Goto, Phases, Sticky
<1>10. CASE Commit(r)
  BY <1>1, <1>10 DEF Commit, Goto, Phases, Cursors, Sticky
<1>11. CASE CommitFails(r)
  BY <1>1, <1>11 DEF CommitFails, Goto, Phases, StoreAsyncError, Stop, Sticky
<1>12. CASE Expire(r)
  BY <1>1, <1>12 DEF Expire, Cursors, Sticky
<1> QED BY <1>2, <1>3, <1>4, <1>5, <1>6, <1>7, <1>8, <1>9, <1>10, <1>11, <1>12 DEF Write

(* Every step of the connection preserves the invariant.                   *)
LEMMA NextConnectionInv ==
  IInv /\ TypeOK' /\ ConnectionInv /\ [ConnectionNext]_allVars => ConnectionInv'
<1> SUFFICES ASSUME IInv, TypeOK', ConnectionInv, [ConnectionNext]_allVars
             PROVE  ConnectionInv'
  OBVIOUS
<1>1. CASE FatalTransition \/ UNCHANGED allVars
  BY <1>1, ShutdownInv
<1>2. CASE Serve
  BY <1>2, ShutdownInv, ReaderInv, AdmitInv, CancellingInv DEF Serve
<1>3. ASSUME NEW r \in Requests, Respond(r) PROVE ConnectionInv'
  BY <1>3, ClaimingInv, WritingInv DEF Respond
<1>4. ASSUME NEW r \in Requests, Background(r) PROVE ConnectionInv'
  BY <1>4, BackgroundInv, CancellingInv DEF Background
<1>5. ASSUME NEW r \in Requests, StartBlocks(r) \/ StartReturns(r) \/ Executor(r) \/ Write(r)
      PROVE  ConnectionInv'
  BY <1>5, ExecutionInv, WritingInv
<1> QED BY <1>1, <1>2, <1>3, <1>4, <1>5 DEF ConnectionNext, Served

(* The coordinator's invariant and the connection's hold together in every *)
(* reachable state.                                                        *)
THEOREM ConnectionInvariance == ConnectionSpec => [](IInv /\ ConnectionInv)
<1>1. ConnectionInit => IInv /\ ConnectionInv
  BY InitIInv, InitConnectionInv DEF ConnectionInit
<1>2. IInv /\ ConnectionInv /\ [ConnectionNext]_allVars => (IInv /\ ConnectionInv)'
  <2>1. IInv' => TypeOK'
    BY DEF IInv
  <2> QED BY <2>1, ConnectionSteps, NextIInv, NextConnectionInv
<1> QED BY <1>1, <1>2, PTL DEF ConnectionSpec

-------------------------------------------------------------------------------
(* What follows                                                            *)

(* Every variable of the connection keeps its type.                        *)
THEOREM ConnectionTypeCorrect == ConnectionSpec => []ConnectionTypeOK
<1>1. ConnectionInv => ConnectionTypeOK
  BY DEF ConnectionInv
<1> QED BY <1>1, ConnectionInvariance, PTL

(* claimResponse and toolRequest.cancel exclude one another under          *)
(* request.mu, and nothing is written without the claim: a cancellation    *)
(* that wins silences the call.                                            *)
THEOREM CancelledCallsSilent == ConnectionSpec => []CancelSilences
<1>1. ConnectionInv => CancelSilences
  BY DEF ConnectionInv, ConnectionTypeOK, Placed, Answering, CancelSilences
<1> QED BY <1>1, ConnectionInvariance, PTL

(* Commit comes after the last byte of the response, and the abort of a    *)
(* publication whose response left ends the connection: what the client    *)
(* holds in full is a cursor that works.                                   *)
THEOREM PublicationDelivered == ConnectionSpec => []PublishedIffDelivered
<1>1. ConnectionInv => PublishedIffDelivered
  BY DEF ConnectionInv, Publishing, PublishedIffDelivered
<1> QED BY <1>1, ConnectionInvariance, PTL

(* Prepare makes the lineage visible before the first byte of its token    *)
(* leaves.                                                                 *)
THEOREM TokensPrepared == ConnectionSpec => []NoUnpreparedToken
<1>1. ConnectionInv => NoUnpreparedToken
  BY DEF ConnectionInv
<1> QED BY <1>1, ConnectionInvariance, PTL

(* The client holds a cursor exactly when the registry serves it.          *)
THEOREM CursorsDelivered == ConnectionSpec => []CursorIffDelivered
BY PublicationDelivered, TokensPrepared, PTL DEF CursorIffDelivered

(* RunBeforeFatal holds the transition through a whole write: once the     *)
(* fatal signal is raised no byte leaves.                                  *)
THEOREM OutputFrozen == ConnectionSpec => FrozenAfterFatal
<1>1. ConnectionInv /\ [ConnectionNext]_allVars => [fatal = "done" => UNCHANGED response]_allVars
  <2> SUFFICES ASSUME ConnectionInv, ConnectionNext, fatal = "done" PROVE UNCHANGED response
    OBVIOUS
  <2>1. \A r \in Requests : phase[r] # "writing"
    BY DEF ConnectionInv, Silenced
  <2>2. CASE Serve \/ FatalTransition \/ Served
    BY <2>2 DEF Serve, NextFrame, AdmitToolCall, AcquireOutput, AcquireFails, CancelToolRequest,
                CancelIgnored, CancelDone, ServeReturns, StopAccepting, ServeStops,
                CloseExecutor, FatalTransition, Served, allVars, connectionVars, outputVars
  <2>3. ASSUME NEW r \in Requests, StartBlocks(r) \/ StartReturns(r) \/ Executor(r)
        PROVE  UNCHANGED response
    BY <2>3 DEF StartBlocks, StartReturns, Executor, ExecutorReturnsLease, CommitInitial,
                RenderFails, CallReturns, WorkerPanics, connectionVars, outputVars
  <2>4. ASSUME NEW r \in Requests, Respond(r) PROVE UNCHANGED response
    BY <2>4 DEF Respond, CancelledBeforeResponse, ResponseEncoded, EncodeFails,
                BeginTransaction, BeginRefused, ClaimResponse, ClaimLost, EnterWrite,
                WriteRefused, WriteStopped, Leave, outputVars
  <2>5. ASSUME NEW r \in Requests, Write(r) PROVE UNCHANGED response
    BY <2>1, <2>5 DEF Write, Prepare, StartOutput, EndOutput, WriteFails, OrdinaryWritten, Commit,
                      CommitFails, Expire, outputVars
  <2>6. ASSUME NEW r \in Requests, Background(r) PROVE UNCHANGED response
    BY <2>6 DEF Background, QueueTimer, QueueTimerPanics, QueueTimerCleanup, NoCommit,
                SlotReturned, SweepOne, PanicCleanup, PanicRecorded, connectionVars, outputVars
  <2> QED BY <2>2, <2>3, <2>4, <2>5, <2>6 DEF ConnectionNext
<1> QED BY <1>1, ConnectionInvariance, PTL DEF ConnectionSpec, FrozenAfterFatal

(* stopAndWait returns only when the transactions are over and the gate    *)
(* admits no other: the cursor registry is not closed under a response in  *)
(* the making.                                                             *)
THEOREM ClosedQuietly == ConnectionSpec => []ClosedInSilence
<1>1. ConnectionInv => ClosedInSilence
  BY DEF ConnectionInv, Silenced, ClosedInSilence
<1> QED BY <1>1, ConnectionInvariance, PTL

-------------------------------------------------------------------------------
(* Who still has to settle a call                                          *)

Settled == {"Cancelled", "TimeoutResponseCommitted", "Lingering", "Returned"}

(* Where a sweep and a cancellation can have left a call: once swept, it   *)
(* has been cancelled in its coordinator, or had claimed its response.     *)
Swept ==
  \A r \in Requests :
    /\ r \in sweep \cup cancelled => phase[r] \notin {"none", "admitted", "refused"}
    /\ r \in cancelled => state[r] \in Settled
    /\ r \in responding => phase[r] \in {"claimed", "writing", "settling", "yielding", "gone"}
    /\ phase[r] = "panicked" => fatal # "no"
    /\ phase[r] = "cleaning" => fatal = "done" /\ r \in sweep \cup cancelled

(* A publication that is neither committed nor rolled back has a live      *)
(* lease without a mark, and a goroutine that will decide it.              *)
Settling ==
  \A r \in Requests :
    /\ cursor[r] \in {"Provisional", "Publishing"} =>
         /\ lease[r] = "live" /\ r \notin noCommit
         /\ phase[r] \in {"calling", "called", "ready", "open", "claimed", "writing", "panicked",
                          "cleaning"}
    /\ phase[r] \in {"settling", "yielding", "aborting", "failing"} /\ cursor[r] # "none" =>
         lease[r] # "live"
    /\ phase[r] = "gone" /\ cursor[r] # "none" /\ fatal = "no" => lease[r] = "returned"

(* Who stops a connection in service leaves its error.                     *)
Torn ==
  /\ terminalStopped => asyncError # "none" \/ reader \in {"stopping", "done"}
  /\ \A r \in Requests :
       phase[r] \in {"settling", "gone"} /\ response[r] = "partial" => asyncError # "none"

(* A request the coordinator has refused or let go of stays so, and none   *)
(* is refused once it has been admitted.                                   *)
Kept ==
  \A q \in Requests :
    /\ state[q] \in Settled => state'[q] \in Settled
    /\ state[q] = "rejected" => state'[q] = "rejected"
    /\ state'[q] = "rejected" => state[q] \in {"new", "rejected"}

LEMMA KeepsFates ==
  ASSUME IInv, [Next]_vars
  PROVE  Kept
<1> USE DEF Settled, Kept
<1>1. state \in [Requests -> States]
  BY DEF IInv, TypeOK
<1>2. queue # <<>> => Head(queue) \in Requests /\ state[Head(queue)] = "Queued"
  <2> SUFFICES ASSUME queue # <<>> PROVE Head(queue) \in Queued
    BY DEF Queued
  <2>1. queue \in Seq(Requests) /\ ToSet(queue) = Queued
    BY DEF IInv, TypeOK, Books, SlotAccounting
  <2> QED BY <2>1, HeadTailProperties DEF ToSet
<1>3. ASSUME NEW r \in Requests, Step(r) PROVE Kept
  <2>1. CASE Admit(r)
    BY <1>1, <1>3, <2>1 DEF Admit, AdmitRun, AdmitQueued, AdmitImmediateBudgetExceeded
  <2>2. CASE CancelQueued(r) \/ QueueTimedOut(r) \/ FailWaiting(r) \/ FailGone(r)
    BY <1>1, <2>2 DEF CancelQueued, QueueTimedOut, FailWaiting, FailGone, LeaveQueue
  <2>3. CASE CancelUnstarted(r) \/ FailUnstarted(r) \/ WorkerReturned(r)
    <3>1. state[r] \notin {"new", "rejected"}
      BY <1>1, <2>3 DEF CancelUnstarted, FailUnstarted, WorkerReturned, IInv, PerRequest, Lifecycle
    <3> QED BY <1>1, <1>2, <2>3, <3>1 DEF CancelUnstarted, FailUnstarted, WorkerReturned, FreeSlot
  <2>4. CASE CancelWorking(r) \/ FailWorking(r)
    BY <1>1, <2>4 DEF CancelWorking, FailWorking
  <2>5. CASE \/ Start(r) \/ StartWait(r) \/ Wake(r) \/ MarkNoCommit(r) \/ TimerFires(r)
             \/ StaleTimer(r) \/ TimerPanics(r) \/ ReturnLease(r)
    BY <2>5 DEF Start, StartWait, Wake, MarkNoCommit, TimerFires, StaleTimer, TimerPanics,
                ReturnLease
  <2> QED BY <1>3, <2>1, <2>2, <2>3, <2>4, <2>5 DEF Step, Cancel, FailQueueTimerAfterPanic
<1>4. CASE UNCHANGED vars
  BY <1>4 DEF vars
<1> QED BY <1>3, <1>4 DEF Next, Finished

(* A cancellation that the coordinator accepts lets go of the request.     *)
LEMMA CancelSettles ==
  ASSUME IInv, NEW r \in Requests, ReservationCancel(r)
  PROVE  state'[r] \in Settled
<1> USE DEF Settled
<1>1. state \in [Requests -> States]
  BY DEF IInv, TypeOK
<1>2. queue # <<>> => state[Head(queue)] = "Queued"
  <2> SUFFICES ASSUME queue # <<>> PROVE Head(queue) \in Queued
    BY DEF Queued
  <2>1. queue \in Seq(Requests) /\ ToSet(queue) = Queued
    BY DEF IInv, TypeOK, Books, SlotAccounting
  <2> QED BY <2>1, HeadTailProperties DEF ToSet
<1>3. CASE CancelQueued(r) \/ CancelWorking(r)
  BY <1>1, <1>3 DEF CancelQueued, LeaveQueue, CancelWorking
<1>4. CASE CancelUnstarted(r)
  BY <1>1, <1>2, <1>4 DEF CancelUnstarted, FreeSlot
<1>5. CASE UNCHANGED vars /\ state[r] \in Settled
  BY <1>5 DEF vars
<1> QED BY <1>3, <1>4, <1>5 DEF ReservationCancel, Cancel

(* The steps of a coordinator that neither hand out a lease, nor take one  *)
(* back, nor mark one.                                                     *)
LeasesKept ==
  /\ noCommit' = noCommit
  /\ \A q \in Requests :
       /\ lease'[q] = "live" <=> lease[q] = "live"
       /\ lease[q] = "returned" => lease'[q] = "returned"

LEMMA KeepsLeases ==
  ASSUME IInv, NEW r \in Requests,
         \/ UNCHANGED vars \/ Admit(r) \/ StartWait(r) \/ ReservationCancel(r)
         \/ TimerFires(r) \/ QueueTimedOut(r) \/ StaleTimer(r) \/ TimerPanics(r)
         \/ FailQueueTimerAfterPanic(r) \/ WorkerReturned(r)
  PROVE  LeasesKept
<1>1. lease \in [Requests -> Leases]
  BY DEF IInv, TypeOK
<1>2. CASE WorkerReturned(r)
  BY <1>1, <1>2 DEF WorkerReturned, LeasesKept
<1>3. CASE ~WorkerReturned(r)
  BY <1>3 DEF LeasesKept, vars, leaseVars, Admit, AdmitRun, AdmitQueued,
       AdmitImmediateBudgetExceeded, StartWait, ReservationCancel, Cancel, CancelQueued,
       CancelUnstarted, CancelWorking, TimerFires, QueueTimedOut, StaleTimer, TimerPanics,
       FailQueueTimerAfterPanic, FailWaiting, FailUnstarted, FailWorking, FailGone
<1> QED BY <1>2, <1>3
TrackingInv == ReachableByCancel /\ Swept /\ Settling /\ Torn

LEMMA InitTrackingInv == ConnectionInit => TrackingInv
BY DEF ConnectionInit, Init, TrackingInv, ReachableByCancel, Swept, Settling, Torn

(* The map of the calls and the sweep, step by step.                       *)
LEMMA AdmitTracks ==
  ASSUME IInv, ConnectionInv, ReachableByCancel, Swept, Kept, NEW r \in Requests, AdmitToolCall(r)
  PROVE  (ReachableByCancel /\ Swept)'
<1>1. state[r] = "new" /\ phase[r] = "none"
  BY DEF AdmitToolCall, AdmitRun, AdmitQueued, AdmitImmediateBudgetExceeded
<1>2. \/ phase' = [phase EXCEPT ![r] = "admitted"]
      \/ phase' = [phase EXCEPT ![r] = "refused"]
  BY DEF AdmitToolCall, Goto
<1>3. UNCHANGED <<cancelled, responding, toolRequests, sweep, fatal>>
  BY DEF AdmitToolCall
<1> QED
  BY <1>1, <1>2, <1>3
     DEF ConnectionInv, ConnectionTypeOK, Placed, Answering, ReachableByCancel, Swept, Kept

LEMMA ReaderTracks ==
  ASSUME IInv, ConnectionInv, ReachableByCancel, Swept, Kept, NEW r \in Requests,
         \/ NextFrame(r) \/ AcquireOutput(r) \/ AcquireFails(r) \/ CancelIgnored(r) \/ CancelDone(r)
         \/ ServeReturns \/ StopAccepting \/ ServeStops \/ CloseExecutor \/ FatalTransition
         \/ UNCHANGED allVars
  PROVE  (ReachableByCancel /\ Swept)'
<1> USE DEF ConnectionInv, ConnectionTypeOK, Placed, ReachableByCancel, Swept, Kept, requestVars,
            outputVars, serveVars, stopVars
<1>1. CASE NextFrame(r) \/ CancelIgnored(r) \/ CancelDone(r)
  BY <1>1 DEF NextFrame, CancelIgnored, CancelDone
<1>2. CASE AcquireOutput(r) \/ AcquireFails(r)
  BY <1>2 DEF AcquireOutput, AcquireFails, Goto
<1>3. CASE ServeReturns \/ StopAccepting \/ CloseExecutor \/ FatalTransition \/ UNCHANGED allVars
  BY <1>3 DEF ServeReturns, StopAccepting, CloseExecutor, FatalTransition, allVars, connectionVars
<1>4. CASE ServeStops
  BY <1>4 DEF ServeStops
<1> QED BY <1>1, <1>2, <1>3, <1>4

LEMMA CancelTracks ==
  ASSUME IInv, ConnectionInv, ReachableByCancel, Swept, Kept, NEW r \in Requests,
         CancelToolRequest(r) \/ SweepOne(r)
  PROVE  (ReachableByCancel /\ Swept)'
<1> USE DEF ConnectionInv, ConnectionTypeOK, Placed, ReachableByCancel, Swept, Kept
<1>1. CASE CancelRequest(r)
  <2>1. state'[r] \in Settled
    BY <1>1, CancelSettles DEF CancelRequest
  <2>2. UNCHANGED <<phase, responding, fatal>> /\ sweep' \in {sweep, sweep \ {r}}
    BY DEF CancelToolRequest, SweepOne
  <2>3. phase[r] \notin {"none", "admitted", "refused"}
    BY DEF CancelToolRequest, SweepOne
  <2>4. cancelled' = cancelled \cup {r} /\ toolRequests' = toolRequests \ {r}
    BY <1>1 DEF CancelRequest
  <2> QED BY <2>1, <2>2, <2>3, <2>4
<1>2. CASE SweepOne(r) /\ ~Cancellable(r) /\ UNCHANGED <<vars, cancelled, toolRequests>>
  BY <1>2 DEF SweepOne, Cancellable
<1> QED BY <1>1, <1>2 DEF CancelToolRequest, SweepOne

LEMMA BackgroundTracks ==
  ASSUME IInv, ConnectionInv, ReachableByCancel, Swept, Kept, NEW r \in Requests,
         \/ QueueTimer(r) \/ QueueTimerPanics(r) \/ QueueTimerCleanup(r)
         \/ NoCommit(r) \/ SlotReturned(r) \/ PanicCleanup(r) \/ PanicRecorded(r)
  PROVE  (ReachableByCancel /\ Swept)'
<1> USE DEF ConnectionInv, ConnectionTypeOK, Placed, ReachableByCancel, Swept, Kept, requestVars,
            outputVars, serveVars, stopVars
<1>1. CASE QueueTimer(r) \/ QueueTimerCleanup(r) \/ SlotReturned(r) \/ NoCommit(r)
  BY <1>1 DEF QueueTimer, QueueTimerCleanup, SlotReturned, NoCommit, connectionVars
<1>2. CASE QueueTimerPanics(r)
  BY <1>2 DEF QueueTimerPanics, Trigger
<1>3. CASE PanicCleanup(r)
  BY <1>3 DEF PanicCleanup, Goto
<1>4. CASE PanicRecorded(r)
  BY <1>4 DEF PanicRecorded, Goto, Unregister
<1> QED BY <1>1, <1>2, <1>3, <1>4

LEMMA CallTracks ==
  ASSUME IInv, ConnectionInv, ReachableByCancel, Swept, Kept, NEW r \in Requests,
         StartBlocks(r) \/ StartReturns(r) \/ Executor(r) \/ Respond(r) \/ Write(r)
  PROVE  (ReachableByCancel /\ Swept)'
<1> USE DEF ConnectionInv, ConnectionTypeOK, Placed, Answering, ReachableByCancel, Swept, Kept,
            requestVars, outputVars, serveVars, stopVars
<1>1. CASE StartBlocks(r) \/ ExecutorReturnsLease(r) \/ CommitInitial(r)
  BY <1>1 DEF StartBlocks, ExecutorReturnsLease, CommitInitial, connectionVars
<1>2. CASE StartReturns(r)
  BY <1>2 DEF StartReturns, Goto, Unregister
<1>3. CASE CallReturns(r) \/ RenderFails(r)
  BY <1>3 DEF CallReturns, RenderFails, Goto
<1>4. CASE WorkerPanics(r)
  BY <1>4 DEF WorkerPanics, Goto, Trigger
<1>5. CASE CancelledBeforeResponse(r) \/ EncodeFails(r) \/ BeginRefused(r)
  BY <1>5 DEF CancelledBeforeResponse, EncodeFails, BeginRefused, Goto, Unregister
<1>6. CASE ResponseEncoded(r) \/ BeginTransaction(r)
  BY <1>6 DEF ResponseEncoded, BeginTransaction, Goto
<1>7. CASE ClaimResponse(r) \/ ClaimLost(r)
  BY <1>7 DEF ClaimResponse, ClaimLost, Goto, Unregister
<1>8. CASE EnterWrite(r) \/ WriteRefused(r) \/ WriteStopped(r)
  BY <1>8 DEF EnterWrite, WriteRefused, WriteStopped, Goto
<1>9. CASE Leave(r)
  BY <1>9 DEF Leave, Goto
<1>10. CASE Prepare(r) \/ StartOutput(r) \/ EndOutput(r) \/ Expire(r)
  BY <1>10 DEF Prepare, StartOutput, EndOutput, Expire
<1>11. CASE WriteFails(r) \/ OrdinaryWritten(r) \/ Commit(r) \/ CommitFails(r)
  BY <1>11 DEF WriteFails, OrdinaryWritten, Commit, CommitFails, Goto
<1> QED BY <1>1, <1>2, <1>3, <1>4, <1>5, <1>6, <1>7, <1>8, <1>9, <1>10, <1>11
        DEF Executor, Respond, Write
(* The publications and their leases.  A step that hands out no lease, or  *)
(* none that matters, and does not touch a publication settles nothing.    *)
LEMMA QuietSettles ==
  ASSUME ConnectionTypeOK, Settling, LeasesKept, cursor' = cursor,
         phase' = phase \/ (\E r \in Requests : phase[r] \in {"none", "admitted"} /\ cursor[r] = "none"
                                                /\ \E p \in Phases : Goto(r, p)),
         fatal = "no" \/ fatal' # "no"
  PROVE  Settling'
BY DEF ConnectionTypeOK, Settling, LeasesKept, Goto

LEMMA ReaderSettles ==
  ASSUME IInv, ConnectionInv, Settling, NEW r \in Requests,
         \/ NextFrame(r) \/ AdmitToolCall(r) \/ AcquireOutput(r) \/ AcquireFails(r)
         \/ CancelToolRequest(r) \/ SweepOne(r) \/ CancelIgnored(r) \/ CancelDone(r)
         \/ ServeReturns \/ StopAccepting \/ ServeStops \/ FatalTransition \/ UNCHANGED allVars
         \/ QueueTimer(r) \/ QueueTimerPanics(r) \/ QueueTimerCleanup(r) \/ SlotReturned(r)
         \/ StartBlocks(r)
  PROVE  Settling'
<1>1. LeasesKept
  BY KeepsLeases DEF NextFrame, AdmitToolCall, Admit, AcquireOutput, AcquireFails, CancelToolRequest,
       CancelRequest, SweepOne, CancelIgnored, CancelDone, ServeReturns, StopAccepting, ServeStops,
       FatalTransition, allVars, QueueTimer, QueueTimerPanics, QueueTimerCleanup, SlotReturned,
       StartBlocks
<1>2. cursor' = cursor /\ (fatal = "no" \/ fatal' # "no")
  BY DEF NextFrame, AdmitToolCall, AcquireOutput, AcquireFails, CancelToolRequest, SweepOne,
       CancelIgnored, CancelDone, ServeReturns, StopAccepting, ServeStops, FatalTransition, allVars,
       QueueTimer, QueueTimerPanics, QueueTimerCleanup, SlotReturned, StartBlocks, Trigger,
       outputVars, connectionVars
<1>3. CASE AdmitToolCall(r) \/ AcquireOutput(r) \/ AcquireFails(r)
  <2>1. phase[r] \in {"none", "admitted"}
    BY <1>3 DEF AdmitToolCall, AcquireOutput, AcquireFails
  <2>2. cursor[r] = "none"
    BY <2>1 DEF ConnectionInv, Placed, Publishing
  <2>3. \E p \in Phases : Goto(r, p)
    BY <1>3 DEF AdmitToolCall, AcquireOutput, AcquireFails, Phases
  <2> QED BY <1>1, <1>2, <2>1, <2>2, <2>3, QuietSettles DEF ConnectionInv
<1>4. CASE ~(AdmitToolCall(r) \/ AcquireOutput(r) \/ AcquireFails(r))
  <2>1. phase' = phase
    BY <1>4 DEF NextFrame, CancelToolRequest, SweepOne, CancelIgnored, CancelDone, ServeReturns,
         StopAccepting, ServeStops, FatalTransition, allVars, QueueTimer, QueueTimerPanics,
         QueueTimerCleanup, SlotReturned, StartBlocks, requestVars, connectionVars
  <2> QED BY <1>1, <1>2, <2>1, QuietSettles DEF ConnectionInv
<1> QED BY <1>3, <1>4

(* A goroutine that only moves on, with its publication and its lease as   *)
(* they are.                                                               *)
LEMMA MovesSettle ==
  ASSUME IInv, ConnectionInv, Swept, Settling, NEW r \in Requests,
         \/ CallReturns(r) \/ WorkerPanics(r) \/ ResponseEncoded(r) \/ BeginTransaction(r)
         \/ ClaimResponse(r) \/ EnterWrite(r) \/ StartOutput(r) \/ EndOutput(r)
         \/ OrdinaryWritten(r) \/ Leave(r) \/ PanicCleanup(r)
  PROVE  Settling'
<1>1. lease' = lease /\ noCommit' = noCommit /\ cursor' = cursor
  BY DEF CallReturns, WorkerPanics, ResponseEncoded, BeginTransaction, ClaimResponse, EnterWrite,
         StartOutput, EndOutput, OrdinaryWritten, Leave, PanicCleanup, vars, leaseVars, outputVars
<1>2. fatal = "no" \/ fatal' # "no"
  BY DEF CallReturns, WorkerPanics, ResponseEncoded, BeginTransaction, ClaimResponse, EnterWrite,
         StartOutput, EndOutput, OrdinaryWritten, Leave, PanicCleanup, Trigger
<1> USE DEF ConnectionInv, ConnectionTypeOK, Settling
<1>3. CASE CallReturns(r) \/ WorkerPanics(r)
  BY <1>1, <1>2, <1>3 DEF CallReturns, WorkerPanics, Goto
<1>4. CASE ResponseEncoded(r) \/ PanicCleanup(r)
  BY <1>1, <1>2, <1>4 DEF ResponseEncoded, PanicCleanup, Goto
<1>5. CASE BeginTransaction(r) \/ ClaimResponse(r) \/ EnterWrite(r)
  BY <1>1, <1>2, <1>5 DEF BeginTransaction, ClaimResponse, EnterWrite, Goto
<1>6. CASE StartOutput(r) \/ EndOutput(r)
  BY <1>1, <1>2, <1>6 DEF StartOutput, EndOutput, requestVars
<1>7. CASE OrdinaryWritten(r)
  BY <1>1, <1>2, <1>7 DEF OrdinaryWritten, Goto
<1>8. CASE Leave(r)
  <2>1. cursor[r] # "none" => lease[r] = "returned"
    <3> SUFFICES ASSUME cursor[r] # "none" PROVE lease[r] = "returned"
      OBVIOUS
    <3>1. start[r] = "run"
      BY DEF Publishing
    <3>2. lease[r] # "none"
      BY <3>1 DEF IInv, TypeOK, States, PerRequest, Lifecycle
    <3>3. lease[r] \notin {"live", "returning"}
      BY <1>8 DEF Leave
    <3> QED BY <3>2, <3>3 DEF IInv, TypeOK, Leases
  <2> QED BY <1>1, <1>2, <1>8, <2>1 DEF Leave, Goto
<1> QED BY <1>3, <1>4, <1>5, <1>6, <1>7, <1>8

(* What an abort does to the lease.                                        *)
LEMMA AbortLease ==
  ASSUME IInv, ConnectionInv, NEW r \in Requests, Abort(r)
  PROVE  /\ noCommit' = noCommit
         /\ \A q \in Requests \ {r} : lease'[q] = lease[q]
         /\ lease[r] = "returned" => lease'[r] = "returned"
         /\ cursor'[r] # "none" => lease'[r] # "live"
<1>1. lease \in [Requests -> Leases]
  BY DEF IInv, TypeOK
<1> QED BY <1>1, AbortEffect DEF ConnectionInv, Abort, ReturnLease, vars, leaseVars

LEMMA AbortsSettle ==
  ASSUME IInv, ConnectionInv, Settling, NEW r \in Requests,
         \/ CancelledBeforeResponse(r) \/ EncodeFails(r) \/ BeginRefused(r) \/ ClaimLost(r)
         \/ WriteRefused(r) \/ WriteStopped(r) \/ WriteFails(r)
  PROVE  Settling'
<1>1. /\ Abort(r) /\ fatal' = fatal
      /\ \E p \in {"settling", "yielding", "aborting", "failing"} : Goto(r, p)
  BY DEF CancelledBeforeResponse, EncodeFails, BeginRefused, ClaimLost, WriteRefused, WriteStopped,
         WriteFails
<1> QED BY <1>1, AbortEffect, AbortLease DEF ConnectionInv, ConnectionTypeOK, Settling, Goto

(* The steps that change what a publication is, or whose lease is whose.   *)
LEMMA PublicationSettles ==
  ASSUME IInv, ConnectionInv, Settling, NEW r \in Requests,
         \/ StartReturns(r) \/ ExecutorReturnsLease(r) \/ CommitInitial(r) \/ RenderFails(r)
         \/ Prepare(r) \/ Commit(r) \/ CommitFails(r) \/ Expire(r) \/ NoCommit(r) \/ CloseExecutor
  PROVE  Settling'
<1>1. lease \in [Requests -> Leases]
  BY DEF IInv, TypeOK
<1> USE DEF ConnectionInv, ConnectionTypeOK, Settling, requestVars, serveVars, stopVars, connectionVars
<1>2. CASE StartReturns(r)
  <2>1. cursor[r] = "none"
    BY <1>2 DEF StartReturns, Publishing, Start, Wake
  <2>2. noCommit' = noCommit /\ \A q \in Requests \ {r} : lease'[q] = lease[q]
    BY <1>1, <1>2 DEF StartReturns, Start, Wake, StartOutcome
  <2> QED BY <1>2, <2>1, <2>2 DEF StartReturns, Goto, outputVars
<1>3. CASE ExecutorReturnsLease(r)
  BY <1>1, <1>3 DEF ExecutorReturnsLease, ReturnLease, outputVars
<1>4. CASE CommitInitial(r)
  BY <1>1, <1>4 DEF CommitInitial, vars, leaseVars
<1>5. CASE RenderFails(r)
  BY <1>1, <1>5 DEF RenderFails, ReturnLease, Goto
<1>6. CASE Prepare(r) \/ Expire(r)
  BY <1>1, <1>6 DEF Prepare, Expire, vars, leaseVars
<1>7. CASE Commit(r) \/ CommitFails(r)
  <2>1. /\ noCommit' = noCommit /\ \A q \in Requests \ {r} : lease'[q] = lease[q]
        /\ lease'[r] # "live"
    BY <1>1, <1>7 DEF Commit, CommitFails, ReturnLease, vars, leaseVars
  <2> QED BY <1>7, <2>1 DEF Commit, CommitFails, Goto, outputVars
<1>8. CASE NoCommit(r)
  BY <1>1, <1>8 DEF NoCommit, MarkNoCommit
<1>9. CASE CloseExecutor
  BY <1>1, <1>9 DEF CloseExecutor, vars, leaseVars
<1> QED BY <1>2, <1>3, <1>4, <1>5, <1>6, <1>7, <1>8, <1>9

(* The goroutine of a call that panicked ends when every call has been     *)
(* swept: its own publication has been rolled back under its mark.         *)
LEMMA PanicSettles ==
  ASSUME IInv, ConnectionInv, Swept, Settling, NEW r \in Requests, PanicRecorded(r)
  PROVE  Settling'
<1>1. r \in cancelled /\ r \notin marking /\ fatal = "done"
  BY DEF PanicRecorded, Swept
<1>2. cursor[r] \notin {"Provisional", "Publishing"}
  <2> SUFFICES ASSUME cursor[r] \in {"Provisional", "Publishing"} PROVE FALSE
    OBVIOUS
  <2>1. lease[r] = "live" /\ r \notin noCommit
    BY DEF Settling
  <2>2. state[r] = "Lingering"
    BY <1>1, <2>1 DEF Swept, Settled, IInv, PerRequest, Lifecycle
  <2> QED BY <1>1, <2>1, <2>2 DEF IInv, PerRequest, CancelledWorkMarked
<1> QED BY <1>1, <1>2 DEF PanicRecorded, Goto, ConnectionInv, ConnectionTypeOK, Settling, vars,
                          leaseVars, outputVars
(* The errors: a writer that is stopped finds the error of who stopped it, *)
(* for the shutdown stops nobody who writes.                               *)
LEMMA TornSteps ==
  ASSUME ConnectionInv, Torn, [ConnectionNext]_allVars
  PROVE  Torn'
<1> USE DEF ConnectionInv, ConnectionTypeOK, Silenced, InTransaction, Torn, stopVars, outputVars,
            requestVars, serveVars, connectionVars, Stop, StoreAsyncError
<1>1. CASE FatalTransition \/ Served \/ UNCHANGED allVars
  BY <1>1 DEF FatalTransition, Served, allVars
<1>2. CASE Serve
  <2>1. ASSUME NEW r \in Requests,
               \/ NextFrame(r) \/ AcquireOutput(r) \/ AdmitToolCall(r) \/ CancelIgnored(r)
               \/ CancelToolRequest(r) \/ CancelDone(r)
        PROVE  Torn'
    <3>1. /\ UNCHANGED <<response, terminalStopped, asyncError>>
          /\ reader \notin {"stopping", "done"}
          /\ \A q \in Requests : phase'[q] \in {"settling", "gone"} => phase[q] = phase'[q]
      BY <2>1 DEF NextFrame, AcquireOutput, AdmitToolCall, CancelIgnored, CancelToolRequest, CancelDone, Goto
    <3> QED BY <3>1
  <2>2. ASSUME NEW r \in Requests, AcquireFails(r) PROVE Torn'
    BY <2>2 DEF AcquireFails, Goto, Answering
  <2>3. CASE ServeReturns \/ StopAccepting \/ CloseExecutor
    BY <2>3 DEF ServeReturns, StopAccepting, CloseExecutor
  <2>4. CASE ServeStops
    BY <2>4 DEF ServeStops
  <2> QED BY <1>2, <2>1, <2>2, <2>3, <2>4 DEF Serve
<1>3. ASSUME NEW r \in Requests, StartBlocks(r) \/ StartReturns(r) \/ Executor(r) PROVE Torn'
  <2>1. UNCHANGED <<response, terminalStopped, asyncError, reader>>
    BY <1>3 DEF StartBlocks, StartReturns, Executor, ExecutorReturnsLease, CommitInitial, RenderFails,
                CallReturns, WorkerPanics
  <2>2. phase[r] \in {"none", "writing", "settling", "gone"} \/ response[r] = "none"
    BY DEF Answering
  <2>3. \A q \in Requests : phase'[q] \in {"settling", "gone"} =>
          phase[q] = phase'[q] \/ response[q] = "none"
    BY <1>3, <2>2 DEF StartBlocks, StartReturns, Executor, ExecutorReturnsLease, CommitInitial,
                      RenderFails, CallReturns, WorkerPanics, Goto
  <2> QED BY <2>1, <2>3
<1>4. ASSUME NEW r \in Requests, Respond(r) PROVE Torn'
  <2>1. CASE \/ CancelledBeforeResponse(r) \/ ResponseEncoded(r) \/ EncodeFails(r)
             \/ BeginTransaction(r) \/ BeginRefused(r) \/ ClaimResponse(r) \/ ClaimLost(r)
             \/ EnterWrite(r)
    BY <2>1 DEF CancelledBeforeResponse, ResponseEncoded, EncodeFails, BeginTransaction, BeginRefused,
                ClaimResponse, ClaimLost, EnterWrite, Goto
  <2>2. CASE WriteRefused(r)
    BY <2>2 DEF WriteRefused, Goto
  <2>3. CASE WriteStopped(r)
    BY <2>3 DEF WriteStopped, Goto
  <2>4. CASE Leave(r)
    <3>1. response[r] = "none" \/ phase[r] \in {"writing", "settling", "gone"}
      BY DEF Answering
    <3>2. phase' = [phase EXCEPT ![r] = "gone"] /\ response' = response
          /\ phase[r] \in {"settling", "yielding", "aborting", "failing"}
      BY <2>4 DEF Leave, Goto
    <3>3. \/ UNCHANGED <<terminalStopped, asyncError>>
          \/ asyncError' # "none"
      BY <2>4 DEF Leave
    <3>4. reader' = reader \/ reader \notin {"stopping", "done"}
      BY <2>4 DEF Leave, Placed
    <3>5. asyncError # "none" => asyncError' # "none"
      BY <2>4 DEF Leave
    <3> QED BY <3>1, <3>2, <3>3, <3>4, <3>5
  <2> QED BY <1>4, <2>1, <2>2, <2>3, <2>4 DEF Respond
<1>5. ASSUME NEW r \in Requests, Write(r) PROVE Torn'
  BY <1>5 DEF Write, Prepare, StartOutput, EndOutput, WriteFails, OrdinaryWritten, Commit, CommitFails,
              Expire, Goto
<1>6. ASSUME NEW r \in Requests, Background(r) PROVE Torn'
  <2>1. CASE \/ QueueTimer(r) \/ QueueTimerPanics(r) \/ QueueTimerCleanup(r) \/ NoCommit(r)
             \/ SlotReturned(r) \/ SweepOne(r)
    BY <2>1 DEF QueueTimer, QueueTimerPanics, QueueTimerCleanup, NoCommit, SlotReturned, SweepOne
  <2>2. CASE PanicCleanup(r) \/ PanicRecorded(r)
    BY <2>2 DEF PanicCleanup, PanicRecorded, Goto
  <2> QED BY <1>6, <2>1, <2>2 DEF Background
<1> QED BY <1>1, <1>2, <1>3, <1>4, <1>5, <1>6 DEF ConnectionNext

(* Every step of the connection preserves what is tracked.                 *)
LEMMA NextTrackingInv ==
  IInv /\ ConnectionInv /\ TrackingInv /\ [ConnectionNext]_allVars => TrackingInv'
<1> SUFFICES ASSUME IInv, ConnectionInv, ReachableByCancel, Swept, Settling, Torn,
                    [ConnectionNext]_allVars
             PROVE  (ReachableByCancel /\ Swept)' /\ Settling' /\ Torn'
  BY DEF TrackingInv
<1>1. Torn'
  BY TornSteps
<1>2. Kept
  BY ConnectionSteps, KeepsFates
<1>3. (ReachableByCancel /\ Swept)' /\ Settling'
  <2>1. ASSUME NEW r \in Requests,
               \/ NextFrame(r) \/ AdmitToolCall(r) \/ AcquireOutput(r) \/ AcquireFails(r)
               \/ CancelToolRequest(r) \/ CancelIgnored(r) \/ CancelDone(r)
        PROVE  (ReachableByCancel /\ Swept)' /\ Settling'
    BY <1>2, <2>1, AdmitTracks, ReaderTracks, CancelTracks, ReaderSettles
  <2>2. ASSUME NEW r \in Requests,
               \/ StartBlocks(r) \/ StartReturns(r) \/ Executor(r) \/ Respond(r) \/ Write(r)
        PROVE  (ReachableByCancel /\ Swept)' /\ Settling'
    <3>1. (ReachableByCancel /\ Swept)'
      BY <1>2, <2>2, CallTracks
    <3> QED BY <2>2, <3>1, ReaderSettles, MovesSettle, AbortsSettle, PublicationSettles
            DEF Executor, Respond, Write
  <2>3. ASSUME NEW r \in Requests, Background(r)
        PROVE  (ReachableByCancel /\ Swept)' /\ Settling'
    BY <1>2, <2>3, BackgroundTracks, CancelTracks, ReaderSettles, MovesSettle, PublicationSettles,
       PanicSettles DEF Background
  <2>4. CASE ServeReturns \/ StopAccepting \/ ServeStops \/ CloseExecutor \/ FatalTransition
             \/ UNCHANGED allVars
    <3>1. CASE Requests = {}
      BY <3>1 DEF ReachableByCancel, Swept, Settling
    <3>2. ASSUME NEW r \in Requests PROVE (ReachableByCancel /\ Swept)' /\ Settling'
      BY <1>2, <2>4, ReaderTracks, ReaderSettles, PublicationSettles
    <3> QED BY <3>1, <3>2
  <2> QED BY <2>1, <2>2, <2>3, <2>4 DEF ConnectionNext, Serve, Served
<1> QED BY <1>1, <1>3

(* What is tracked holds in every reachable state.                         *)
THEOREM TrackingInvariance == ConnectionSpec => []TrackingInv
BY InitTrackingInv, NextTrackingInv, ConnectionInvariance, PTL DEF ConnectionSpec

(* registerToolRequest and the three places that unregister a call keep    *)
(* the map exact, and a goroutine ends only after its publication and its  *)
(* lease: aborted, committed, or rolled back under the mark of the sweep.  *)
THEOREM CallsAreTracked == ConnectionSpec => []CallsTracked
<1>1. ConnectionInv /\ TrackingInv => CallsTracked
  BY DEF ConnectionInv, ConnectionTypeOK, TrackingInv, Settling, CallsTracked, PublicationSettled,
         ReachableByCancel
<1> QED BY <1>1, ConnectionInvariance, TrackingInvariance, PTL

(* A response is cut off only where an error is stored; the shutdown waits *)
(* for the transactions instead of cutting them off.                       *)
THEOREM OnlyFailuresTear == ConnectionSpec => []TornOnlyByFailure
<1>1. TrackingInv => TornOnlyByFailure
  BY DEF TrackingInv, Torn, TornOnlyByFailure
<1> QED BY <1>1, TrackingInvariance, PTL
===============================================================================
