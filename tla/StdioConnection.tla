--------------------------- MODULE StdioConnection ---------------------------
(***************************************************************************)
(* One stdio connection serving tool calls (internal/mcpstdio: connection, *)
(* concurrency, tool_requests; internal/runtime/fatal; the publication of  *)
(* internal/cursor), composed with its admission Coordinator.              *)
(*                                                                         *)
(* The actors are serve (the reader: it admits and cancels calls, and      *)
(* shuts the connection down), one goroutine per admitted call, the queue  *)
(* timers, and the executor behind CallExecutor, which is represented by   *)
(* what a call may do: return its lease, commit a provisional cursor       *)
(* lineage that takes the lease over, panic, return.  An action is one     *)
(* critical section (request.mu, outputMu with the fatal transition, the   *)
(* gate, the registry) or one blocking step.                               *)
(*                                                                         *)
(* Locks are not variables: outputMu and the fatal transition are held by  *)
(* the request in Writers, the gate counts the requests InTransaction,     *)
(* toolOutputs the requests HoldsOutput, and request.mu is held by a       *)
(* canceller while the request is in marking.                              *)
(***************************************************************************)
EXTENDS Coordinator

VARIABLES
  phase,           \* where the goroutine of each request stands
  cancelled,       \* the requests with toolRequest.cancelled
  responding,      \* the requests with toolRequest.responding
  toolRequests,    \* the keys of stdioConnection.toolRequests
  cursor,          \* the lineage behind the call's publication; "none" when
                   \* the call has no publication
  response,        \* the bytes of each request's response that left
  reader,          \* what serve is doing
  frame,           \* the request the frame in hand is about: {} or {r}
  sweep,           \* the requests cancelAllToolRequests has still to cancel
  gateStopped,     \* responseTransactionGate.stopped
  terminalStopped, \* stdioConnection.terminalStopped
  fatal,           \* FatalSignal: "no", "triggering", "done"
  asyncError,      \* stdioConnection.asyncError
  executorClosed   \* executor.Close() has returned

requestVars == <<phase, cancelled, responding, toolRequests>>
outputVars == <<cursor, response>>
serveVars == <<reader, frame, sweep, executorClosed>>
stopVars == <<gateStopped, terminalStopped, asyncError>>
connectionVars == <<requestVars, outputVars, serveVars, stopVars, fatal>>
allVars == <<vars, connectionVars>>

Phases == {"none", "admitted", "refused", "launched", "calling", "called", "ready",
           "timedOut", "open", "claimed", "writing", "settling", "yielding",
           "aborting", "failing", "panicked", "cleaning", "gone"}
Cursors == {"none", "Provisional", "Publishing", "Published", "rolledBack", "dropped"}
Readers == {"reading", "handling", "admitting", "refusing", "cancelling",
            "closing", "waiting", "stopping", "done"}

Writers == {r \in Requests : phase[r] \in {"writing", "settling"}}
InTransaction ==
  {r \in Requests : phase[r] \in {"open", "claimed", "writing", "settling", "yielding"}}
HoldsOutput ==
  {r \in Requests : /\ state[r] # "rejected"
                    /\ phase[r] \notin {"none", "admitted", "panicked", "cleaning", "gone"}}
MuFree(r) == r \notin marking \cap cancelled

ConnectionInit ==
  /\ Init
  /\ phase = [r \in Requests |-> "none"]
  /\ cancelled = {} /\ responding = {} /\ toolRequests = {}
  /\ cursor = [r \in Requests |-> "none"]
  /\ response = [r \in Requests |-> "none"]
  /\ reader = "reading" /\ frame = {} /\ sweep = {}
  /\ gateStopped = FALSE /\ terminalStopped = FALSE
  /\ fatal = "no" /\ asyncError = "none"
  /\ executorClosed = FALSE

Goto(r, p) == phase' = [phase EXCEPT ![r] = p]

-------------------------------------------------------------------------------
(* Failures of the whole connection                                        *)

(* stop and markStopped: no new transaction, then no new write.            *)
Stop == gateStopped' = TRUE /\ terminalStopped' = TRUE

(* storeAsyncError: the first error stays, a fatal one replaces it.        *)
StoreAsyncError(e) ==
  asyncError' = IF e = "fatal" \/ asyncError = "none" THEN e ELSE asyncError

-------------------------------------------------------------------------------
(* The reader                                                              *)

NextFrame(r) ==
  /\ reader = "reading" /\ fatal # "done"
  /\ reader' = "handling" /\ frame' = {r}
  /\ UNCHANGED <<vars, requestVars, outputVars, sweep, executorClosed, stopVars, fatal>>

AdmitToolCall(r) ==
  /\ reader = "handling" /\ r \in frame /\ phase[r] = "none"
  /\ \/ /\ AdmitRun(r) \/ AdmitQueued(r)
        /\ Goto(r, "admitted") /\ reader' = "admitting"
     \/ /\ AdmitImmediateBudgetExceeded(r)
        /\ Goto(r, "refused") /\ reader' = "refusing"
  /\ UNCHANGED <<cancelled, responding, toolRequests, outputVars, frame, sweep,
                 executorClosed, stopVars, fatal>>

(* toolOutputs.acquire, registerToolRequest and launch.                    *)
AcquireOutput(r) ==
  /\ reader = "admitting" /\ phase[r] = "admitted"
  /\ Cardinality(HoldsOutput) < MaxConcurrent + QueueMax
  /\ Goto(r, "launched")
  /\ toolRequests' = toolRequests \cup {r}
  /\ reader' = "reading" /\ frame' = {}
  /\ UNCHANGED <<vars, cancelled, responding, outputVars, sweep, executorClosed, stopVars, fatal>>

(* reservation.Cancel(): Coordinator.cancel, which does nothing to a       *)
(* request that is no longer queued or running.                            *)
ReservationCancel(r) ==
  \/ Cancel(r)
  \/ /\ state[r] \in {"Cancelled", "TimeoutResponseCommitted", "Lingering", "Returned"}
     /\ UNCHANGED vars

(* The context of the connection, its terminal or its fatal signal ends    *)
(* the wait for a place: the call is dropped before it is registered.      *)
AcquireFails(r) ==
  /\ reader = "admitting" /\ phase[r] = "admitted"
  /\ ReservationCancel(r)
  /\ Goto(r, "gone")
  /\ frame' = {}
  /\ reader' \in IF terminalStopped THEN {"reading", "closing"} ELSE {"closing"}
  /\ UNCHANGED <<cancelled, responding, toolRequests, outputVars, sweep, executorClosed,
                 stopVars, fatal>>

Cancellable(r) == r \notin cancelled \cup responding

(* toolRequest.cancel when it wins, then removeToolRequest.                *)
CancelRequest(r) ==
  /\ Cancellable(r)
  /\ ReservationCancel(r)
  /\ cancelled' = cancelled \cup {r}
  /\ toolRequests' = toolRequests \ {r}

(* notifications/cancelled for a registered call.  The reader holds        *)
(* request.mu until the lease is marked.                                   *)
CancelToolRequest(r) ==
  /\ reader = "handling" /\ r \in frame \cap toolRequests
  /\ CancelRequest(r)
  /\ reader' = "cancelling"
  /\ UNCHANGED <<phase, responding, outputVars, frame, sweep, executorClosed, stopVars, fatal>>

CancelIgnored(r) ==
  /\ reader = "handling" /\ r \in frame
  /\ r \in toolRequests => ~Cancellable(r) /\ MuFree(r)
  /\ reader' = "reading" /\ frame' = {}
  /\ UNCHANGED <<vars, requestVars, outputVars, sweep, executorClosed, stopVars, fatal>>

CancelDone(r) ==
  /\ reader = "cancelling" /\ r \in frame /\ MuFree(r)
  /\ reader' = "reading" /\ frame' = {}
  /\ UNCHANGED <<vars, requestVars, outputVars, sweep, executorClosed, stopVars, fatal>>

-------------------------------------------------------------------------------
(* serve returns and its deferred function shuts the connection down       *)

(* End of input, a cancelled context, a read error, a fatal or terminal    *)
(* signal.  Calls still under way are not waited for.                      *)
ServeReturns ==
  /\ reader = "reading"
  /\ reader' = "closing"
  /\ UNCHANGED <<vars, requestVars, outputVars, frame, sweep, executorClosed, stopVars, fatal>>

StopAccepting ==
  /\ reader = "closing"
  /\ reader' = "waiting" /\ gateStopped' = TRUE
  /\ UNCHANGED <<vars, requestVars, outputVars, frame, sweep, executorClosed, terminalStopped,
                 asyncError, fatal>>

(* Mutated form: the open transactions are not waited for.                 *)
ServeStops_NoWait ==
  /\ reader = "waiting"
  /\ Stop
  /\ sweep' = sweep \cup toolRequests
  /\ reader' = "stopping"
  /\ UNCHANGED <<vars, requestVars, outputVars, frame, executorClosed, asyncError, fatal>>

(* The gate's WaitGroup is at zero: stop, then closeExecutor begins with   *)
(* cancelAllToolRequests.                                                  *)
ServeStops ==
  /\ reader = "waiting" /\ InTransaction = {}
  /\ Stop
  /\ sweep' = sweep \cup toolRequests
  /\ reader' = "stopping"
  /\ UNCHANGED <<vars, requestVars, outputVars, frame, executorClosed, asyncError, fatal>>

CloseExecutor ==
  /\ reader = "stopping" /\ sweep = {} /\ marking \cap cancelled = {}
  /\ executorClosed' = TRUE
  /\ cursor' = [r \in Requests |->
                  IF cursor[r] \in {"Provisional", "Publishing", "Published"}
                  THEN "dropped" ELSE cursor[r]]
  /\ reader' = "done"
  /\ UNCHANGED <<vars, requestVars, response, frame, sweep, stopVars, fatal>>

(* One request of a cancelAllToolRequests, by serve or by the cleanup of a *)
(* panic.                                                                  *)
SweepOne(r) ==
  /\ r \in sweep
  /\ sweep' = sweep \ {r}
  /\ \/ CancelRequest(r)
     \/ ~Cancellable(r) /\ MuFree(r) /\ UNCHANGED <<vars, cancelled, toolRequests>>
  /\ UNCHANGED <<phase, responding, outputVars, reader, frame, executorClosed, stopVars, fatal>>

-------------------------------------------------------------------------------
(* Steps of the coordinator that the connection does not wait for          *)

QueueTimer(r) ==
  /\ TimerFires(r) \/ QueueTimedOut(r) \/ StaleTimer(r)
  /\ UNCHANGED connectionVars

Trigger == fatal' = IF fatal = "no" THEN "triggering" ELSE fatal

(* coordinator.runOwned: the cleanup follows the fatal transition.         *)
QueueTimerPanics(r) ==
  /\ TimerPanics(r)
  /\ Trigger
  /\ UNCHANGED <<requestVars, outputVars, serveVars, stopVars>>

QueueTimerCleanup(r) ==
  /\ fatal = "done"
  /\ FailQueueTimerAfterPanic(r)
  /\ UNCHANGED connectionVars

(* FatalSignal.Run: the signal is raised once no write holds the           *)
(* transition.                                                             *)
FatalTransition ==
  /\ fatal = "triggering" /\ Writers = {}
  /\ fatal' = "done"
  /\ UNCHANGED <<vars, requestVars, outputVars, serveVars, stopVars>>

(* lease.MarkNoCommit(): a publication that owns the lease is told, and    *)
(* rolls its lineage back.                                                 *)
NoCommit(r) ==
  /\ MarkNoCommit(r)
  /\ cursor' = IF lease[r] = "live" /\ r \notin noCommit
                  /\ cursor[r] \in {"Provisional", "Publishing"}
               THEN [cursor EXCEPT ![r] = "rolledBack"]
               ELSE cursor
  /\ UNCHANGED <<requestVars, response, serveVars, stopVars, fatal>>

(* The second half of WorkLease.WorkerReturned.                            *)
SlotReturned(r) ==
  /\ WorkerReturned(r)
  /\ UNCHANGED connectionVars

-------------------------------------------------------------------------------
(* The goroutine of a call: runToolRequest                                 *)

Unregister(r) == toolRequests' = toolRequests \ {r}

(* reservation.Start().                                                    *)
StartBlocks(r) ==
  /\ phase[r] = "launched"
  /\ StartWait(r)
  /\ UNCHANGED connectionVars

StartReturns(r) ==
  /\ phase[r] = "launched"
  /\ Start(r) \/ Wake(r)
  /\ \/ start'[r] = "run" /\ Goto(r, "calling") /\ UNCHANGED toolRequests
     \/ start'[r] = "cancelled" /\ Goto(r, "gone") /\ Unregister(r)
     \/ start'[r] = "timeout" /\ Goto(r, "timedOut") /\ UNCHANGED toolRequests
  /\ UNCHANGED <<cancelled, responding, outputVars, serveVars, stopVars, fatal>>

(* What the executor may do during the call.  It returns a lease that no   *)
(* publication owns, at the latest some time after the call: a computation *)
(* shared with other calls keeps the lease of the call that started it.    *)
ExecutorReturnsLease(r) ==
  /\ phase[r] \notin {"none", "admitted", "launched"} /\ cursor[r] = "none"
  /\ ReturnLease(r)
  /\ UNCHANGED connectionVars

(* Registry.commitInitial: the lineage is installed only if the lease can  *)
(* be transferred to its publication.                                      *)
CommitInitial(r) ==
  /\ phase[r] = "calling" /\ cursor[r] = "none"
  /\ ~executorClosed
  /\ lease[r] = "live" /\ r \notin noCommit
  /\ cursor' = [cursor EXCEPT ![r] = "Provisional"]
  /\ UNCHANGED <<vars, requestVars, response, serveVars, stopVars, fatal>>

CallReturns(r) ==
  /\ phase[r] = "calling"
  /\ Goto(r, "called")
  /\ UNCHANGED <<vars, cancelled, responding, toolRequests, outputVars, serveVars, stopVars, fatal>>

(* The committed page cannot be rendered: the executor aborts its own      *)
(* publication and returns an ordinary error.                              *)
RenderFails(r) ==
  /\ phase[r] = "calling" /\ cursor[r] # "none"
  /\ ReturnLease(r)
  /\ cursor' = [cursor EXCEPT ![r] = "none"]
  /\ Goto(r, "called")
  /\ UNCHANGED <<cancelled, responding, toolRequests, response, serveVars, stopVars, fatal>>

(* The deferred calls run while the stack unwinds, then the fatal signal   *)
(* is raised, and only then the cleanup begins.                            *)
WorkerPanics(r) ==
  /\ phase[r] = "calling"
  /\ Goto(r, "panicked")
  /\ Trigger
  /\ UNCHANGED <<vars, cancelled, responding, toolRequests, outputVars, serveVars, stopVars>>

PanicCleanup(r) ==
  /\ phase[r] = "panicked" /\ fatal = "done"
  /\ sweep' = sweep \cup toolRequests
  /\ Goto(r, "cleaning")
  /\ UNCHANGED <<vars, cancelled, responding, toolRequests, outputVars, reader, frame,
                 executorClosed, stopVars, fatal>>

PanicRecorded(r) ==
  /\ phase[r] = "cleaning" /\ sweep = {} /\ marking \cap cancelled = {}
  /\ StoreAsyncError("fatal") /\ Stop
  /\ Unregister(r) /\ Goto(r, "gone")
  /\ UNCHANGED <<vars, cancelled, responding, outputVars, serveVars, fatal>>

(* abortPublication: roll the lineage back and return the lease.           *)
Abort(r) ==
  IF cursor[r] = "none"
  THEN UNCHANGED <<vars, cursor>>
  ELSE /\ cursor' = [cursor EXCEPT ![r] = IF @ = "dropped" THEN @ ELSE "rolledBack"]
       /\ IF lease[r] = "live" THEN ReturnLease(r) ELSE UNCHANGED vars

CancelledBeforeResponse(r) ==
  /\ phase[r] = "called" /\ MuFree(r) /\ r \in cancelled
  /\ Abort(r) /\ Unregister(r) /\ Goto(r, "aborting")
  /\ UNCHANGED <<cancelled, responding, response, serveVars, stopVars, fatal>>

ResponseEncoded(r) ==
  /\ phase[r] = "called" /\ MuFree(r) /\ r \notin cancelled
  /\ Goto(r, "ready")
  /\ UNCHANGED <<vars, cancelled, responding, toolRequests, outputVars, serveVars, stopVars, fatal>>

EncodeFails(r) ==
  /\ phase[r] = "called" /\ MuFree(r) /\ r \notin cancelled
  /\ Abort(r) /\ Unregister(r) /\ Goto(r, "failing")
  /\ UNCHANGED <<cancelled, responding, response, serveVars, stopVars, fatal>>

-------------------------------------------------------------------------------
(* The response transaction                                                *)

(* Mutated form: the gate opens although the connection is closing.        *)
BeginTransaction_AfterStop(r) ==
  /\ phase[r] \in {"ready", "timedOut", "refused"}
  /\ Goto(r, IF phase[r] = "refused" THEN "claimed" ELSE "open")
  /\ UNCHANGED <<vars, cancelled, responding, toolRequests, outputVars, serveVars, stopVars, fatal>>

BeginTransaction(r) ==
  /\ phase[r] \in {"ready", "timedOut", "refused"}
  /\ ~gateStopped
  /\ Goto(r, IF phase[r] = "refused" THEN "claimed" ELSE "open")
  /\ UNCHANGED <<vars, cancelled, responding, toolRequests, outputVars, serveVars, stopVars, fatal>>

(* Mutated form: the publication is forgotten.                             *)
BeginRefused_NoAbort(r) ==
  /\ phase[r] \in {"ready", "timedOut", "refused"}
  /\ gateStopped
  /\ Unregister(r)
  /\ Goto(r, IF fatal = "done" THEN "failing" ELSE "aborting")
  /\ UNCHANGED <<vars, cursor, cancelled, responding, response, serveVars, stopVars, fatal>>

BeginRefused(r) ==
  /\ phase[r] \in {"ready", "timedOut", "refused"}
  /\ gateStopped
  /\ Abort(r) /\ Unregister(r)
  /\ Goto(r, IF fatal = "done" THEN "failing" ELSE "aborting")
  /\ UNCHANGED <<cancelled, responding, response, serveVars, stopVars, fatal>>

(* Mutated form: a cancelled request may still answer.                     *)
MayRespond_Cancelled(r) == r \notin responding

(* What claimResponse asks; claimTimeoutResponse does not look at          *)
(* cancelled.                                                              *)
MayRespond(r) == r \notin responding /\ (start[r] = "timeout" \/ r \notin cancelled)

ClaimResponse(r) ==
  /\ phase[r] = "open" /\ MuFree(r) /\ MayRespond(r)
  /\ responding' = responding \cup {r}
  /\ Unregister(r) /\ Goto(r, "claimed")
  /\ UNCHANGED <<vars, cancelled, outputVars, serveVars, stopVars, fatal>>

ClaimLost(r) ==
  /\ phase[r] = "open" /\ MuFree(r) /\ ~MayRespond(r)
  /\ Abort(r) /\ Unregister(r) /\ Goto(r, "yielding")
  /\ UNCHANGED <<cancelled, responding, response, serveVars, stopVars, fatal>>

(* Mutated form: the fatal signal is not consulted.                        *)
EnterWrite_AfterFatal(r) ==
  /\ phase[r] = "claimed" /\ Writers = {}
  /\ Goto(r, "writing")
  /\ UNCHANGED <<vars, cancelled, responding, toolRequests, outputVars, serveVars, stopVars, fatal>>

(* outputMu.Lock() and RunBeforeFatal.                                     *)
EnterWrite(r) ==
  /\ phase[r] = "claimed" /\ Writers = {} /\ fatal = "no"
  /\ Goto(r, "writing")
  /\ UNCHANGED <<vars, cancelled, responding, toolRequests, outputVars, serveVars, stopVars, fatal>>

WriteRefused(r) ==
  /\ phase[r] = "claimed" /\ Writers = {} /\ fatal # "no"
  /\ StoreAsyncError("fatal") /\ Stop
  /\ Abort(r) /\ Goto(r, "yielding")
  /\ UNCHANGED <<cancelled, responding, toolRequests, response, serveVars, fatal>>

Prepare(r) ==
  /\ phase[r] = "writing" /\ response[r] = "none" /\ ~terminalStopped
  /\ cursor[r] = "Provisional" /\ ~executorClosed
  /\ cursor' = [cursor EXCEPT ![r] = "Publishing"]
  /\ UNCHANGED <<vars, requestVars, response, serveVars, stopVars, fatal>>

(* output.Write is under way.                                              *)
StartOutput(r) ==
  /\ phase[r] = "writing" /\ response[r] = "none" /\ ~terminalStopped
  /\ cursor[r] \in {"none", "Publishing"}
  /\ response' = [response EXCEPT ![r] = "partial"]
  /\ UNCHANGED <<vars, requestVars, cursor, serveVars, stopVars, fatal>>

(* The last byte is accepted, whatever happened in the meantime.           *)
EndOutput(r) ==
  /\ phase[r] = "writing" /\ response[r] = "partial"
  /\ response' = [response EXCEPT ![r] = "whole"]
  /\ UNCHANGED <<vars, requestVars, cursor, serveVars, stopVars, fatal>>

(* writeAllowed finds the connection stopped: before the first byte,       *)
(* between two writes, or before the flush.                                *)
WriteStopped(r) ==
  /\ phase[r] = "writing" /\ terminalStopped
  /\ Abort(r) /\ Goto(r, "settling")
  /\ UNCHANGED <<cancelled, responding, toolRequests, response, serveVars, stopVars, fatal>>

(* A write or the flush fails.                                             *)
WriteFails(r) ==
  /\ phase[r] = "writing" /\ response[r] # "none"
  /\ StoreAsyncError("error") /\ Stop
  /\ Abort(r) /\ Goto(r, "settling")
  /\ UNCHANGED <<cancelled, responding, toolRequests, response, serveVars, fatal>>

OrdinaryWritten(r) ==
  /\ phase[r] = "writing" /\ response[r] = "whole" /\ cursor[r] = "none"
  /\ Goto(r, "settling")
  /\ UNCHANGED <<vars, cancelled, responding, toolRequests, outputVars, serveVars, stopVars, fatal>>

(* Mutated form: published as soon as the first byte is out.               *)
Commit_Early(r) ==
  /\ phase[r] = "writing" /\ response[r] # "none"
  /\ cursor[r] = "Publishing" /\ ~executorClosed
  /\ cursor' = [cursor EXCEPT ![r] = "Published"]
  /\ IF lease[r] = "live" THEN ReturnLease(r) ELSE UNCHANGED vars
  /\ Goto(r, "settling")
  /\ UNCHANGED <<cancelled, responding, toolRequests, response, serveVars, stopVars, fatal>>

(* publication.Commit(), which also returns the lease.                     *)
Commit(r) ==
  /\ phase[r] = "writing" /\ response[r] = "whole"
  /\ cursor[r] = "Publishing" /\ ~executorClosed
  /\ cursor' = [cursor EXCEPT ![r] = "Published"]
  /\ IF lease[r] = "live" THEN ReturnLease(r) ELSE UNCHANGED vars
  /\ Goto(r, "settling")
  /\ UNCHANGED <<cancelled, responding, toolRequests, response, serveVars, stopVars, fatal>>

(* The lineage is gone from the registry: the connection fails.            *)
CommitFails(r) ==
  /\ phase[r] = "writing" /\ response[r] = "whole"
  /\ cursor[r] \in {"rolledBack", "dropped"}
  /\ IF lease[r] = "live" THEN ReturnLease(r) ELSE UNCHANGED vars
  /\ StoreAsyncError("error") /\ Stop
  /\ Goto(r, "settling")
  /\ UNCHANGED <<cancelled, responding, toolRequests, outputVars, serveVars, fatal>>

(* The client read a response that took longer to write than the cursor    *)
(* lives, and its lookup removes the expired lineage before Commit.        *)
Expire(r) ==
  /\ response[r] = "whole" /\ cursor[r] = "Publishing"
  /\ cursor' = [cursor EXCEPT ![r] = "dropped"]
  /\ UNCHANGED <<vars, requestVars, response, serveVars, stopVars, fatal>>

(* Mutated form: a claim that is lost never ends its transaction.          *)
Leave_KeepsTransaction(r) ==
  /\ phase[r] \in {"settling", "yielding", "aborting", "failing"}
  /\ lease[r] # "returning"
  /\ IF phase[r] = "yielding" THEN UNCHANGED phase ELSE Goto(r, "gone")
  /\ IF phase[r] = "failing"
     THEN Stop /\ StoreAsyncError(IF fatal = "done" THEN "fatal" ELSE "error")
     ELSE UNCHANGED stopVars
  /\ IF state[r] = "rejected"
     THEN /\ frame' = {}
          /\ reader' = IF phase[r] = "settling" /\ ~terminalStopped
                       THEN "reading" ELSE "closing"
     ELSE UNCHANGED <<reader, frame>>
  /\ UNCHANGED <<vars, cancelled, responding, toolRequests, outputVars, sweep, executorClosed, fatal>>

(* The deferred calls and the end of the worker, once WorkerReturned has   *)
(* released the slot.  A reader that wrote a refusal goes on, or returns   *)
(* the error.                                                              *)
Leave(r) ==
  /\ phase[r] \in {"settling", "yielding", "aborting", "failing"}
  /\ lease[r] # "returning"
  /\ Goto(r, "gone")
  /\ IF phase[r] = "failing"
     THEN Stop /\ StoreAsyncError(IF fatal = "done" THEN "fatal" ELSE "error")
     ELSE UNCHANGED stopVars
  /\ IF state[r] = "rejected"
     THEN /\ frame' = {}
          /\ reader' = IF phase[r] = "settling" /\ ~terminalStopped
                       THEN "reading" ELSE "closing"
     ELSE UNCHANGED <<reader, frame>>
  /\ UNCHANGED <<vars, cancelled, responding, toolRequests, outputVars, sweep, executorClosed, fatal>>

-------------------------------------------------------------------------------
Serve ==
  \/ \E r \in Requests :
       \/ NextFrame(r) \/ AdmitToolCall(r) \/ AcquireOutput(r) \/ AcquireFails(r)
       \/ CancelToolRequest(r) \/ CancelIgnored(r) \/ CancelDone(r)
  \/ ServeReturns \/ StopAccepting \/ ServeStops \/ CloseExecutor

Executor(r) ==
  \/ ExecutorReturnsLease(r) \/ CommitInitial(r) \/ RenderFails(r)
  \/ CallReturns(r) \/ WorkerPanics(r)

Respond(r) ==
  \/ CancelledBeforeResponse(r) \/ ResponseEncoded(r) \/ EncodeFails(r)
  \/ BeginTransaction(r) \/ BeginRefused(r) \/ ClaimResponse(r) \/ ClaimLost(r)
  \/ EnterWrite(r) \/ WriteRefused(r) \/ WriteStopped(r) \/ Leave(r)

Write(r) ==
  \/ Prepare(r) \/ StartOutput(r) \/ EndOutput(r) \/ WriteFails(r)
  \/ OrdinaryWritten(r) \/ Commit(r) \/ CommitFails(r) \/ Expire(r)

Background(r) ==
  \/ QueueTimer(r) \/ QueueTimerPanics(r) \/ QueueTimerCleanup(r)
  \/ NoCommit(r) \/ SlotReturned(r) \/ SweepOne(r)
  \/ PanicCleanup(r) \/ PanicRecorded(r)

(* The process ends when serve returns.                                    *)
Served == reader = "done" /\ UNCHANGED allVars

ConnectionNext ==
  \/ Serve \/ FatalTransition \/ Served
  \/ \E r \in Requests :
       StartBlocks(r) \/ StartReturns(r) \/ Executor(r) \/ Respond(r) \/ Write(r) \/ Background(r)

ConnectionSpec == ConnectionInit /\ [][ConnectionNext]_allVars

(* What the code schedules by itself: runnable goroutines, a reader that   *)
(* sees a fatal signal, a call that returns, leases that are returned, and *)
(* a client that reads its responses or closes the pipe (EndOutput or      *)
(* WriteFails).  No frame ever has to come, no timer to fire, and serve    *)
(* need not return unless the connection failed.                           *)
ConnectionFairness ==
  /\ WF_allVars(StopAccepting \/ ServeStops \/ CloseExecutor)
  /\ WF_allVars(ServeReturns /\ fatal = "done")
  /\ WF_allVars(FatalTransition)
  /\ \A r \in Requests :
       /\ WF_allVars(AdmitToolCall(r) \/ CancelToolRequest(r) \/ CancelIgnored(r) \/ CancelDone(r))
       /\ WF_allVars(AcquireOutput(r) \/ AcquireFails(r))
       /\ WF_allVars(StartBlocks(r) \/ StartReturns(r))
       /\ WF_allVars(CallReturns(r)) /\ WF_allVars(ExecutorReturnsLease(r))
       /\ WF_allVars(Respond(r)) /\ WF_allVars(Write(r))
       /\ WF_allVars(NoCommit(r)) /\ WF_allVars(SlotReturned(r)) /\ WF_allVars(SweepOne(r))
       /\ WF_allVars(PanicCleanup(r)) /\ WF_allVars(PanicRecorded(r))

FairConnectionSpec == ConnectionSpec /\ ConnectionFairness
-------------------------------------------------------------------------------
(* Properties                                                              *)

ConnectionTypeOK ==
  /\ TypeOK
  /\ phase \in [Requests -> Phases]
  /\ cancelled \subseteq Requests
  /\ responding \subseteq Requests
  /\ toolRequests \subseteq Requests
  /\ cursor \in [Requests -> Cursors]
  /\ response \in [Requests -> {"none", "partial", "whole"}]
  /\ reader \in Readers
  /\ frame \subseteq Requests
  /\ sweep \subseteq Requests
  /\ gateStopped \in BOOLEAN /\ terminalStopped \in BOOLEAN
  /\ fatal \in {"no", "triggering", "done"}
  /\ asyncError \in {"none", "error", "fatal"}
  /\ executorClosed \in BOOLEAN

(* A cancellation that wins request.mu silences the call: not one byte of  *)
(* its response leaves, unless the call had already timed out in the       *)
(* queue, in which case only the busy answer may.                          *)
CancelSilences ==
  \A r \in cancelled : start[r] # "timeout" => response[r] = "none"

(* A lineage is published only behind a response that left completely, and *)
(* while the client can already see the whole response of a connection in  *)
(* service, its cursor works (unless it expired, which ends the            *)
(* connection).                                                            *)
PublishedIffDelivered ==
  \A r \in Requests :
    /\ cursor[r] = "Published" => response[r] = "whole"
    /\ response[r] = "whole" /\ cursor[r] # "none" /\ ~terminalStopped =>
         \/ cursor[r] \in {"Publishing", "Published"}
         \/ cursor[r] = "dropped" /\ phase[r] = "writing"

(* A cursor token that reached the client, even in part, belongs to a      *)
(* lineage that was made visible to lookups first.                         *)
NoUnpreparedToken ==
  \A r \in Requests : response[r] # "none" => cursor[r] # "Provisional"

(* Both: a client holds a cursor exactly when it works.                    *)
CursorIffDelivered == PublishedIffDelivered /\ NoUnpreparedToken

(* Once the fatal signal is raised the output is frozen: "RunBeforeFatal   *)
(* linearizes one complete operation before the fatal transition"          *)
(* (fatal.go:43).                                                          *)
FrozenAfterFatal == [][fatal = "done" => UNCHANGED response]_allVars

(* Only a failure tears a response: end of input or a cancelled context    *)
(* lets every response that has begun leave completely.                    *)
TornOnlyByFailure ==
  \A r \in Requests :
    phase[r] = "gone" /\ response[r] = "partial" => asyncError # "none"

(* When the goroutine of a call has ended, its publication is settled (the *)
(* lineage published or gone from the registry) and its lease is on its    *)
(* way back, unless the call panicked.                                     *)
PublicationSettled ==
  \A r \in Requests : phase[r] = "gone" =>
    /\ cursor[r] \notin {"Provisional", "Publishing"}
    /\ cursor[r] # "none" /\ fatal = "no" => lease[r] = "returned"

(* The executor, and with it the cursor registry, is closed only when no   *)
(* response is in the making, and none will be.                            *)
ClosedInSilence == executorClosed => InTransaction = {} /\ gateStopped

(* The map of calls a cancellation can reach holds exactly the calls that  *)
(* nobody has decided yet.                                                 *)
ReachableByCancel ==
  \A r \in Requests :
    r \in toolRequests <=>
      /\ phase[r] \in {"launched", "calling", "called", "ready", "timedOut", "open",
                       "panicked", "cleaning"}
      /\ state[r] # "rejected" /\ r \notin cancelled

(* Both: between its launch and its end a call is where a cancellation     *)
(* finds it until it is decided, and leaves nothing undecided behind.      *)
CallsTracked == PublicationSettled /\ ReachableByCancel

(* serve returns: neither an open transaction nor a cancellation can hold  *)
(* the shutdown up for ever.                                               *)
ServeTerminates == reader = "closing" ~> reader = "done"

(* Every launched call comes to an end: answered, cancelled, timed out or  *)
(* dropped by the shutdown.                                                *)
CallsSettle == \A r \in Requests : phase[r] = "launched" ~> phase[r] = "gone"

(* Both: a connection that closes comes to rest.                           *)
ShutdownCompletes == ServeTerminates /\ CallsSettle
===============================================================================
