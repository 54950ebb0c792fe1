--------------------------- MODULE ProtocolDispatch ---------------------------
(***************************************************************************)
(* How a stdio connection gets its frames and answers the requests that    *)
(* are not tool calls (internal/mcpstdio: connection.go, concurrency.go,   *)
(* frame.go, inbound.go, schema.go, id_registry.go, lifecycle.go).         *)
(*                                                                         *)
(* Four goroutines: the frame pump, which reads one frame and waits until  *)
(* it is consumed; serve, the reader, which classifies the frame and       *)
(* answers errors and initialize itself; the worker that holds the         *)
(* protocol slot; and the worker of the queue of "server busy" answers.    *)
(* Tool calls and their cancellation, StdioConnection's subject, are       *)
(* frames that need no answer here; what their goroutines do to the        *)
(* connection is ToolWriteFails and FatalRaised.                           *)
(***************************************************************************)
EXTENDS Integers, Sequences, FiniteSets, FiniteSetsExt, SequencesExt

CONSTANTS
  Ids,          \* semantic request ids
  NoId, BadId,  \* no id member, and one that is not a request id
  Messages,     \* the frames a client may send
  Home,         \* where the digest of an id puts it in the table
  KeyBytes,     \* the length of the key of an id
  TableSlots, MaxRequests, ArenaBytes,  \* usedIDRegistryConfig
  BusyCapacity, \* protocolBusyQueueCapacity
  Empty,        \* a slot without an id
  MaxFrames     \* bound: frames per connection

Notifications == {"notifications/initialized", "notifications/cancelled"}
Requests == {"initialize", "ping", "tools/list", "tools/call"}
Methods == Requests \cup Notifications \cup {"other"}

(* syntax: what the scanner found wrong first: with the document, with the *)
(* envelope, with the params (there also what validateInboundSchema does). *)
MessageSpace ==
  [syntax : {"document", "envelope", "params", "fine"}, version : BOOLEAN, reply : BOOLEAN,
   method : Methods \cup {"none"}, id : Ids \cup {NoId, BadId}]

ASSUME ProtocolAssumption ==
  /\ Messages \subseteq MessageSpace /\ NoId \notin Ids /\ BadId \notin Ids /\ Empty \notin Ids
  /\ TableSlots \in Nat \ {0} /\ Home \in [Ids -> 0 .. TableSlots - 1]
  /\ KeyBytes \in [Ids -> Nat] /\ ArenaBytes \in Nat
  /\ MaxRequests \in 0 .. TableSlots /\ BusyCapacity \in Nat \ {0} /\ MaxFrames \in Nat

VARIABLES
  frames,     \* the frames read so far; the last one is in hand
  pump,       \* the pump: "reading", "offering", "consuming", "stopped"
  offer,      \* what it offers: "frame", "eof" or "error"
  reader,     \* where serve stands
  result,     \* what serve returns, before its deferred function
  lifecycle,  \* connectionLifecycle.state
  slots,      \* usedIDRegistry.slots
  pending,    \* the answer each writer has to write, or NoAnswer
  open,       \* the writers in a response transaction
  busyQueue,  \* protocolBusyQueue.responses
  busyClosed,
  busyWorker, \* "none", "running", "ended"
  output,     \* the answers that left, in order
  gateStopped, terminalStopped, asyncError, fatal,
  cancelled   \* the context of serve is done

pumpVars == <<frames, pump, offer>>
readerVars == <<reader, result>>
stopVars == <<gateStopped, terminalStopped, asyncError>>
outVars == <<pending, open, output>>
busyVars == <<busyQueue, busyClosed, busyWorker>>
vars == <<pumpVars, readerVars, lifecycle, slots, outVars, busyVars, stopVars, fatal, cancelled>>

Writers == {"reader", "worker", "busy"}
Answer(n, a) == [frame |-> n, answer |-> a]
NoAnswer == Answer(0, "none")

Init ==
  /\ frames = <<>> /\ pump = "reading" /\ offer = "frame"
  /\ reader = "selecting" /\ result = "none"
  /\ lifecycle = "New" /\ slots = [i \in 0 .. TableSlots - 1 |-> Empty]
  /\ pending = [w \in Writers |-> NoAnswer] /\ open = {} /\ output = <<>>
  /\ busyQueue = <<>> /\ busyClosed = FALSE /\ busyWorker = "none"
  /\ gateStopped = FALSE /\ terminalStopped = FALSE /\ asyncError = "none"
  /\ fatal = FALSE /\ cancelled = FALSE

-------------------------------------------------------------------------------
(* What a frame is                                                         *)

Classify(m) ==
  CASE m.syntax = "document" -> "parseError"
    [] m.syntax # "document" /\ m.method = "none" /\ m.reply -> "response"
    [] m.syntax # "document" /\ ~(m.method = "none" /\ m.reply) ->
         IF m.syntax = "envelope" \/ ~m.version \/ m.method = "none" \/ m.id = BadId
         THEN "invalidRequest"
         ELSE IF m.id = NoId THEN "notification" ELSE "request"

(* validateInboundSchema: a known method of its kind, with fine params.    *)
Known(m) ==
  m.method \in (IF Classify(m) = "request" THEN Requests ELSE Notifications)

Schema(m) == IF ~Known(m) THEN "unknown" ELSE IF m.syntax = "params" THEN "invalid" ELSE "accepted"

-------------------------------------------------------------------------------
(* The used ids: linear probing in a table from which nothing is removed   *)

Probe(id, i) == IF Home[id] + i < TableSlots THEN Home[id] + i ELSE Home[id] + i - TableSlots

UsedIds == {slots[i] : i \in DOMAIN slots} \ {Empty}

(* The number of occupied slots that a probe for id passes before it finds *)
(* the id or an empty slot; TableSlots if there is neither.                *)
Distance(id) ==
  Min({i \in 0 .. TableSlots - 1 : slots[Probe(id, i)] \in {id, Empty}} \cup {TableSlots})

(* The arena holds the keys of all used ids.                               *)
ArenaUsed(ids) == MapThenSumSet(LAMBDA k : KeyBytes[k], ids)

(* Mutated form: the length of the table is not exceeded, that of the      *)
(* arena may be.                                                           *)
Register_AnyArena(id) ==
  IF Distance(id) = TableSlots THEN "exhausted"
  ELSE IF slots[Probe(id, Distance(id))] = id THEN "duplicate"
  ELSE IF Cardinality(UsedIds) >= MaxRequests THEN "exhausted" ELSE "new"

Register(id) ==
  IF Distance(id) = TableSlots THEN "exhausted"
  ELSE IF slots[Probe(id, Distance(id))] = id THEN "duplicate"
  ELSE IF \/ Cardinality(UsedIds) >= MaxRequests
          \/ KeyBytes[id] > ArenaBytes - ArenaUsed(UsedIds)
  THEN "exhausted" ELSE "new"

Remember(id) == slots' = [slots EXCEPT ![Probe(id, Distance(id))] = id]

-------------------------------------------------------------------------------
(* The frame pump                                                          *)

Receive(m) ==
  /\ pump = "reading" /\ Len(frames) < MaxFrames
  /\ frames' = Append(frames, m) /\ pump' = "offering" /\ offer' = "frame"
  /\ UNCHANGED <<readerVars, lifecycle, slots, outVars, busyVars, stopVars, fatal, cancelled>>

(* frameReader.next: a clean end, or a frame too large or not terminated,  *)
(* or a failing read, the input having been closed included.               *)
InputEnds ==
  /\ pump = "reading"
  /\ pump' = "offering" /\ offer' \in {"eof", "error"}
  /\ UNCHANGED <<frames, readerVars, lifecycle, slots, outVars, busyVars, stopVars, fatal, cancelled>>

PumpStops ==
  /\ \/ pump = "offering" /\ terminalStopped
     \/ pump = "consuming" /\ (terminalStopped \/ fatal)
  /\ pump' = "stopped"
  /\ UNCHANGED <<frames, offer, readerVars, lifecycle, slots, outVars, busyVars, stopVars, fatal,
                 cancelled>>

-------------------------------------------------------------------------------
(* serve                                                                   *)

Returns(value) == reader' = "closing" /\ result' = value

TakeFrame ==
  /\ reader = "selecting" /\ pump = "offering" /\ offer = "frame"
  /\ reader' = "handling" /\ pump' = "consuming"
  /\ UNCHANGED <<frames, offer, result, lifecycle, slots, outVars, busyVars, stopVars, fatal, cancelled>>

(* Mutated form: the busy queue is left open.                              *)
TakeEnd_QueueOpen ==
  /\ reader = "selecting"
  /\ pump = "stopped" \/ (pump = "offering" /\ offer = "eof")
  /\ reader' = "draining" /\ pump' = "stopped"
  /\ UNCHANGED <<frames, offer, result, lifecycle, slots, outVars, busyVars, stopVars, fatal, cancelled>>

(* finishEOF: the busy queue is closed, then the workers are awaited.      *)
TakeEnd ==
  /\ reader = "selecting"
  /\ pump = "stopped" \/ (pump = "offering" /\ offer = "eof")
  /\ reader' = "draining" /\ busyClosed' = TRUE /\ pump' = "stopped"
  /\ UNCHANGED <<frames, offer, result, lifecycle, slots, outVars, busyQueue, busyWorker, stopVars,
                 fatal, cancelled>>

TakeError ==
  /\ reader = "selecting" /\ pump = "offering" /\ offer = "error"
  /\ pump' = "stopped" /\ Returns("error")
  /\ UNCHANGED <<frames, offer, lifecycle, slots, outVars, busyVars, stopVars, fatal, cancelled>>

(* The other cases of the select; the terminal one returns the error that  *)
(* is stored, if any.                                                      *)
SelectEnds ==
  /\ reader = "selecting"
  /\ \/ (cancelled \/ fatal) /\ Returns("error")
     \/ terminalStopped /\ Returns(IF asyncError = "none" THEN "nil" ELSE "error")
  /\ UNCHANGED <<pumpVars, lifecycle, slots, outVars, busyVars, stopVars, fatal, cancelled>>

Handling(m) == reader = "handling" /\ ~fatal /\ m = Last(frames)

(* connection.write, called by the reader.                                 *)
AnswerSelf(a, at) ==
  pending' = [pending EXCEPT !["reader"] = Answer(Len(frames), a)] /\ reader' = at

(* dispatchProtocol: the slot is in use while the worker has an answer.    *)
Dispatch(a) ==
  IF pending["worker"] = NoAnswer
  THEN /\ pending' = [pending EXCEPT !["worker"] = Answer(Len(frames), a)]
       /\ reader' = "acking" /\ UNCHANGED busyWorker
  ELSE /\ reader' = "queueing"
       /\ busyWorker' = IF busyWorker = "none" THEN "running" ELSE busyWorker
       /\ UNCHANGED pending

HandleFatal ==
  /\ reader = "handling" /\ fatal
  /\ Returns("error")
  /\ UNCHANGED <<pumpVars, lifecycle, slots, outVars, busyVars, stopVars, fatal, cancelled>>

HandleBroken(m) ==
  /\ Handling(m) /\ Classify(m) \in {"parseError", "invalidRequest"}
  /\ AnswerSelf(Classify(m), "writing")
  /\ UNCHANGED <<pumpVars, result, lifecycle, slots, open, output, busyVars, stopVars, fatal, cancelled>>

HandleUnanswered(m) ==
  /\ Handling(m) /\ Classify(m) \in {"response", "notification"}
  /\ lifecycle' = IF lifecycle = "AwaitingInitialized" /\ Classify(m) = "notification"
                     /\ Schema(m) = "accepted" /\ m.method = "notifications/initialized"
                  THEN "Ready" ELSE lifecycle
  /\ reader' = "acking"
  /\ UNCHANGED <<pumpVars, result, slots, outVars, busyVars, stopVars, fatal, cancelled>>

HandleRefusedId(m) ==
  /\ Handling(m) /\ Classify(m) = "request"
  /\ \/ Register(m.id) = "duplicate" /\ AnswerSelf("invalidRequest", "writing")
     \/ Register(m.id) = "exhausted" /\ AnswerSelf("requestLimit", "writingLast")
  /\ UNCHANGED <<pumpVars, result, lifecycle, slots, open, output, busyVars, stopVars, fatal, cancelled>>

(* connectionLifecycle.handle for a request; "call" is answered elsewhere. *)
Decision(m) ==
  CASE Schema(m) = "unknown" -> "methodNotFound"
    [] Schema(m) = "invalid" -> "invalidParams"
    [] Schema(m) = "accepted" ->
         CASE m.method = "initialize" -> IF lifecycle = "New" THEN "initialize" ELSE "invalidRequest"
           [] m.method = "ping" -> "pong"
           [] m.method = "tools/list" -> IF lifecycle = "Ready" THEN "tools" ELSE "invalidRequest"
           [] m.method = "tools/call" -> IF lifecycle = "Ready" THEN "call" ELSE "invalidRequest"

HandleRequest(m) ==
  /\ Handling(m) /\ Classify(m) = "request" /\ Register(m.id) = "new"
  /\ Remember(m.id)
  /\ LET decision == Decision(m) IN
       \/ /\ decision = "initialize"
          /\ lifecycle' = "AwaitingInitialized"
          /\ AnswerSelf(decision, "writing") /\ UNCHANGED busyWorker
       \/ /\ decision = "call"
          /\ reader' = "acking" /\ UNCHANGED <<lifecycle, pending, busyWorker>>
       \/ /\ decision \notin {"initialize", "call"}
          /\ Dispatch(decision) /\ UNCHANGED lifecycle
  /\ UNCHANGED <<pumpVars, result, open, output, busyQueue, busyClosed, stopVars, fatal, cancelled>>

(* Mutated form: an answer that finds the queue full is dropped.           *)
EnqueueBusy_Drops ==
  /\ reader = "queueing"
  /\ busyQueue' = IF Len(busyQueue) < BusyCapacity
                  THEN Append(busyQueue, Answer(Len(frames), "busy")) ELSE busyQueue
  /\ reader' = "acking"
  /\ UNCHANGED <<pumpVars, result, lifecycle, slots, outVars, busyClosed, busyWorker, stopVars, fatal,
                 cancelled>>

EnqueueBusy ==
  /\ reader = "queueing" /\ Len(busyQueue) < BusyCapacity
  /\ busyQueue' = Append(busyQueue, Answer(Len(frames), "busy")) /\ reader' = "acking"
  /\ UNCHANGED <<pumpVars, result, lifecycle, slots, outVars, busyClosed, busyWorker, stopVars, fatal,
                 cancelled>>

EnqueueFails ==
  /\ reader = "queueing" /\ (terminalStopped \/ fatal)
  /\ Returns("error")
  /\ UNCHANGED <<pumpVars, lifecycle, slots, outVars, busyVars, stopVars, fatal, cancelled>>

(* acknowledgeFrame                                                        *)
Acknowledge ==
  /\ reader = "acking" /\ pump = "consuming" /\ ~cancelled /\ ~fatal
  /\ reader' = "selecting" /\ pump' = "reading"
  /\ UNCHANGED <<frames, offer, result, lifecycle, slots, outVars, busyVars, stopVars, fatal, cancelled>>

AcknowledgeFails ==
  /\ reader = "acking" /\ (cancelled \/ fatal \/ terminalStopped)
  /\ Returns("error")
  /\ UNCHANGED <<pumpVars, lifecycle, slots, outVars, busyVars, stopVars, fatal, cancelled>>

(* Mutated form: finishEOF does not wait for the busy queue.               *)
Drained_WorkerOnly ==
  /\ reader = "draining" /\ pending["worker"] = NoAnswer
  /\ Returns(IF fatal \/ asyncError # "none" THEN "error" ELSE "eof")
  /\ UNCHANGED <<pumpVars, lifecycle, slots, outVars, busyVars, stopVars, fatal, cancelled>>

(* protocolWorkers.Wait() in finishEOF                                     *)
Drained ==
  /\ reader = "draining" /\ pending["worker"] = NoAnswer /\ busyWorker # "running"
  /\ Returns(IF fatal \/ asyncError # "none" THEN "error" ELSE "eof")
  /\ UNCHANGED <<pumpVars, lifecycle, slots, outVars, busyVars, stopVars, fatal, cancelled>>

-------------------------------------------------------------------------------
(* Writing an answer                                                       *)

Stop == gateStopped' = TRUE /\ terminalStopped' = TRUE

StoreAsyncError(e) == asyncError' = IF e = "fatal" \/ asyncError = "none" THEN e ELSE asyncError

(* What the goroutine does when its write is over.  The deferred release   *)
(* of the slot, protocolWorkers.Done and recordAsyncError of the worker    *)
(* are in the step: the error has been stored by the write.                *)
WriteReturns(w, ok) ==
  /\ pending' = [pending EXCEPT ![w] = NoAnswer]
  /\ CASE w = "worker" -> UNCHANGED <<readerVars, busyWorker>>
       [] w = "busy" -> busyWorker' = (IF ok THEN "running" ELSE "ended") /\ UNCHANGED readerVars
       [] w = "reader" ->
            /\ IF ~ok THEN Returns("error")
               ELSE IF reader = "writingLast" THEN Returns("nil")
               ELSE reader' = "acking" /\ UNCHANGED result
            /\ UNCHANGED busyWorker

BeginWrite(w) ==
  /\ pending[w] # NoAnswer /\ w \notin open /\ ~gateStopped
  /\ open' = open \cup {w}
  /\ UNCHANGED <<pumpVars, readerVars, lifecycle, slots, pending, output, busyVars, stopVars, fatal,
                 cancelled>>

(* The worker's recordAsyncError stops the connection for a fatal error.   *)
BeginRefused(w) ==
  /\ pending[w] # NoAnswer /\ w \notin open /\ gateStopped
  /\ WriteReturns(w, FALSE)
  /\ IF fatal /\ w # "reader" THEN StoreAsyncError("fatal") /\ Stop ELSE UNCHANGED stopVars
  /\ UNCHANGED <<pumpVars, lifecycle, slots, open, output, busyQueue, busyClosed, fatal, cancelled>>

(* outputMu and the fatal transition are held; the client has read it all. *)
Write(w) ==
  /\ w \in open /\ ~fatal /\ ~terminalStopped
  /\ output' = Append(output, pending[w])
  /\ open' = open \ {w} /\ WriteReturns(w, TRUE)
  /\ UNCHANGED <<pumpVars, lifecycle, slots, busyQueue, busyClosed, stopVars, fatal, cancelled>>

(* ... or the write fails, or is not begun.                                *)
WriteFails(w) ==
  /\ w \in open
  /\ IF fatal THEN StoreAsyncError("fatal")
     ELSE IF terminalStopped THEN UNCHANGED asyncError ELSE StoreAsyncError("write")
  /\ Stop
  /\ open' = open \ {w} /\ WriteReturns(w, FALSE)
  /\ UNCHANGED <<pumpVars, lifecycle, slots, output, busyQueue, busyClosed, fatal, cancelled>>

(* The worker of the busy queue                                            *)
BusyTakes ==
  /\ busyWorker = "running" /\ pending["busy"] = NoAnswer /\ busyQueue # <<>>
  /\ pending' = [pending EXCEPT !["busy"] = Head(busyQueue)] /\ busyQueue' = Tail(busyQueue)
  /\ UNCHANGED <<pumpVars, readerVars, lifecycle, slots, open, output, busyClosed, busyWorker, stopVars,
                 fatal, cancelled>>

BusyEnds ==
  /\ busyWorker = "running" /\ pending["busy"] = NoAnswer
  /\ \/ (terminalStopped \/ (busyClosed /\ busyQueue = <<>>)) /\ UNCHANGED stopVars
     \/ fatal /\ StoreAsyncError("fatal") /\ Stop
  /\ busyWorker' = "ended"
  /\ UNCHANGED <<pumpVars, readerVars, lifecycle, slots, outVars, busyQueue, busyClosed, fatal, cancelled>>

-------------------------------------------------------------------------------
(* The end of serve, and what else ends a connection                       *)

StopAccepting ==
  /\ reader = "closing"
  /\ gateStopped' = TRUE /\ reader' = "waiting"
  /\ UNCHANGED <<pumpVars, result, lifecycle, slots, outVars, busyVars, terminalStopped, asyncError, fatal,
                 cancelled>>

ServeReturns ==
  /\ reader = "waiting" /\ open = {}
  /\ Stop
  /\ result' = IF fatal \/ asyncError # "none" THEN "error" ELSE result
  /\ reader' = "done"
  /\ UNCHANGED <<pumpVars, lifecycle, slots, outVars, busyVars, asyncError, fatal, cancelled>>

CancelContext ==
  /\ ~cancelled /\ cancelled' = TRUE
  /\ UNCHANGED <<pumpVars, readerVars, lifecycle, slots, outVars, busyVars, stopVars, fatal>>

(* A tool call has been admitted; its goroutine may panic, or fail to      *)
(* write its response.                                                     *)
ToolCalled == lifecycle = "Ready" /\ \E n \in DOMAIN frames : frames[n].method = "tools/call"

FatalRaised ==
  /\ ToolCalled /\ ~fatal /\ fatal' = TRUE
  /\ UNCHANGED <<pumpVars, readerVars, lifecycle, slots, outVars, busyVars, stopVars, cancelled>>

ToolWriteFails ==
  /\ ToolCalled /\ ~fatal /\ ~terminalStopped
  /\ StoreAsyncError("write") /\ Stop
  /\ UNCHANGED <<pumpVars, readerVars, lifecycle, slots, outVars, busyVars, fatal, cancelled>>

Served == reader = "done" /\ UNCHANGED vars

Pump == InputEnds \/ PumpStops

Reader ==
  \/ TakeFrame \/ TakeEnd \/ TakeError \/ SelectEnds \/ HandleFatal
  \/ \E m \in Messages :
       HandleBroken(m) \/ HandleUnanswered(m) \/ HandleRefusedId(m) \/ HandleRequest(m)
  \/ EnqueueBusy \/ EnqueueFails \/ Acknowledge \/ AcknowledgeFails
  \/ Drained \/ StopAccepting \/ ServeReturns

Writer(w) == BeginWrite(w) \/ BeginRefused(w) \/ Write(w) \/ WriteFails(w)

Next ==
  \/ \E m \in Messages : Receive(m)
  \/ Pump \/ Reader \/ (\E w \in Writers : Writer(w)) \/ BusyTakes \/ BusyEnds
  \/ CancelContext \/ FatalRaised \/ ToolWriteFails \/ Served

Spec == Init /\ [][Next]_vars

(* Nobody has to send a frame or to end the input; a client that got an    *)
(* answer on its way reads it or hangs up.                                 *)
FairSpec ==
  /\ Spec
  /\ WF_vars(PumpStops) /\ WF_vars(Reader)
  /\ \A w \in Writers : WF_vars(Writer(w))
  /\ WF_vars(BusyTakes \/ BusyEnds)

-------------------------------------------------------------------------------
(* Properties                                                              *)

(* What a client may expect, from the frames it sent before.               *)
IsRequest(n) == Classify(frames[n]) = "request"
EarlierIds(n) == {frames[k].id : k \in {j \in 1 .. n - 1 : IsRequest(j)}}
Fresh(n) == IsRequest(n) /\ frames[n].id \notin EarlierIds(n)
WithinLimits(n) ==
  /\ Cardinality(EarlierIds(n)) < MaxRequests
  /\ ArenaUsed(EarlierIds(n) \cup {frames[n].id}) <= ArenaBytes
Initializes(n) ==
  Fresh(n) /\ WithinLimits(n) /\ frames[n].method = "initialize" /\ frames[n].syntax = "fine"
InitializedBefore(n) == \E k \in 1 .. n - 1 : Initializes(k)
ReadyBefore(n) ==
  \E k \in 1 .. n - 1 :
    /\ Classify(frames[k]) = "notification" /\ frames[k].method = "notifications/initialized"
    /\ frames[k].syntax = "fine" /\ InitializedBefore(k)

Dispatched(n) == Fresh(n) /\ WithinLimits(n) /\ (Initializes(n) => InitializedBefore(n))

Expected(n) ==
  LET m == frames[n] IN
  CASE Classify(m) \in {"parseError", "invalidRequest"} -> {Classify(m)}
    [] Classify(m) \in {"response", "notification"} -> {}
    [] IsRequest(n) /\ ~Fresh(n) -> {"invalidRequest"}
    [] Fresh(n) /\ ~WithinLimits(n) -> {"requestLimit"}
    [] Initializes(n) /\ ~InitializedBefore(n) -> {"initialize"}
    [] Dispatched(n) ->
         IF ~Known(m) THEN {"methodNotFound", "busy"}
         ELSE IF m.syntax = "params" THEN {"invalidParams", "busy"}
         ELSE IF m.method = "ping" THEN {"pong", "busy"}
         ELSE IF m.method = "initialize" \/ ~ReadyBefore(n) THEN {"invalidRequest", "busy"}
         ELSE IF m.method = "tools/list" THEN {"tools", "busy"} ELSE {}

AnsweredFrames == {output[i].frame : i \in DOMAIN output}
Owed == {n \in DOMAIN frames : Expected(n) # {}} \ AnsweredFrames

(* Each frame gets at most one answer, and the one its predecessors make   *)
(* right: an id is accepted once and within the limits, the lifecycle is   *)
(* followed, a busy server says so.                                        *)
AnswersRight ==
  /\ Cardinality(AnsweredFrames) = Len(output)
  /\ \A i \in DOMAIN output :
       output[i].frame \in DOMAIN frames /\ output[i].answer \in Expected(output[i].frame)

(* When serve returns without an error because the input has ended, every  *)
(* frame that asked for an answer has been answered.                       *)
EofAnswersAll ==
  reader = "done" /\ result = "eof" =>
    Owed = {}

(* No further frame is read, and so no further memory taken, before the    *)
(* one in hand and all before it have been answered, handed to a worker or *)
(* queued, as long as the connection is being served.                      *)
NoReadAhead ==
  [][pump # "reading" /\ pump' = "reading" /\ ~terminalStopped =>
       \A n \in Owed :
         \/ (\E w \in {"worker", "busy"} : pending[w].frame = n)
         \/ (\E i \in DOMAIN busyQueue : busyQueue[i].frame = n)]_vars

(* Every frame that asks for an answer gets it, or serve returns.          *)
FramesSettle == []<>(reader = "done" \/ Owed = {})

(* Once the input, the context or the connection has ended, serve returns. *)
ServeEnds ==
  (pump = "offering" /\ offer # "frame") \/ cancelled \/ fatal \/ terminalStopped ~> reader = "done"

(* Whatever the order in which the queue fills, writes fail and the input  *)
(* ends: nobody waits for ever, neither a client for an answer nor serve   *)
(* for its goroutines.                                                     *)
DispatchCompletes == FramesSettle /\ ServeEnds
===============================================================================
