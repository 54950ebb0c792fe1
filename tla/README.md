# A TLA+ model of mcp-file-tools

mcp-file-tools is an MCP server over stdin/stdout that lets a client set a
working directory, list a project, search and read files. One process serves
one connection. Results that do not fit a response are continued with cursors.
These modules model the parts of the server where several goroutines, time and
failure meet, and the algorithms that cut its answers into pages; TLC checks
them on small instances, and TLAPS proves the concurrent core and the memory of
the cursors for every number of calls, every size and every limit, the pages of a
scan for every tree, the cache for every use of it and the matching of names for
every pattern.

Contents: [the system](#the-system) · [modules](#the-modules) ·
[runs](#the-runs) · [fairness](#fairness) · [proofs](#the-proofs) ·
[abstractions](#abstractions-and-what-is-not-modelled) · [plan](#plan)

## The system

| component (under `src/internal`) | state it keeps | operations | correct when |
|---|---|---|---|
| `runtime` admission (`admission.go`, `queue.go`) | active count, FIFO of queued requests, one timer per queued request, state per request | Admit, Start, Cancel, queue timer, WorkerReturned | never more than MaxConcurrent workers, lingering ones included; FIFO; no idle slot while a request waits; one answer per request; no lost wakeup |
| `runtime` leases (`work_lease.go`) | owner, owner generation, noCommit, returned | Transfer, MarkNoCommit, WorkerReturned | slot released once; nothing is published after MarkNoCommit |
| `runtime` sub-work (`sub_limiter.go`) | active count, FIFO of waiters, one unit per parent lease | Acquire, release, terminate on deadline or cancellation | bounded parsers; a granted unit that is no longer wanted is passed on |
| `runtime` fatal (`fatal.go`) | triggering, transition lock, done | Run, RunBeforeFatal | writes and the fatal transition are linearized |
| `mcpstdio` tool calls (`connection.go`, `tool_requests.go`, `concurrency.go`) | registered calls, transaction gate, output places, terminal and async error | admit, run, cancel, respond, shut down | one response or silence per call; shutdown tears nothing and terminates |
| `mcpstdio` frames (`frame.go`, `inbound.go`, `id_registry.go`, `lifecycle.go`) | frame in hand, used ids, lifecycle state, protocol slot and busy queue | read, classify, admit an id, dispatch | no id accepted twice; lifecycle order; every protocol request answered |
| `cursor` registry (`registry.go`, `successor.go`, `accounting.go`, `storage.go`) | lineages and their entries, LRU, slot and byte totals, token index | commit, look up, evict, expire, close | totals exact; a pinned or protected lineage is never evicted; a token resolves while its lineage lives |
| `cursor` publication (`publication.go`) | armed, prepared, terminal; the lineage's phase | Prepare, Commit, Abort, MarkNoCommit | a lineage lives on exactly when its response was delivered |
| `cursor` continuation (`continue.go`) | one computation per entry with its waiters | Continue, cancel a waiter, expire, finish | each waiter gets one outcome; a page is computed once; rollback reaches every descendant |
| `cwd` and `rootfs` leases | directories by id and identity, root handles, borrows | Register, Lookup, sweep, Duplicate, WithBorrow, Close | handle closed once and never under a borrow |
| `scanner`, `navigation` | traversal state, page under construction | advance a page, resume | rows in order, none lost between pages, progress on every page |
| `codeparse` | LRU cache of parse results | Parse | bounded bytes; a parser that outlives its call stays charged |
| `jsonwire` scanner | depth, members, items, bytes of one scan; the names seen | scan a frame, scan a value | refused for the layer at fault, whatever else is wrong in it; headers recovered |
| `scanner/glob.go` | the best restart of a match | compile, match | the greedy match finds every match there is |
| `textio`, `navigation/search_*` | position, lines, rows retained | stream, limit, cut, search | lines as written; a row once, within a context; refusals exact |
| `pathspec`, `navmodel`, `api`, `catalog`, `config` | none that is shared | pure functions | sequential; unit tests reach them |

How they interact. The reader goroutine (`serve`) takes one frame at a time;
a `tools/call` is admitted by the coordinator, takes an output place and gets a
goroutine (`runToolRequest`), which waits for its slot in `Start`, calls the
executor with its `WorkLease`, and writes its response inside a response
transaction. The executor may transfer the lease to a cursor publication or to
a shared continuation. Cancellation comes from the reader, timeouts from queue
timers, panics from anywhere; the fatal signal and the end of input shut the
connection down while calls are still under way.

Hard behaviour, and the property on it, is listed line by line under `hazards`
in `PROJECT.json`.

## The modules

| module | models |
|---|---|
| `BoundedAdmission` | what admission promises: at most MaxConcurrent requests hold a slot, at most QueueMax wait, slots go to the oldest |
| `Coordinator` | `runtime.Coordinator` with its work leases, one action per critical section |
| `StdioConnection` | a connection: the reader, the goroutines of the calls, responses, cursor publications, shutdown and the fatal signal; extends `Coordinator` |
| `ProtocolDispatch` | the frame pump, the reader, used ids, the lifecycle, and the workers that answer what is no tool call |
| `Loops` | a loop as a recursive function of its rounds |
| `ParseCache` | the cache of parse results: order of use, bytes, eviction |
| `ParseService` | `runtime.SubLimiter` under `codeparse.Service`: calls, parser goroutines, the cache; extends `ParseCache` |
| `CursorContinue` | `cursor.Registry` as one lineage sees it: calls that continue it, shared computations, expiry, rollback |
| `CursorRegistry` | the memory of `cursor.Registry`: lineages in their order of use, slots, bytes and reservations against the limits, eviction, rollback, Close |
| `CursorIndex` | the containers under it: the token table, the arena with its generations, sums of fixed width |
| `CursorStore` | both together |
| `CwdRegistry` | `cwd.Registry`, the roots it owns, the leases it gives out and what borrows them |
| `ScanPages` | a listing or a search over many calls: traversal, consumers, budgets, pages, failures |
| `TextLines`, `TextSearch` | lines of a text in a stream, a range, a buffer and a limit; the rows a search of one file keeps |
| `TextDecode` | from the bytes of a file to that text: reads within a budget, marks, encodings; extends `TextLines` |
| `GlobMatch` | compiled patterns and their match |
| `JsonScan` | the scanner of frames and values |
| `ReadPlan` | the items of a read or an outline, and their pages |
| `Outline` | the records a parser leaves of a file: Markdown, a walked tree, the projection |
| `Navigation` | the last eight and the cache, with the questions asked of them; extends them |
| `StdioConnectionProofs`, `ProtocolDispatchProofs`, `ParseServiceProofs`, `CursorContinueProofs`, `CursorStoreProofs`, `CwdRegistryProofs`, `NavigationProofs` | the proofs about the modules they are named after; `StdioConnectionProofs` about `Coordinator`, too, `CursorStoreProofs` about `CursorRegistry` and `CursorIndex`, `NavigationProofs` about `ScanPages`, `GlobMatch`, `ParseCache`, `TextSearch` and `ReadPlan` |
| `CollectionLemmas` | lines without repetitions: removing, appending, dropping; sums over finite sets; the least of some numbers; recursion over numbers; sequences put together from sequences |
| `MCCoordinator`, `MCStdioConnection`, `MCProtocolDispatch`, `MCParseService`, `MCCursorContinue`, `MCCursorRegistry`, `MCCwdRegistry`, `MCNavigation` | symmetry, and the inputs and sizes of the small instances, for TLC |

Definitions whose name is another definition's with a suffix (`FreeSlot_Youngest`)
are mutated forms: the bug a property guards against, used by no behaviour.

### Coordinator

`state[r]` is the request's state, with `"new"` before Admit and `"rejected"`
after AdmitImmediateBudgetExceeded. `queue`, `active` and `requests` are the
fields of the same names, `ready` the requests whose channel is closed, `right`
those whose `ResponseRight` is still to be taken, `timer[r]` the queue timer: *armed*, *firing* (the callback has begun, and `Stop` no longer
helps), *panicked* (its cleanup is still to run) or *off*. `start[r]` is what
Start returned. `lease[r]`, `noCommit` and `marking` are the work lease; a
request is in `marking` between `coordinator.mu.Unlock` in `cancel` and the end
of `lease.MarkNoCommit`. A state in the model is a state in which
`coordinator.mu` is free.

`cancel` is split as the code splits it: `CancelQueued`, `CancelUnstarted`
(running, no lease yet: the slot is freed and the head promoted) and
`CancelWorking` (the worker lingers). The cleanup of a panicking timer has a
case per state it may find. `WorkerReturned` is two steps, the lease's
(`ReturnLease`) and the coordinator's.

### StdioConnection

`phase[r]` says where the goroutine of a request stands; the locks follow from
it and are operators, not variables: `Writers` hold `outputMu` and the fatal
transition, `InTransaction` is the gate's WaitGroup, `HoldsOutput` are the
taken output places, and `request.mu` is held by a canceller while the request
is in `marking` (`MuFree`). `cursor[r]` is the lineage behind the call's
publication, `response[r]` how much of the response left. `reader`, `frame` and
`sweep` are `serve`; `gateStopped`, `terminalStopped`, `fatal`, `asyncError`
and `executorClosed` are the fields and signals of the same names.

The executor is represented by what `navigation` does with a lease: return it
(`ExecutorReturnsLease`, which may come after the call, because a computation
shared with other calls keeps the lease of the call that started it), commit a
cursor lineage (`CommitInitial`), fail to render the committed page
(`RenderFails`), panic or return.

### ProtocolDispatch

The pump (`startFramePump`) reads one frame and keeps it until serve has
acknowledged it, because the bytes are its buffer's. `reader` is where `serve`
stands: selecting, handling a frame, writing an answer of its own, waiting for
room in the busy queue, acknowledging, and the end (`TakeEnd` is `finishEOF`,
`StopAccepting` and `ServeReturns` the deferred function). An answer is written
by the reader itself (errors of a frame, `initialize`), by the goroutine that
holds the protocol slot, or by the worker of the busy queue when the slot was
taken: `pending[w]` is what each of them has to write, `w \in open` says that
it is in a response transaction. `slots` is the open table of used ids; its
limits are the count, the arena of keys and the length of a probe.

A frame is a record of what the code asks of it: which layer is malformed,
version, method, id. A call of a tool only takes its id here; what its goroutine
may do to the connection is `ToolWriteFails` and `FatalRaised`. The context
may be cancelled at any time.

`AnswersRight` compares the output with `Expected`, which is computed from the
frames alone, without table, lifecycle or queue.

### ParseService

`pc[c]` is the place of a call between the critical sections of `Parse` and
`Acquire` (the comment above `Places` lists them); `active`, `waiters` and
`parents` are the limiter's fields, `parser[c]` the call's parser goroutine and
the output it has put into its buffered channel, `lru` and `bytes` the cache,
whose operations are `ParseCache`'s.
A call is in `over` when its context has ended or its deadline has passed: the
code tests the two together and neither reverts. `Release` is `release` with
`promoteHeadLocked`: it ends the dead calls at the head of the line and gives
the unit to the first live one, or frees it. A unit is held by the call while
it is granted and by the parser afterwards, whether or not the call still
waits. The tests of `Acquire` before the lock and under it are separate steps
(`AcquireAllowed`, then `AcquireRefused`, `AcquireAtOnce` or `AcquireQueues`),
and so are the two tests of the call around `classifyParse`.

A file stands for a cache key (path, digest and language), `Footprint` for
`cacheEntryFootprint`. `classifyParse` is abstracted to usable and fatal. The
checks of the input before the cache is asked change nothing and are left out.
The scan limiter is a second instance of the same code with a client that
always waits for its worker.

A call in `Shared` parses for a continuation that other calls may have joined:
giving up takes its own waiter away and leaves the lease to the computation.
Whether anyone else waits is `CursorContinue`'s state, so here `AbortReturns`
may then leave the lease unmarked. Such a call is `over` all the same and
cannot come back for a second unit.

### CursorContinue

One lineage, seen by the calls that present its tokens. `phase`, `pins`, `memo`
and `runtime` are the registry's columns of these names (`phase` is
`"removed"` once the lineage is gone), for the pages `0 .. MaxPages - 2` whose
tokens a client can hold. `age` and `protected` are the clock against
`workExpiresAt`, `commitDeadline` and `protectedUntil`. A computation is named
after the call that started it: `stage[s]` is the line of `handleOutcome` it has
reached, `result[s]` its outcome, `s \in dead` its `noCommit`, and `joined[c]`
the computation to whose list of waiters call `c` is attached. Each action is
one critical section of `Registry.mu`; what its goroutine does after the unlock
(an answer, the return of a lease) touches nothing that is read under the lock.

`handleOutcome` is therefore up to four actions, `Status` (with
`StatusExpires`), `Preview`, `Materialize` and one of `FinishPartial`,
`FinishTerminal`, `FinishDiscarded`, and everything else can fall between them:
`Cancel` and `CancelWaiter`, `WatchDeadline`, a lookup that finds the lineage
expired (`LookupExpires`), `Evict`, `Close`, and the end of the initial
publication (`PublicationCommits`, `PublicationAborts`). `RemoveLineage` is
`removeLineageLocked`: a pinned lineage is only marked and its computations are
cancelled; the last of them removes it. A call knows a token when an answer
contained it (`Known`), so the child of a page can be continued as soon as one
waiter, or a replay, was answered.

### CursorRegistry

All lineages of a connection, without the calls that wait for them. A lineage
is the record of its row in `lineageArena`; its `entries` are the bytes charged
with each page that is resident or a tombstone, and `runtime` the pages that are
being computed. `lru` is the list from `lruHead` to `lruTail`. `Fits`,
`CanAdmit` and `Victims` are `fitsValues`, `canAdmitWithEvictionLocked` and the
loop behind it: idle lineages from the tail, until the newcomer fits.
`CommitInitial` takes room for a read (all of its pages are reserved) or another
lineage (its final summary is reserved), and gives it back when the call's lease
refuses the transfer. `MaterializeReserved` and `MaterializeAdmitted` are the two
ways `materializeSuccessor` pays for a page: out of the reservation, or as new
room for which others may be evicted. `RemoveLineage` only marks a pinned
lineage; `Finish` of its last page then removes it, and after `Close` the last
such removal releases the fixed storage (`released`).

`EvictsOldest` is about the steps in which a lineage grows: whatever disappears
in them was published, idle and unprotected, everything else that is idle was
used later, and one victim fewer would not have made enough room.

### CursorIndex, CursorStore

`table` is `tokenIndex`: `Insert` probes from the home slot, `Delete` shifts
back what follows the gap, until an empty slot. `arena` is the list of free
places and the generation of each place, which are numbers from one on; a reference is a place with the
generation it had, and `stale` remembers the references that were given up.
`Shift` is one turn of the loop of `delete`, whose probe goes on counting where the
code counts again from the hole: the vacant slot that ends it comes first.
`figures` are the parts of a size that `checkedAdd` adds up in `Width` bits. The table is checked under any installs and removals that keep to the
arena's capacity, which is what the registry does to it, and `CursorStore` runs
registry, table and sums as alternatives: none of them reads another's state.
The index and the arena of lineages are written like those of tokens and entries.

### CwdRegistry

`root`, `known`, `expires` and `next` are `byID`, `byIdentity`, the deadlines and
the next id of `cwd.Registry`. `RegisterKnown`, `RegisterFull`, `RegisterNew` and
both lookups sweep first, as the code does. Every platform handle has a variable
that says whether it is open, and `Shut` turns a second close into `"broken"`.
A lease (`using`) is held, asked to close while something borrows it, or closed;
the borrow hands its callback a `view`, whose operations pass (`BeginOperation`),
open their entry later under the lease's lock (`Open`), and may still be at it
when the callback has returned: `Return` revokes the view, `EndBorrow` waits for
them. `denied` remembers an operation that had passed its view and did not find
the handle.

### ScanPages

`lineage` is what the client's cursor stands for, `call` the call at work on a
copy of it: `Begin` and `Continue` start one, `EmitRow` moves a row to the page,
`Process` opens the next object of the frontier, `PageFull`, `DeadlinePage` and
`Finish` end the call with a page, `CallFails` without. A first call that fails
leaves nothing behind and may be made again. One that goes on with a cursor has then
no successor, and `finishTerminal` (or, past its deadline, `finishDiscarded`)
removes the lineage: it is `"lost"`, as `FinishTerminal` has it in `CursorContinue`.
`Forget` is the same between two calls, by expiry, eviction or `Close`, and when
the call for the summary fails. An entry of a tree has a
kind, an identity, what an open of it meets (`fate`), the rows it yields and what
they cost. `Visit`, `Read`, `Enumerate` and `Apply` are `processDirectory`,
`processFile`, `enumerate` and `applyResult` with their limits; `Text` and
`Symbols` are the consumers. `Late` is a deadline inside a read, after some of the
file was read and charged.

`RowsBut` and `WarningsBut` define what a scan must deliver from the tree alone,
by reachability. `RowsExact` holds in every state, so also when a client gives up
half way.

### Algorithms

`TextLines`, `TextDecode`, `TextSearch`, `GlobMatch`, `JsonScan`, `ReadPlan`,
`Outline` and `ParseCache` define the algorithm as the code runs it (reads cut
short, marks handed out again, a pending CR, restart at the last asterisk, one
pass over tokens with a stack, bisection of a page, open sections) next to what
it must compute, said without it: the lines of a text; the text a file encodes;
the lines within a context; the ways a pattern can be divided over a path; the
faults in each layer of a tree of values; whether some division into pages
exists; where a section ends, what encloses a symbol, which errors touch it; the
longest suffix of uses that fits. `Navigation` takes one input per behaviour.

## The runs

| run | instance | distinct states | shows |
|---|---|---|---|
| `coordinator_safety` | 4 requests, 1 slot, line of 2 | 117 497 | the safety of admission (`WorkBounded`, `LineServed`, `FateDecidedOnce`), and that `Coordinator` implements `BoundedAdmission` |
| `coordinator_liveness` | 3 requests, 1 slot, line of 2 | 48 861 | admitted requests drain without timers or cancellations |
| `stdio_safety` | 2 calls, 1 slot, line of 1 | 466 249 | cancellation silences; cursor iff response; registrations settle |
| `stdio_shutdown` | 2 calls, 1 slot, no line | 60 833 | shutdown and fatal signal against open responses and refusals: nothing torn but by a failure, silence afterwards, everything ends |
| `protocol_dispatch` | 3 frames of 7 kinds, table of 3 ids, queue of 1 | 397 695 | each frame gets the answer its predecessors make right; an end of input leaves nothing unanswered; the pump never runs ahead; nobody waits for ever |
| `parse_service` | 3 calls, 1 parser, cache of one entry | 246 414 | units exact, no overtaking, an abandoned parser bars its call, `Parse` ends although no parser ever does |
| `continue_safety` | 3 calls, lineage of 3 pages | 183 728 | one computation per page, pins and slots exact, answered cursors live, one caller's end is nobody else's |
| `continue_liveness` | 2 calls, lineage of 3 pages | 40 496 | waiters are answered, condemned lineages removed |
| `continue_deadline` | 2 calls, lineage of 3 pages | violation | a finding, see below |
| `registry_storage` | 3 lineages of up to 3 pages, 5 slots, 7 bytes; 4 tokens in 3 places and 8 table slots; sums of 12 bits | 550 950 | totals and order of use exact; tables find what they hold and nothing else; room is made by the oldest idle lineages only |
| `navigation_pages` | scans of 6 trees, 13 requests, 7 budgets; bounded texts, files of bytes, patterns, frames, reads, parses and cache uses | 70 966 | pages of a scan divide the rows of the tree and come to an end; every algorithm equals its definition |
| `root_leases` | 3 selections of 2 directories, room for 1, 1 user, 2 borrowers | 660 894 | handles closed once and never under a borrow; ids keep their directory; leases are released |

Why the bounds are enough. One slot is where promotion matters: with two, a
promotion happens only when both are taken, which is the same situation with an
idle bystander. A line of two orders its members while a further request is
refused. In the connection, two calls are enough for one to run, hold
`outputMu` or linger while the other waits, is promoted, times out or is
cancelled; without a line, in `stdio_shutdown`, the reader refuses the second
call and blocks in `toolOutputs.acquire` or on its own write while the first is
written. In the protocol run three frames are an answer in the slot, one in the
queue or with its worker, and one the reader waits with; two ids share a home
slot at the end of the table, and one key is too long for what is left of the
arena. For the limiter, too,
one unit is where it is handed over; three calls make a line of two whose head
may be dead when the unit comes back. The limiter and its
calls see of the cache only whether a file is in it; with more files and uses it
is checked by `navigation_pages`. In a lineage of
three pages the computation of page 0 may extend it and the one of page 1 meets
the page limit; three calls are a starter, one that joins it or replays its
page, and one that continues from the child at the same time. In the registry a
lineage takes at least two slots and three bytes: five slots and seven bytes
hold two lineages, and the admission or the growth of another one evicts one of
them, or both, or is refused; the homes of the four tokens lie at the end of the
table and collide across it. The arena has a free place whenever there
is room (`RegistryAssumption`), as in the code, where it has as many places as
slots. The trees of a scan have, one each, links back and under two names, every
way an open or a read fails, a listing that breaks off, and a row no page can
hold; each budget is ample but one, which runs out in the middle. Files of bytes
have two characters of one to four bytes, so that marks, pairs and line ends lie
across a chunk of five bytes and across reads of one or two; trees of four nodes
have two definitions around an error and one beside it. Room for one
directory and a clock of two instants past a TTL of one make expiry, refusal and
re-registration of a directory race a lookup and two borrows; `MCSpec` fixes the
first directory, the directories being interchangeable. Requests are symmetric, and
the runs with symmetry check safety only. Nothing else is bounded: every
counter is bounded by the number of requests.

Deadlock is checked in every run. A connection stops only by serving to the
end (`Served`), a coordinator whose requests are all done stutters (`Finished`),
and so does a registry that was closed and released (`Released`). Only a scan, which
is over with its last page or lost, and the leases, whose calls and clock come to an end,
are checked without it.

`MaxFrames`, `MaxTime`, `MaxOps` and the bounds of `MCNavigation` limit inputs and
histories; no limit of the code is left out for them.

**The finding.** `continue_deadline` checks what
`TestCommitDeadlineRespondsBeforeUncooperativeWorkerCleanup` promises, that the
commit deadline answers waiters although their worker is stuck, for every call
that waits in a published lineage. It is violated. A page started while the
lineage is past `workExpiresAt` but still protected loses that protection while
it is computed; another call's lookup then rolls the lineage back.
`cancelLineageWorkLocked` sets `noCommit` and cancels the computation's context
without answering its waiters; `watchDeadline` sees `Canceled`, not
`DeadlineExceeded`, and `expireComputation` refuses `noCommit`. If the
computation does not return (a read that hangs), its waiters wait past the
deadline, until they are cancelled. With computations that do return,
`continue_liveness` shows that everyone is answered.

## Fairness

* `FairSpec` (coordinator): a goroutine that can take a step takes it, a worker
  returns its lease, and `MarkNoCommit` and `WorkerReturned` finish once begun.
  No timer ever has to fire and nobody has to cancel: admitted requests drain
  by promotion alone.
* `FairConnectionSpec`: the same for the goroutines of a connection, for the
  reader once it has a frame or is shutting down, for the fatal transition, and
  for the executor (a call returns: page computation is bounded by the deadlines
  `navigation` sets). The client is assumed to read its responses or to close the
  pipe, because `output.Write` has no deadline; this is a hazard listed without
  a property. No frame ever has to arrive and `serve` need not return unless a
  fatal signal is raised. Weak fairness is enough although writers contend for
  `outputMu`: each of the finitely many calls writes once.
* `FairSpec` (parse service): the deadline of a call passes and its goroutine
  takes its steps. Nothing is asked of parsers, which may run for ever, and no
  call has to parse again.
* `FairSpec` (continuation): time passes, the goroutines of a waiter and of a
  computation take their steps, and a computation returns once its context has
  ended, by cancellation or at the commit deadline. Calls have no deadline of
  their own and nobody has to cancel. `UncooperativeSpec` is the same without
  the promise about computations.
* `FairSpec` (protocol): the pump notices the end of the connection, the reader
  and the workers take their steps, and a write ends, because the client reads it
  or hangs up. No frame has to arrive and the input need not end.
* `ScanFairness`: the client asks for the next page of what it has, and a call at
  work takes its steps, since its goroutine goes on. All of it is weak: which
  step a call takes, and so whether it meets its deadline, fails or gives a page,
  is left open, and so is whether the registry forgets the lineage. Nobody has to
  begin a scan, or to begin again after a first call that failed. `ScanFinishes`
  promises what is left: each call returns, and pages do not follow one another
  for ever, because each has moved the scan; a scan that has shown a page ends with
  its last one, or with a call that fails or a lineage that is removed.
* `FairSpec` (working directories): the callback of a borrow returns and the opens
  it began answer, since computations have deadlines. Nobody has to call, and an
  owner need not close what it holds.

## The proofs

No proof assumes that the set of requests or calls is finite. The only
assumptions are `LimitsAssumption` (MaxConcurrent a positive number, QueueMax a
natural number), which `newCoordinatorWithClockAndFatal` enforces,
`ParseLimitsAssumption`, which `NewSubLimiter` and `NewCache` check,
`ContinueAssumption` (a lineage has at least two pages, as the two commits of
an initial page require), `CwdConstants` (limits and times are natural
numbers, and `None` is no call), `ProtocolAssumption` (ids have a home in the
table and keys a length; the table has a slot for each id that may be used, as
`SessionMaxRequests` and `UsedIDTableSlots` of `config/runtime.go:17` make sure)
and `RegistryAssumption` (limits and sizes are numbers, the arena of lineages is
finite and more than half as long as there are slots: `NewRegistry` makes it as
long), `IndexAssumption` (places are numbered from one on and are few enough for
a table, as `ContainerLayout` makes sure before `newTokenIndex`; homes are slots)
`FiguresAssumption` (the parts of a size are numbers of the width),
`ScanAssumption` (entry 1 of a tree is the one asked for and opens; a directory
comes before what it holds, an object is of one kind under all its names, only a
listing breaks off, a search finds its rows in ascending order),
`OrbitAssumption` (a character is in its own case orbit, which is what
`unicode.SimpleFold` goes around) and `NavigationAssumption` (the bounds on how
many uses and pieces are tried are numbers, a pattern is put together from pieces
that are sequences, a path has a component, and the sizes of files, of units and
of pages are numbers). TLC
evaluates them on every run whose module has them.

**Coordinator** (in `StdioConnectionProofs`)**.** The properties are not inductive: that the head of the queue
may be promoted needs to know that exactly the queued requests are in the queue
and that the count is right, and that needs to know what each lease and timer
says of its request. `IInv` is `TypeOK /\ Books /\ PerRequest`. `Books` is
`SlotAccounting` and `WorkConserving`; `PerRequest` is `Lifecycle` (state,
lease, channel, timer and Start's answer of one request) with `NoLostWakeup`,
`OneAnswerRight` and `CancelledWorkMarked`. Two families of steps do everything to the books: a request leaves the
line (`LeaveQueueBooks`) or frees a slot and promotes the head
(`FreeSlotBooks`); each action is then one of them plus its own bookkeeping.
`NextIInv` puts the actions together, `Invariance` is the temporal theorem, and
its properties follow; of the runs' ones, `WorkBounded`, `LineServed` and
`FateDecidedOnce`. `CoordinatorImplementsAdmission` is the refinement of
`BoundedAdmission` under the mapping *holders = running or lingering, line =
queue*.

**StdioConnection.** `ConnectionUsesCoordinator` proves that each step of a
connection is a step of its coordinator or leaves it alone, so everything above
holds inside a connection (`ConnectionWorkBounded`). `ConnectionInv` is then
inductive relative to `IInv`. The steps of the coordinator are summarised for it
by `Sticky`: admitted stays admitted, what Start returned stays returned. Its
conjuncts are `Placed` (phase against coordinator state), `Answering` (nothing
is written without a claim; claim and cancellation exclude each other except
after a queue timeout), `Marking` (a lease is marked only after a winning
cancellation or the fatal transition: this is why a publication whose response
has begun cannot be rolled back by MarkNoCommit), `Publishing` (how far the
lineage may be) and `Silenced` (what a stopped gate and a raised fatal signal
imply). From it follow, for the runs, `CancelSilences`, `CursorIffDelivered`,
`FrozenAfterFatal` and `ClosedInSilence`, and the types.

`TrackingInv` is inductive relative to both. `ReachableByCancel` is the map of
calls. `Swept`: who is cancelled or swept is past its launch, and the coordinator
has let go of who was cancelled; a panicked call waits for the fatal transition,
which cancels it. `Settling`: a publication that is neither committed nor rolled
back has a live lease without a mark, and a goroutine in one of the places from
which it will be decided; this is what makes a lineage leak when one path forgets
it, and what each of the rollback paths must re-establish. `Torn`: whoever stops a
connection in service leaves an error, and a partial response that nobody is
writing any more has left one, too. `CallsTracked` and `TornOnlyByFailure` follow.

**ProtocolDispatch.** All three safety properties are proved, for any messages,
table and limits. `Bound` is the first frame that `serve` has not decided about:
the frame in hand or on offer, else the next one. As long as `serve` is at work,
`Decided` says that the table holds exactly the ids of the requests before
`Bound` and that the lifecycle is the one these frames lead to; hence what is
decided about `Bound` is what `Expected` computes from the frames alone
(`DecisionExpected`). `TableInv` says that each id lies where a probe finds it;
that a probe of a new id ends at an empty slot needs that the table is not full
(`Registers`). `AnswersInv` and `PlacesInv` are the ledger: an answer that was
decided is right, and is in one place, with a writer, in the busy queue, or out.
`HeldInv` and `EofInv` are the converse, that an answer that is owed is in one of
them and that an end of input is acted upon when none is left. `Control`
(`TypeOK`, `Hands`, `Stopping`, `BusyInv`) is what the three goroutines know of
each other: an answer must not be lost between a busy worker that ends and a
reader that queues. `AnswersRight`, `EofAnswersAll` and, from `Hands`,
`NoReadAhead` follow.

**ParseService.** `LimiterInv` is `LimiterTypeOK`, `Books` (`UnitAccounting`
and `UnitsInUse`) and `ParserKept`: a call with a parser waits for it or is over
for good, and marked unless others may wait for what it computes (`Shared`).
Without this, a call could stand in line for a second unit while its abandoned
parser holds the first, and the count would be off by one; it is kept because
`Parse` abandons a parser only when the call is over, and `Acquire` turns a call
that is over away twice. `ReleaseBooks` is the lemma behind every
hand-over. `UnitsExact`, `AbandonedBarred` (with `NoSecondUnit`: the panic "parent
already owns sub-work" is out of reach) and `NoOvertaking` follow. The cache
does not matter to it: what `Put` returns is never looked into.

**CursorContinue.** All of its safety properties are proved: `HoldingsExact`
(`PinsExact`, `WaitersHeld`, `SlotsCharged`, `CondemnedTogether`), `AdvancesOnce`,
`OthersGoOn` and `CursorsLive`. `IInv` adds
`Computations` to the six invariants: what a computation has done by the stage
it is in. That a finished one leaves a memo behind or a lineage on its way out
is what makes `AdvancesOnce` inductive, for `Start` asks only for no memo and
no running computation; that a publishing one has its memo gives `CursorsLive`;
that a starter waits for its own computation or was answered gives
`SlotsCharged` when it ends. Most steps begin and end no computation: `RunsOn`
covers them all, from who is answered (`Answered`), how computations move
(`MovesOn`) and what becomes of the lineage (`PhaseStep`).

**CursorRegistry** (in `CursorStoreProofs`)**.** Both of its properties are proved. `IInv` has four parts.
`ArenaInv`: each place is `Sound`, that is, clear when it is free, and otherwise
it has its first page, no page beyond the limit, as many pins as computations,
and is charged what it holds. `OrderInv`: the list names each occupied place
once. `ChargeInv`: the totals are the sums over the whole arena, within the
limits; over free places, too, for their terms are zero, so that a step changes
the sum only where it changes the arena. `ReleaseInv` is the end of `Close`.
Every step but `Close` clears some places and gives one a new content
(`ArenaStep`); removal, commit and growth are instances of it. Without the
clear free places the bytes of an evicted lineage could be taken off twice.

Of `StorageExact` the last conjunct, `PlaceFree`, is not an invariant of any
step's own: a lineage that may still grow has a slot reserved that no entry has
taken, so there are fewer entries than slots. For `EvictsOldest`, `Only`
keeps the order of the list (`OnlyFacts`), so that the victims, which are its
end, were all used before every other idle lineage; and they are the fewest that
make room, because `Victims` takes the least number that fits (`LeastNumber`).

**CursorIndex, CursorStore.** `TablesExact` is proved for tables of every size,
any homes and any width. `IndexInv` has, beside the types, `TableInv`, that the
rows of the table are those of the live tokens, once each, and that each is
`Chained`: from its home to its slot, around the end of the table, there is no
vacant slot. This alone makes a probe find it (`ProbedRight`). A deletion breaks it
at one slot, the hole, and `Scanning` is what its loop keeps until the end: every
row is chained if the hole counts as taken, and no row between the hole and the
scan needs it. A row that is moved into the hole leaves a new one and what was
passed does not need that either (`RingOrder`, a fact about three distances on a
ring); a row that is left alone does not need the old one; and at a vacant slot
nothing behind it can need the hole, for it would have to be reached through that
slot. That the loop comes to one, and a probe to its end, is `HalfFull`: the taken
slots are no more than the places, and the table is twice as long. `PlacesInv` says
that a place is free, one token's, or used up for good, and that a reference that was
given up is older than what its place would be given out with next; this is why it
can be valid again only in the last generation, in which a place is not given back.
For the sizes, a recursion over numbers has its result (`Recursion`), a sum that
overflowed once stays so (`AddedUpRight`), and there is one power of two from twice
a number on and below four times it (`OnePower`), so that what `bits.Len64` finds is
it (`SlotsRight`, `LayoutRight`). `StoreInv` puts registry and containers together,
and what is proved of the registry holds in the store.

**CwdRegistry.** All three safety properties are proved. `IInv` adds to `TypeOK`
what each part of the state says of the others. `Named`: the call whose root is
registered under an id was told that id, which is below `next`; `byID` and
`byIdentity` lead to each other; two calls that were told one id asked for one
directory. Without `told[root[id]] = id` a lease could stand for a directory its
caller never heard of, and a root be closed for two entries. `Rooted` is the part
of `HandlesExact` about roots, with the calls that have opened none. `Leased`: a
lease that is asked to close has a borrow left, and only a living one is borrowed,
which `EndBorrow` keeps by closing the handle with the last. `Viewed`: a view that
is at work belongs to a borrow of its lease, so the open behind it cannot be
`denied`. `Swept` and `ClosedOnce` say what the sweep leaves of the tables and
that what it closes was open; the four outcomes of `Register` and both lookups
rest on them (`SweepKeepsNames`, `SweepKeepsRoots`).

**ScanPages** (in `NavigationProofs`)**.** Both of its safety properties are proved of
`Navigation`'s `Spec`, where a scan is one of the questions asked, for every tree,
request, budget and page. They speak of the whole tree, from which `Reached`,
`RowsBut` and `WarningsBut` are computed in one go; the scan has a frontier, and
discovers the tree while it gives rows away. What joins the two is `Caught(st, rows,
cut, n)`: the entries below the rank *n* are done. The rows given and those that
wait are the ones of these entries (`Delivered`), the frontier is the reached
entries from *n* on whose directory lies below *n*, the directories seen and the
warnings are those of the entries below *n*. `cut` are the files a deadline or the
parser budget has left out so far. `ScanInv` says that the client's cursor and the
call at work are each `Caught` at some rank, or, when the call has failed, that
its rows are a beginning (`Broken`): a listing that exceeds a budget comes after the
directory's own row.

That the frontier is enough to go on with is `AheadFacts`: its least entry *e* is
the least reached entry not yet done, because the directory that lists the least
such entry is smaller, hence done. So nothing lies between *n* and *e*, and the
scan is at *e* with the same rows and counts (`NextEntry`). One lemma per kind of
entry (`ClosedProcessed`, `ReadProcessed`, `LateProcessed`, `VisitProcessed`) then
leads from *e* to *e* + 1 through `Effect`, what the specification has the entry
do; for the consumers it is `Yield`, whose rows are sorted and without
duplicates (`DistinctFacts`: a finite set of numbers has one ascending
arrangement). A directory that was opened under a smaller name is known by its
object, and no object is a file under another name (`SeenFacts`).
`Within` keeps the limits of the lineage, without which a page could leave a
state the scanner refuses. `Beyond` is the progress of a call: its frontier is past the entry
it began at, or fewer rows wait; this is why the cursor of a page is never the
one it began with. `Reached` is a recursive function over ranks (`ReachedFacts`),
and the rows are a `FlattenSeq` (`FlattenMore`).

**ParseCache** (in `NavigationProofs`)**.** `CacheKeepsRecent` is proved for every
sequence of uses, footprints and limits. `CacheRight` compares what the cache holds
after a sequence of uses with the longest beginning of the order of use that fits,
use after use; `Eviction` drops one entry after the other from the back. What the
loop over the uses keeps is that the cache holds the order without repetitions and
is charged for exactly what it holds; what the loop of an eviction keeps is that
the entries still there are a beginning of the list that is no shorter than the
longest that fits. It ends there because one entry less is never charged more.

**GlobMatch** (in `NavigationProofs`)**.** `PatternsExact` is proved for every pattern
that compiles, every path, with and without case. `GreedyDivides` is its core and is
used twice, for the segments of a path and for the characters of a segment: the walk
finds a division of the value among the elements exactly when there is one. Two facts
about the walk's position are kept: what is behind it is laid out (`Laid`), and the
elements before the last one that matches many cannot be laid on less of the value
(`Least`). The second is why the search need not go back further: in any division, the
rest behind that element begins no earlier than where the walk has it, and what an
earlier element could still take, this one can take as well. The walk ends because
with each step the pair of what the last such element has taken and the position grows
(`Effort`, a number), so the least counterexample is one with the greatest effort.

**TextSearch** (in `NavigationProofs`)**.** `ReadExact` has three parts. That of a
search is proved for every file and context (`SearchIsRight`). The lines to be shown,
`Wanted`, depend on matches that are still to come. `Seen` is the part of them that
the lines read so far decide, and the invariant `SinkAfter` says that the rows are
those lines, in order and of their kind (`Holds`), that `afterUntil` is where the
context of the last match reaches (`Reaches`), and that `previous` is the line just
read and, without a gap, the ones its context goes back to (`Run`). So a match adds exactly the lines of its context that no row has yet, which are those
above `lastEmitted`; no other line may be among them, as `previous` has no gap. When
a row has no room, there are more lines to be shown than room for them, as the rows
kept until then are different lines of `Wanted`; and when there is, the loop goes on
(`HoldsOr`).

**ReadPlan** (in `NavigationProofs`)**.** The other two parts are proved for every
read. `PlanIsRight`: a page of fewer units is no larger (`SizeGrows`, although the
head, the word that ends an item and the warnings come and go with the units), so the
bisection ends at the most units that fit (`LargestRight`). `Foremost` is the invariant
of the pages: no division whatever has fewer ends up to the unit they have come to. A
page that holds as much as it can comes at least as far as that of a division which
begins no later (`NextEnd`); hence, when the pages run out or one unit does not fit,
no division would do. `ItemsAreRight`: while the files so far have read and kept no
more than they may and none has stopped a parser (`Affords`), the items are those each
file has alone, and what is charged is the sum (`Goes`); from the first file at which
one of these fails, the read has failed. That a file with less room yields the same
item or none (`GotRight`) is what makes an item the file's own.

**Sums and recursion.** The library's induction theorems take an operator as
their parameter, which the provers cannot instantiate. Sums over finite sets are
proved all the same (`CollectionLemmas`), by the least counterexample: of the
finite subsets for which a law fails, one is minimal, and taking a member out of
it contradicts that. `Only`, powers of two, added sizes and the scan of a deletion
are treated in the same way, as functions of a number.

**Model-checked only.** The liveness properties (`RequestsDrain`,
`ShutdownCompletes`, `DispatchCompletes`, `ParseEnds`, `ContinueCompletes`,
`ScanFinishes`, `LeasesReleased`), because TLAPS does not handle fairness and
ENABLED; and the properties that compare the algorithms on texts, parsed files and frames with
their definitions (`TextExact`, `FramesExact`): each has several layers that are recursive over data or written with the folds of the library, of which the
provers have no definition they can expand, and each layer would need its own
induction.

## Abstractions, and what is not modelled

* A response is `none`, `partial` or `whole`. `writeAllowed` is a check before
  `Write`: a write that passed it completes although `stop` comes in between,
  so `EndOutput` has no guard on `terminalStopped`.
* `Expire` is the removal of an expired lineage by the lookup of a client that
  already holds the token. The other causes that remove a lineage while its
  response is written (eviction does not, close cannot) belong to the registry.
* `CancelToolRequest` is the lookup of the call, its cancellation and its removal in
  one step, where `cancelToolRequest` unlocks between them. The sweep at the end of
  `serve` has the steps apart: it takes the calls first and cancels them one by one
  (`ServeStops`, `SweepOne`), whatever became of them since.
* `AcquireFails` stands for the three signals that end the wait for an output
  place.
* `CursorContinue` has one lineage: another one shows only as `Evict`. The byte
  and slot accounting, and with it the refusals of `materializeSuccessor` for
  lack of room, is the choice `MaterializeRefused`. `TimePasses` has three
  instants (work expiry, protection, commit deadline), the ones the code
  compares with. A token of another tool or directory, a state that cannot be
  cloned and a page marked must-terminalize end a call as the modelled
  refusals do.
* In `CursorRegistry` bytes are natural numbers, a root handle or the shared text
  of a read is a fixed number of them, and an arena place stands for itself: the
  generations that tell its occupants apart, the token index and the tombstone
  flag of an entry (it takes the same slot) are not in it. Who waits for a page is
  left out: `Condemn` may come at any time while one is computed. Protection and
  expiry pass independently, because a publication may be prepared late.
  A lineage whose reservation is spent has its summary as its last page, because
  `navigation/dynamic.go:198` spends it and sets `MustTerminalize` together.
* Panics happen inside the executor's call and in queue timers, the places
  where code that is not the connection's runs. Other panics in the connection
  are assertions of its invariants, which the models check as such.
* In `ProtocolDispatch` the response schema is not checked: a static answer always
  encodes. The worker's `Done` and the record of its error are one step with the
  end of its write. Closing the input makes a blocked read return an error
  (`InputEnds`). Which layer of a frame is malformed is a tag of it, the verdict
  of `JsonScan`; the parameters' schema is another.
* Paths in `ScanPages` are ranks: entry *n* is the *n*-th path in the order of the
  sort keys, and an entry's parent comes before it. Sizes are units. Which names a
  pattern, an ignore rule or a language leaves out is a property of the entry.
  The text of a file that is refused is charged whole, but for a deadline or an
  empty parser budget. What a call charges before it fails is of no account: its
  state goes with it. The tree does not change
  while it is scanned, except that an open may find an object gone or replaced.
* `TextLines` counts a character as one byte of canonical text, and neither it nor
  `TextDecode` has deadlines or charges inside a read, which end it like any
  refusal; a raw read gives one, two or `ChunkBytes` bytes. `TextSearch` has a
  line as matched or not. `ReadPlan` has the sizes of units, and no deadline inside a read, which
  ends the call like any refusal. `ParseCache` has the footprint of a result as a
  constant of its key.
* `GlobMatch` takes a class or an escape as one element, so that malformed
  classes, byte limits and a `[` inside a class are not in it. `JsonScan` starts
  from tokens, with the ills a string or a number may have; which error is
  reported at which offset, the capture of array elements, and the mode with raw
  arguments outside a protocol object, which nothing uses, are left out.
* Table, arena and sums of `CursorIndex` are small: eight slots, two generations,
  twelve bits. The bytes of a slot and of a place are those of `ContainerLayout`.
* `Outline` starts from lines of Markdown and nodes of a syntax tree as the parsers
  classify them; names, which `tree_sitter.go` cuts out of the text, are numbers, a
  component is a kind like others, and where a node lies is the grammar's: errors
  are taken to lie on lines of the nodes they are in. Go's declarations are given
  as records.
* The platform files of `rootfs`, the grammars, the text layout, the
  argument decoding of `navigation`, `pathspec` and the JSON schema validator are
  not modelled: system calls, or sequential functions of their input whose cases a
  unit test enumerates. The take and close flags of a `File`, a `Dir` and a
  `SearchTarget` belong to one goroutine each. `PROJECT.json` gives the reason per component.

Behaviours the models bring out, which no doc or test of the repository speaks
against:

* A symbol search whose deadline passes while a file met in a directory is read
  reports that file as `parser_skipped`, for good: the next page goes on after it
  (`Late`).
* A directory first reached under the smaller of its names, at the depth limit,
  is not listed under its shallower name later (`SeenBefore`).
* A call that goes on with a cursor and fails - on a cumulative limit, on a row no
  page can hold, on a deadline in a read of text - loses the rows gathered in that
  call and ends the scan: its cursor has expired and the rest cannot be asked for
  (`CallFails`). Deadlines are harmless only between two objects, once the call
  has made progress, and inside a symbol search.
* A repeated `set_cwd` of a known directory does not renew its time
  (`RegisterKnown` leaves `expires`).
* A JSON or YAML file with a key `a.b` and a key `b` in a key `a` on one line has
  two symbols of one seek key, and is refused as `parser_failed` (`DottedKeys`).
* A `stream` and a `document` of the same lines with nothing else in them are each
  left out for the other (`Survives`), so that the file has no outline.
* `materializeSuccessor` asks for a free place before it evicts anyone. It can
  never be refused for that: the reserved slot of the lineage that grows keeps a
  place free (`PlaceFree` in `CursorRegistry`).

## Plan

What is left: `LinesRight`, by the position in the text; `FileRight` needs, beyond
this, that each encoding is the inverse of its decoder, which is arithmetic on
bytes.
