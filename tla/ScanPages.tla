------------------------------ MODULE ScanPages ------------------------------
(***************************************************************************)
(* One scan of a directory tree - a project listing or a search - cut into *)
(* pages (internal/scanner, and internal/navigation as its caller).        *)
(*                                                                         *)
(* The scan keeps a frontier of entries still to open, ordered by path,    *)
(* the rows of the last entry that no page has taken yet, what the lineage *)
(* has spent, its warnings and the directories it has listed.  A call      *)
(* works on a copy: it moves rows to its page, opens the next entry when   *)
(* none is left, and ends with a page and the copy as the next cursor, or  *)
(* fails.  The client goes on with the cursor it holds; a call that fails  *)
(* on it takes the lineage with it.                                        *)
(*                                                                         *)
(* Paths are abstracted to their rank: entry n of a tree is the n-th path  *)
(* in the order of the scan, entry 1 the one asked for, and a directory    *)
(* comes before what it holds.  Two entries with one `id` are one object   *)
(* reached by two names (links are followed).                              *)
(***************************************************************************)
EXTENDS Integers, Sequences, FiniteSets, SequencesExt

CONSTANTS Trees,       \* trees, sequences of entries
          Requests,    \* [mode, depth, include, limit]
          Budgets,     \* [files, dirs, bytes, parsed, retained]
          PageBytes    \* what a page can hold

CursorBytes == 1       \* the cursor a partial page shows

Codes == {"changed", "unreadable", "symlink", "special", "mount", "encoding",
          "binary", "parser_skipped", "parser_partial"}

\* What an open that fails, or opens another object, is reported as.
OpenWarning == [gone |-> "changed", swapped |-> "changed", denied |-> "unreadable",
                link |-> "symlink", crossing |-> "mount", device |-> "special"]

\* Entries that are reported without being opened.
ListedWarning == [symlink |-> "symlink", special |-> "special", boundary |-> "mount",
                  unnamed |-> "encoding"]

Modes == {"project", "file", "text", "symbol"}

Entries ==
  [up : Nat, depth : Nat, kind : {"dir", "file"} \cup DOMAIN ListedWarning, id : Nat,
   skip : {"no", "git", "vendor"}, fate : {"same", "torn"} \cup DOMAIN OpenWarning,
   width : Nat, wanted : BOOLEAN, coded : BOOLEAN, read : {"ok"} \cup Codes, size : Nat,
   hits : Seq(Nat), names : Seq(Nat), parse : {"clean", "partial", "fatal"}]

\* A directory comes before what it holds, an object is of one kind under all its
\* names, only a listing breaks off, and a search finds its rows in their order.
Orderly(t) ==
  /\ t[1].up = 1 /\ t[1].kind \in {"dir", "file"} /\ t[1].fate \notin DOMAIN OpenWarning
  /\ \A n \in DOMAIN t \ {1} : t[n].up \in 1 .. n - 1
  /\ \A n, m \in DOMAIN t : t[n].id = t[m].id => t[n].kind = t[m].kind
  /\ \A n \in DOMAIN t : t[n].fate = "torn" => t[n].kind = "dir"
  /\ \A n \in DOMAIN t : \A i, j \in DOMAIN t[n].hits : i < j => t[n].hits[i] < t[n].hits[j]

ASSUME ScanAssumption ==
  /\ \A t \in Trees : t \in Seq(Entries) \ {<<>>} /\ Orderly(t)
  /\ Requests \subseteq [mode : Modes, depth : Nat, include : BOOLEAN, limit : Nat \ {0}]
  /\ Budgets \subseteq [files : Nat, dirs : Nat, bytes : Nat, parsed : Nat, retained : Nat]

VARIABLES tree, ask, budget, \* what is asked: chosen once
          lineage,           \* [kind, st]: what the client's cursor stands for, if it has one
          call,              \* [on, st, out, progressed, late]: the call at work
          sent,              \* history: the rows of the pages delivered
          told               \* history: the warnings of the last page

scanVars == <<tree, ask, budget, lineage, call, sent, told>>

NoWarnings == [c \in Codes |-> 0]

Fresh == [frontier |-> {}, pending |-> <<>>, files |-> 0, dirs |-> 0, bytes |-> 0,
          parsed |-> 0, warned |-> NoWarnings, seen |-> {}, code |-> "none"]

Idle == [on |-> FALSE, st |-> Fresh, out |-> <<>>, progressed |-> FALSE, late |-> FALSE]

Row(e, key) == [at |-> e, key |-> key]

Rows(e, keys) == [i \in DOMAIN keys |-> Row(e, keys[i])]

Explicit == tree[1].kind = "file"

ScanInit ==
  /\ tree \in Trees
  /\ ask \in Requests
  /\ ask.mode = "project" => ~ Explicit
  /\ budget \in Budgets
  /\ lineage = [kind |-> "new", st |-> Fresh]
  /\ call = Idle
  /\ sent = <<>>
  /\ told = NoWarnings

----------------------------------------------------------------------------
(* What a lineage may spend and keep.                                      *)

Retained(st) == Cardinality(st.frontier) + Len(st.pending)

Failed(st, code) == [st EXCEPT !.code = code]

Warned(st, warning) == [st EXCEPT !.warned[warning] = @ + 1]

----------------------------------------------------------------------------
(* The consumers: the rows of one object, or why it has none.              *)

\* What the name alone tells: a file the pattern or the language leaves out
\* is not opened.
Selects(e) ==
  \/ tree[e].kind # "file"
  \/ ask.mode = "project"
  \/ tree[e].wanted /\ (ask.mode = "symbol" => tree[e].coded)

Nothing == [rows |-> <<>>, warning |-> "none", code |-> "none", content |-> 0, parser |-> 0]

Stops(code) == [Nothing EXCEPT !.code = code]

\* A file that yields nothing: an error when it is the one asked for by name,
\* a warning when it was met in a directory.
Unread(result, problem) ==
  IF Explicit THEN [result EXCEPT !.code = problem] ELSE [result EXCEPT !.warning = problem]

Exceeds(size, left) == left = 0 \/ size > left

\* `hits` are the rows a search of the whole text finds (TextSearch).
Text(st, e) ==
  LET read == [Nothing EXCEPT !.content = tree[e].size]
  IN  IF Exceeds(tree[e].size, budget.bytes - st.bytes) THEN Stops("budget_exceeded")
      ELSE IF Len(tree[e].hits) > budget.retained - Retained(st)
        THEN Stops("record_exceeds_budget")
      ELSE IF tree[e].read # "ok" THEN Unread(read, tree[e].read)
      ELSE [read EXCEPT !.rows = Rows(e, tree[e].hits)]

Symbols(st, e) ==
  LET size == tree[e].size
      read == [Nothing EXCEPT !.content = size]
      parsed == [read EXCEPT !.parser = size]
      named == [parsed EXCEPT !.rows = Rows(e, tree[e].names)]
  IN  IF Exceeds(size, budget.bytes - st.bytes) THEN Stops("budget_exceeded")
      ELSE IF budget.parsed = st.parsed THEN Unread(Nothing, "parser_skipped")
      ELSE IF Exceeds(size, budget.parsed - st.parsed) THEN Unread(read, "parser_skipped")
      ELSE IF tree[e].read # "ok" THEN Unread(read, tree[e].read)
      ELSE IF tree[e].parse = "fatal" THEN Unread(parsed, "parser_skipped")
      ELSE IF tree[e].parse = "partial" THEN [named EXCEPT !.warning = "parser_partial"]
      ELSE named

Consume(st, e) ==
  IF ask.mode = "project" THEN [Nothing EXCEPT !.rows = <<Row(e, 0)>>]
  ELSE IF tree[e].kind # "file" THEN Nothing
  ELSE IF ask.mode = "symbol" /\ ~ tree[e].coded THEN Stops("unsupported_language")
  ELSE IF ~ tree[e].wanted THEN Nothing
  ELSE CASE ask.mode = "file" -> [Nothing EXCEPT !.rows = <<Row(e, 0)>>]
         [] ask.mode = "text" -> Text(st, e)
         [] ask.mode = "symbol" -> Symbols(st, e)

\* Mutated form: the rows that wait for a page are not counted.
Listed_PendingFree(st, units) == Cardinality(st.frontier \cup units) > budget.retained

\* What the listing of a directory would keep does not fit.
Listed(st, units) == Retained(st) + Cardinality(units) > budget.retained

\* Sorted, without duplicates.
Ascending(keys) ==
  CHOOSE q \in [1 .. Cardinality(keys) -> keys] : \A i, j \in DOMAIN q : i < j => q[i] < q[j]

Distinct(e, rows) == Rows(e, Ascending({ row.key : row \in ToSet(rows) }))

\* The result of a consumer enters the state: charged, warned, sorted and
\* without duplicates.
Apply(st, e, result) ==
  LET charged == [st EXCEPT !.bytes = @ + result.content, !.parsed = @ + result.parser]
      warned == IF result.warning = "none" THEN charged ELSE Warned(charged, result.warning)
  IN  IF result.code # "none" THEN Failed(st, result.code)
      ELSE IF Len(result.rows) > budget.retained - Retained(st)
        THEN Failed(st, "record_exceeds_budget")
      ELSE [warned EXCEPT !.pending = IF result.rows = <<>> THEN @
                                      ELSE Distinct(e, result.rows)]

----------------------------------------------------------------------------
(* One entry at a time.                                                    *)

Children(e) == { c \in DOMAIN tree : tree[c].up = e /\ c # e }

\* Version control never shows; the usual build directories only on request.
Skipped(c) ==
  \/ tree[c].skip = "git"
  \/ tree[c].skip = "vendor" /\ tree[c].kind = "dir" /\ ~ ask.include

Units(e) ==
  { c \in Children(e) : tree[c].kind \in {"dir", "file"} /\ ~ Skipped(c) /\ Selects(c) }

\* The entries of a directory that are only reported.
Reported(e, warning) ==
  { c \in Children(e) : /\ tree[c].kind \in DOMAIN ListedWarning
                        /\ ListedWarning[tree[c].kind] = warning
                        /\ ~ Skipped(c) }

\* A listing that breaks off keeps its warnings and none of its entries.
Enumerate(st, e) ==
  LET size == Cardinality(Children(e))
      listed == [st EXCEPT !.bytes = @ + size,
                           !.warned = [c \in Codes |-> @[c] + Cardinality(Reported(e, c))]]
  IN  IF size > budget.bytes - st.bytes THEN Failed(st, "budget_exceeded")
      ELSE IF Listed(st, Units(e)) THEN Failed(st, "budget_exceeded")
      ELSE IF tree[e].fate = "torn" THEN Warned(listed, "unreadable")
      ELSE [listed EXCEPT !.frontier = @ \cup Units(e)]

\* A directory seen under an earlier name shows its row and is not listed
\* again: that is what ends a cycle of links.
Visit(st, e) ==
  LET again == tree[e].id \in st.seen
      opened == [st EXCEPT !.seen = @ \cup {tree[e].id},
                           !.dirs = IF again THEN @ ELSE @ + 1]
      shown == Apply(opened, e, Consume(opened, e))
  IN  IF ~ again /\ st.dirs >= budget.dirs THEN Failed(st, "budget_exceeded")
      ELSE IF shown.code # "none" \/ again \/ tree[e].depth >= ask.depth THEN shown
      ELSE Enumerate(shown, e)

Read(st, e) ==
  LET opened == [st EXCEPT !.files = @ + 1]
  IN  IF st.files >= budget.files THEN Failed(st, "budget_exceeded")
      ELSE Apply(opened, e, Consume(opened, e))

\* The entry asked for is already open; it is the first row.
Opening == IF Explicit THEN Read(Fresh, 1) ELSE Visit(Fresh, 1)

First(st) == Min(st.frontier)

Popped(st) == [st EXCEPT !.frontier = @ \ {First(st)}]

ProcessNext(st) ==
  LET e == First(st)
      fate == tree[e].fate
  IN  IF fate \in DOMAIN OpenWarning THEN Warned(Popped(st), OpenWarning[fate])
      ELSE IF tree[e].kind = "dir" THEN Visit(Popped(st), e)
      ELSE Read(Popped(st), e)

\* The deadline passes while a symbol search reads a file met in a directory:
\* like a file too large to parse, the file is left out, and what was read of
\* it is charged.
Late(st, read) ==
  [Warned(Popped(st), "parser_skipped") EXCEPT !.files = @ + 1, !.bytes = @ + read]

----------------------------------------------------------------------------
(* Pages.                                                                  *)

Width(rows) == FoldLeft(LAMBDA sum, row : sum + tree[row.at].width, 0, rows)

\* The page, with the cursor it may have to show, holds these rows.
Fits(rows) == CursorBytes + Width(rows) <= PageBytes

WarningsShown(st) == Cardinality({c \in Codes : st.warned[c] > 0})

Begin ==
  /\ lineage.kind = "new" /\ ~ call.on
  /\ call' = [Idle EXCEPT !.on = TRUE, !.st = Opening, !.progressed = TRUE]
  /\ UNCHANGED <<tree, ask, budget, lineage, sent, told>>

\* The client asks again: the call works on a copy of the state.
Continue ==
  /\ lineage.kind = "scan" /\ ~ call.on
  /\ call' = [Idle EXCEPT !.on = TRUE, !.st = lineage.st]
  /\ UNCHANGED <<tree, ask, budget, lineage, sent, told>>

Running == call.on /\ call.st.code = "none"

\* A row waits that this page cannot take.
Overfull ==
  /\ call.st.pending # <<>>
  /\ \/ Len(call.out) = ask.limit
     \/ ~ Fits(Append(call.out, Head(call.st.pending)))

EmitRow ==
  /\ Running
  /\ call.st.pending # <<>>
  /\ ~ Overfull
  /\ call' = [call EXCEPT !.out = Append(@, Head(call.st.pending)),
                          !.st.pending = Tail(@),
                          !.progressed = TRUE]
  /\ UNCHANGED <<tree, ask, budget, lineage, sent, told>>

Drained == Running /\ call.st.pending = <<>>

\* One more object, although the page may be full: a page with nothing left
\* behind it must be the last.
Process ==
  /\ Drained /\ call.st.frontier # {} /\ ~ call.late
  /\ call' = [call EXCEPT !.st = ProcessNext(@), !.progressed = TRUE]
  /\ UNCHANGED <<tree, ask, budget, lineage, sent, told>>

ProcessCut ==
  LET e == First(call.st)
  IN  /\ Drained /\ call.st.frontier # {} /\ ~ call.late
      /\ ask.mode = "symbol"
      /\ tree[e].kind = "file" /\ tree[e].fate \notin DOMAIN OpenWarning
      /\ call.st.files < budget.files
      /\ budget.bytes > call.st.bytes /\ budget.parsed > call.st.parsed
      /\ \E read \in 0 .. tree[e].size :
           /\ read <= budget.bytes - call.st.bytes
           /\ call' = [call EXCEPT !.st = Late(@, read), !.progressed = TRUE, !.late = TRUE]
      /\ UNCHANGED <<tree, ask, budget, lineage, sent, told>>

\* Mutated form: the cursor keeps the state the call began with.
Partial_Stale ==
  /\ sent' = sent \o call.out
  /\ lineage' = [lineage EXCEPT !.kind = "scan"]
  /\ call' = Idle
  /\ UNCHANGED <<tree, ask, budget, told>>

\* A page goes out with a cursor for the rest.
Partial ==
  /\ sent' = sent \o call.out
  /\ lineage' = [kind |-> "scan", st |-> call.st]
  /\ call' = Idle
  /\ UNCHANGED <<tree, ask, budget, told>>

PageFull ==
  /\ Running /\ Overfull
  /\ call.out # <<>>
  /\ Partial

\* Mutated form: a page need not have moved the scan.
DeadlinePage_Idle ==
  /\ Drained /\ call.st.frontier # {}
  /\ Partial

\* The deadline or a cancellation ends a call between two objects: what it
\* has done so far is a page, empty or not.
DeadlinePage ==
  /\ Drained /\ call.st.frontier # {}
  /\ call.progressed
  /\ Partial

\* All is delivered: the warnings go on the last page, or on one of their own
\* when they do not fit.
Finish ==
  /\ Drained /\ call.st.frontier = {}
  /\ sent' = sent \o call.out
  /\ call' = Idle
  /\ \/ /\ Width(call.out) + WarningsShown(call.st) <= PageBytes
        /\ lineage' = [kind |-> "over", st |-> call.st]
        /\ told' = call.st.warned
     \/ /\ Width(call.out) + WarningsShown(call.st) > PageBytes
        /\ lineage' = [kind |-> "summary", st |-> call.st]
        /\ UNCHANGED told
  /\ UNCHANGED <<tree, ask, budget>>

ShowSummary ==
  /\ lineage.kind = "summary"
  /\ lineage' = [lineage EXCEPT !.kind = "over"]
  /\ told' = lineage.st.warned
  /\ UNCHANGED <<tree, ask, budget, call, sent>>

\* A call fails on a limit, on a row no page can hold, on a deadline before
\* any progress, on a cancelled read, and on a page the registry has no room
\* for.  A first call has left nothing behind and may be made again; one that
\* goes on with a cursor ends without a successor, which removes the lineage:
\* the cursor has expired (finishTerminal, finishDiscarded).
CallFails ==
  /\ call.on
  /\ \/ call.st.code # "none"
     \/ call.st.pending = <<>>
     \/ Overfull
  /\ call' = Idle
  /\ lineage' = IF lineage.kind = "new" THEN lineage ELSE [lineage EXCEPT !.kind = "lost"]
  /\ UNCHANGED <<tree, ask, budget, sent, told>>

\* Between two calls the registry removes the lineage - it expires, makes room
\* for another or the connection closes - or the call for the summary fails.
Forget ==
  /\ lineage.kind \in {"scan", "summary"} /\ ~ call.on
  /\ lineage' = [lineage EXCEPT !.kind = "lost"]
  /\ UNCHANGED <<tree, ask, budget, call, sent, told>>

CallStep == EmitRow \/ Process \/ ProcessCut \/ PageFull \/ DeadlinePage \/ Finish \/ CallFails

ScanNext == Begin \/ Continue \/ ShowSummary \/ CallStep \/ Forget

\* The client asks for the next page of what it has, and a call at work goes on;
\* whether it meets its deadline, fails or gives a page is left open.
ScanFairness ==
  /\ WF_scanVars(Continue) /\ WF_scanVars(ShowSummary)
  /\ WF_scanVars(CallStep)

----------------------------------------------------------------------------
(* What a scan promises, told without pages, frontier or calls.            *)

\* The entries that are reached, by rank: those listed by a directory that is
\* reached, opens, is shallow enough and was not seen under a smaller name.
Opens(e) == tree[e].fate \notin DOMAIN OpenWarning

SeenBefore(e, reached) == \E d \in reached : d < e /\ Opens(d) /\ tree[d].id = tree[e].id

\* The directories that are read, to their end or not.
Enumerated(reached) ==
  { d \in reached : /\ tree[d].kind = "dir" /\ Opens(d) /\ tree[d].depth < ask.depth
                    /\ ~ SeenBefore(d, reached) }

Lists(d, reached) == d \in Enumerated(reached) /\ tree[d].fate # "torn"

Reached ==
  LET reached[n \in 0 .. Len(tree)] ==
        IF n = 0 THEN {}
        ELSE IF n = 1 \/ (n \in Units(tree[n].up) /\ Lists(tree[n].up, reached[n - 1]))
          THEN reached[n - 1] \cup {n}
        ELSE reached[n - 1]
  IN  reached[Len(tree)]

\* The files whose text is looked at.
Looked(reached) ==
  { e \in reached : /\ tree[e].kind = "file" /\ Opens(e) /\ tree[e].wanted
                    /\ ask.mode \in {"text", "symbol"}
                    /\ ask.mode = "symbol" => tree[e].coded }

\* The rows one object is worth when nothing limits the scan.
RowsOf(e) ==
  CASE ask.mode = "project" -> <<Row(e, 0)>>
    [] ask.mode = "file" ->
         IF tree[e].kind = "file" /\ tree[e].wanted THEN <<Row(e, 0)>> ELSE <<>>
    [] ask.mode = "text" ->
         IF e \in Looked({e}) /\ tree[e].read = "ok"
           THEN Rows(e, tree[e].hits) ELSE <<>>
    [] ask.mode = "symbol" ->
         IF e \in Looked({e}) /\ tree[e].read = "ok" /\ tree[e].parse # "fatal"
           THEN Rows(e, Ascending(ToSet(tree[e].names))) ELSE <<>>

\* The rows of a scan that leaves out the files of `cut`.
RowsBut(reached, cut) ==
  FlattenSeq([ e \in DOMAIN tree |->
                 IF e \in reached \ cut /\ Opens(e) THEN RowsOf(e) ELSE <<>> ])

\* Why an object shows less than its name promises.
Reason(e, reached, cut) ==
  IF ~ Opens(e) THEN OpenWarning[tree[e].fate]
  ELSE IF tree[e].fate = "torn" /\ tree[e].depth < ask.depth /\ ~ SeenBefore(e, reached)
    THEN "unreadable"
  ELSE IF e \notin Looked({e}) THEN "none"
  ELSE IF e \in cut THEN "parser_skipped"
  ELSE IF tree[e].read # "ok" THEN tree[e].read
  ELSE IF ask.mode = "symbol" /\ tree[e].parse = "fatal" THEN "parser_skipped"
  ELSE IF ask.mode = "symbol" /\ tree[e].parse = "partial" THEN "parser_partial"
  ELSE "none"

\* What a scan warns of: every object counts, once, for its reason.
WarningsBut(reached, cut) ==
  [ c \in Codes |->
      Cardinality({ e \in reached : Reason(e, reached, cut) = c })
      + Cardinality(UNION { Reported(d, c) : d \in Enumerated(reached) }) ]

\* What may be left out, and is then counted: a file the deadline or the parser
\* budget cut off in a symbol search.
Cuttable(reached) == IF ask.mode = "symbol" /\ ~ Explicit THEN Looked(reached) ELSE {}

\* Whatever the pages, the limits and the deadlines between them:
\* the rows delivered and about to be delivered are, in order and once each,
\* the rows of the tree, and a scan that ends has delivered them all and told
\* of every object it could not show.
RowsExact ==
  LET reached == Reached
  IN  /\ \E cut \in SUBSET Cuttable(reached) :
           IsPrefix(sent \o call.out \o call.st.pending, RowsBut(reached, cut))
      /\ lineage.kind = "over" =>
           \E cut \in SUBSET Cuttable(reached) :
             sent = RowsBut(reached, cut) /\ told = WarningsBut(reached, cut)

\* The scanner accepts this state: within every limit of the lineage, and with
\* something left to do.
Resumable(st) ==
  /\ st.code = "none" /\ Retained(st) \in 1 .. budget.retained
  /\ st.files <= budget.files /\ st.dirs <= budget.dirs
  /\ st.bytes <= budget.bytes /\ st.parsed <= budget.parsed

\* A page with a cursor moves the scan, to a state that can be resumed. The
\* cursor registry condemns a continuation whose successor is where it began,
\* and the scanner refuses a state beyond its limits (validAdvanceInputs).
CursorsResume ==
  [][PageFull \/ DeadlinePage => Resumable(lineage'.st) /\ lineage' # lineage]_scanVars

\* Every call returns, and pages do not go on for ever, however deadlines divide
\* the scan among them: a scan that has shown a page comes to its last one,
\* unless a call fails or the registry drops it.
ScanFinishes ==
  /\ call.on ~> ~ call.on
  /\ (lineage.kind = "scan") ~> (lineage.kind \in {"over", "lost"})

ScanSpec == ScanInit /\ [][ScanNext]_scanVars /\ ScanFairness
=============================================================================
