------------------------------ MODULE ReadPlan ------------------------------
(***************************************************************************)
(* A read: the files asked for become items (navigation/read.go) and the   *)
(* items are divided into pages before the first one is shown              *)
(* (present/read.go).  The cursor then only counts pages.                  *)
(*                                                                         *)
(* An item is a sequence of units that a page boundary may separate: the   *)
(* lines of a source file or the records of an outline; an empty file and  *)
(* a failure are one unit each.  Units are known by their sizes.           *)
(***************************************************************************)
EXTENDS Integers, Sequences, FiniteSets, SequencesExt, FiniteSetsExt, Loops

\* A file that is asked for is [open, size, text, coded, parse, units]: why it
\* does not open, the bytes a read of it takes, why its text is refused, whether
\* its language is known, how a parser leaves it and the units it yields.
----------------------------------------------------------------------------
(* Items.                                                                  *)

Item(kind, units, warned) == [kind |-> kind, units |-> units, warned |-> warned]

Failure(code) == Item(code, <<1>>, FALSE)

Aborts(code) == [item |-> Failure(code), code |-> code, raw |-> 0]

As(item, raw) == [item |-> item, code |-> "none", raw |-> raw]

Content(units, warned) ==
  IF units = <<>> THEN Item("empty", <<1>>, warned) ELSE Item("rows", units, warned)

\* One file of a source read. Only the budgets of the call end the call: what
\* is wrong with the file is an item of its own.
SourceItem(file, raw, room) ==
  IF file.open # "none" THEN As(Failure(file.open), 0)
  ELSE IF file.size > raw THEN Aborts("budget_exceeded")
  ELSE IF file.text # "none" THEN As(Failure(file.text), file.size)
  ELSE IF Len(file.units) > room THEN Aborts("budget_exceeded")
  ELSE As(Content(file.units, FALSE), file.size)

\* One file of an outline; a parser that was stopped ends the call.
OutlineItem(file, raw) ==
  IF file.open # "none" THEN As(Failure(file.open), 0)
  ELSE IF ~ file.coded THEN As(Failure("unsupported_language"), 0)
  ELSE IF file.size > raw THEN Aborts("budget_exceeded")
  ELSE IF file.text # "none" THEN As(Failure(file.text), file.size)
  ELSE IF file.size = 0 THEN As(Content(<<>>, FALSE), 0)
  ELSE IF file.parse = "aborted" THEN Aborts("budget_exceeded")
  ELSE IF file.parse = "failed" THEN As(Failure("parser_failed"), file.size)
  ELSE As(Content(file.units, file.parse = "partial"), file.size)

\* Mutated form: what the files before have read is forgotten.
Next_Forgets(built, file, outline, raw, room) ==
  LET left == room - built.kept
      got == IF left <= 0 THEN Aborts("budget_exceeded")
             ELSE IF outline THEN OutlineItem(file, raw)
             ELSE SourceItem(file, raw, left)
  IN  IF built.code # "none" THEN built
      ELSE IF got.code # "none" THEN [built EXCEPT !.code = got.code]
      ELSE IF Len(got.item.units) > left THEN [built EXCEPT !.code = "budget_exceeded"]
      ELSE [built EXCEPT !.items = Append(@, got.item), !.raw = @ + got.raw,
                         !.kept = @ + Len(got.item.units)]

\* The files are read in order; what they have read and what they keep add up.
NextItem(built, file, outline, raw, room) ==
  LET left == room - built.kept
      got == IF left <= 0 THEN Aborts("budget_exceeded")
             ELSE IF outline THEN OutlineItem(file, raw - built.raw)
             ELSE SourceItem(file, raw - built.raw, left)
  IN  IF built.code # "none" THEN built
      ELSE IF got.code # "none" THEN [built EXCEPT !.code = got.code]
      ELSE IF Len(got.item.units) > left THEN [built EXCEPT !.code = "budget_exceeded"]
      ELSE [built EXCEPT !.items = Append(@, got.item), !.raw = @ + got.raw,
                         !.kept = @ + Len(got.item.units)]

Built(files, outline, raw, room) ==
  Looped(LAMBDA built, k : NextItem(built, files[k], outline, raw, room),
         [items |-> <<>>, code |-> "none", raw |-> 0, kept |-> 0], Len(files))

----------------------------------------------------------------------------
(* Pages. A unit is known by its number over all items; a page is the       *)
(* units from `from`, excluded, to `to`.                                    *)

CursorField == 3   \* the cursor in the header of a partial page

UnitsBefore(items, i) ==
  SumFunctionOnSet([ j \in DOMAIN items |-> Len(items[j].units) ], 1 .. i - 1)

UnitCount(items) == UnitsBefore(items, Len(items) + 1)

\* The numbers of the units of item i on a page.
Segment(items, i, from, to) ==
  { u \in from + 1 .. to :
      u > UnitsBefore(items, i) /\ u <= UnitsBefore(items, i + 1) }

\* A block: its head, the longer word "complete" when it ends its item, its
\* units, and the warnings of the item after its first unit.
BlockSize(item, before, units) ==
  IF units = {} THEN 0
  ELSE 1 + (IF before + Len(item.units) \in units THEN 1 ELSE 0)
         + SumFunction([ u \in units |-> item.units[u - before] ])
         + (IF item.warned /\ before + 1 \in units THEN 1 ELSE 0)

PageSize(items, from, to, complete) ==
  (IF complete THEN 0 ELSE CursorField)
  + SumFunction([ i \in DOMAIN items |->
                    BlockSize(items[i], UnitsBefore(items, i), Segment(items, i, from, to)) ])

PageFits(items, from, to, complete, bytes) == PageSize(items, from, to, complete) <= bytes

\* The most units a partial page can take, by bisection between `low`, known
\* to fit, and `high`.
Halved(items, from, range, bytes) ==
  LET middle == range.low + (range.high - range.low + 1) \div 2
  IN  IF range.low >= range.high THEN range
      ELSE IF PageFits(items, from, from + middle, FALSE, bytes)
        THEN [low |-> middle, high |-> range.high]
      ELSE [low |-> range.low, high |-> middle - 1]

Largest(items, from, most, bytes) ==
  Looped(LAMBDA range, k : Halved(items, from, range, bytes), [low |-> 1, high |-> most], most).low

Page(from, to, complete) == [from |-> from, to |-> to, complete |-> complete]

\* The pages so far and the units on them, or why there are none.
Planned(pages, at) == [pages |-> pages, at |-> at, code |-> "none"]

Refused(code) == [pages |-> <<>>, at |-> 0, code |-> code]

\* One page more: all that is left, or else as much as fits with a cursor.
NextPage(plan, items, bytes, maxPages) ==
  LET from == plan.at
      count == UnitCount(items)
      to == from + Largest(items, from, count - from - 1, bytes)
  IN  IF plan.code # "none" \/ from = count THEN plan
      ELSE IF PageFits(items, from, count, TRUE, bytes)
        THEN Planned(Append(plan.pages, Page(from, count, TRUE)), count)
      ELSE IF ~ PageFits(items, from, from + 1, FALSE, bytes) \/ count - from = 1
        THEN Refused("record_exceeds_budget")
      ELSE IF Len(plan.pages) + 1 >= maxPages
        THEN Refused("budget_exceeded")
      ELSE Planned(Append(plan.pages, Page(from, to, FALSE)), to)

PlanRead(items, bytes, maxPages) ==
  Looped(LAMBDA plan, k : NextPage(plan, items, bytes, maxPages), Planned(<<>>, 0), UnitCount(items))

----------------------------------------------------------------------------
(* What a read promises.                                                   *)

\* A division of the units: `ends` are the units that end a partial page.
Paged(items, bytes, ends) ==
  \A from \in {0} \cup ends :
    LET later == { to \in ends : to > from }
    IN  IF later = {} THEN PageFits(items, from, UnitCount(items), TRUE, bytes)
        ELSE PageFits(items, from, Min(later), FALSE, bytes)

Divisible(items, bytes, maxPages) ==
  \E ends \in SUBSET (1 .. UnitCount(items) - 1) :
    Cardinality(ends) < maxPages /\ Paged(items, bytes, ends)

\* Nothing is lost and nothing repeated: each unit is on one page, the pages
\* follow each other, only the last is complete, and each fits its size with
\* the cursor it shows. A read is refused only when no division would do:
\* filling every page is as good as any other way.
PlanRight(items, bytes, maxPages) ==
  \E planned \in {PlanRead(items, bytes, maxPages)} :
     IF planned.code # "none" THEN ~ Divisible(items, bytes, maxPages)
     ELSE LET pages == planned.pages
          IN  /\ Len(pages) <= maxPages
              /\ pages[1].from = 0 /\ pages[Len(pages)].to = UnitCount(items)
              /\ \A n \in DOMAIN pages :
                   /\ pages[n].from < pages[n].to
                   /\ n > 1 => pages[n].from = pages[n - 1].to
                   /\ pages[n].complete <=> n = Len(pages)
                   /\ PageFits(items, pages[n].from, pages[n].to, pages[n].complete, bytes)

\* What one file of a read has read.
RawSize(file, outline) ==
  IF file.open # "none" \/ (outline /\ ~ file.coded) THEN 0 ELSE file.size

\* A read of one file, with room for it.
Alone(file, outline) == Built(<<file>>, outline, file.size, Len(file.units) + 1)

\* One file that fails spoils no other: a call that succeeds has an item for
\* each file, in order, and it is the one a read of that file alone would give.
\* It fails exactly when the files together read or keep too much, or when a
\* parser was stopped.
ItemsRight(files, outline) ==
  LET alone == [ i \in DOMAIN files |-> Alone(files[i], outline) ]
      raw == SumFunction([ i \in DOMAIN files |-> RawSize(files[i], outline) ])
      kept == SumFunction([ i \in DOMAIN files |-> alone[i].kept ])
      stopped == \E i \in DOMAIN files : alone[i].code # "none"
  IN  \A maximum \in {raw, raw - 1} \cap Nat, room \in {kept, kept - 1} \cap Nat :
        LET built == Built(files, outline, maximum, room)
        IN  /\ (built.code = "none") <=> (raw <= maximum /\ kept <= room /\ ~ stopped)
            /\ built.code = "none" =>
                 built.items = [ i \in DOMAIN files |-> alone[i].items[1] ]
=============================================================================
