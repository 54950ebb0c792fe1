----------------------------- MODULE TextSearch -----------------------------
(***************************************************************************)
(* The sink of a text search (navigation/search_consumer.go): it is given  *)
(* the lines of one file in order, once, and collects the rows of the      *)
(* matching lines with their context.  A line is abstracted to whether the *)
(* pattern matches it; a row keeps the number of its line and its kind.    *)
(* The lines before a match are kept in `previous` until they fall out of  *)
(* the context; `afterUntil` is the last line that is context of an        *)
(* earlier match; `lastEmitted` keeps a line from being emitted twice when *)
(* the contexts of two matches overlap.                                    *)
(***************************************************************************)
EXTENDS Integers, Sequences, FiniteSets, FiniteSetsExt, SequencesExt, Loops

TextRow(kind, line) == [kind |-> kind, line |-> line]

EmptySink == [previous |-> <<>>, afterUntil |-> 0, lastEmitted |-> 0,
              rows |-> <<>>, exceeded |-> FALSE]

\* The first line that is still context of line n.
Lower(n, context) == IF n > context THEN n - context ELSE 1

\* What falls out of the context is at the front.
Pruned(previous, n, context) ==
  LET near == { i \in DOMAIN previous : previous[i] >= Lower(n, context) }
  IN  IF context = 0 \/ near = {} THEN <<>> ELSE SubSeq(previous, Min(near), Len(previous))

\* One more row, unless the rows kept for the page exceed their budget: the
\* sink then refuses the line and the search of the file ends.
Appended(sink, kind, line, room) ==
  IF sink.exceeded \/ Len(sink.rows) >= room
    THEN [sink EXCEPT !.exceeded = TRUE]
    ELSE [sink EXCEPT !.rows = Append(@, TextRow(kind, line)), !.lastEmitted = line]

\* The kept lines that a match on line n turns into context rows.
Preceding(sink, n, context, room) ==
  Looped(LAMBDA above, k :
           LET line == sink.previous[k]
           IN  IF line >= Lower(n, context) /\ line > above.lastEmitted
                 THEN Appended(above, "context", line, room)
               ELSE above,
         sink, Len(sink.previous))

Match(sink, n, context, room) ==
  [Appended(Preceding(sink, n, context, room), "match", n, room) EXCEPT !.afterUntil = n + context]

Consumed(sink, n, matched, context, room) ==
  LET pruned == [sink EXCEPT !.previous = Pruned(@, n, context)]
      emitted == IF matched THEN Match(pruned, n, context, room)
                 ELSE IF n <= pruned.afterUntil THEN Appended(pruned, "context", n, room)
                 ELSE pruned
  IN  IF sink.exceeded THEN sink
      ELSE IF context # 0 THEN [emitted EXCEPT !.previous = Append(@, n)]
      ELSE emitted

Searched(lines, context, room) ==
  Looped(LAMBDA sink, n : Consumed(sink, n, lines[n], context, room), EmptySink, Len(lines))

----------------------------------------------------------------------------
(* What a search with context promises: every line within `context` lines  *)
(* of a match once, in order, the matching lines told from the others.     *)
Wanted(lines, context) ==
  { n \in DOMAIN lines : \E m \in DOMAIN lines : lines[m] /\ m \in n - context .. n + context }

Shows(rows, lines, wanted) ==
  /\ { rows[i].line : i \in DOMAIN rows } = wanted
  /\ \A i, j \in DOMAIN rows : i < j => rows[i].line < rows[j].line
  /\ \A i \in DOMAIN rows : rows[i].kind = IF lines[rows[i].line] THEN "match" ELSE "context"

\* The sink refuses exactly what its budget cannot hold, and otherwise yields
\* what is promised. Matches close together, with contexts that overlap, touch
\* or leave a gap, are where the sink's three counters could lose a line or
\* emit it twice.
SearchRight(lines, context) ==
  LET wanted == Wanted(lines, context)
      size == Cardinality(wanted)
  IN  \A room \in {size - 1, size} \cap Nat :
        LET sink == Searched(lines, context, room)
        IN  IF size > room THEN sink.exceeded
            ELSE ~ sink.exceeded /\ Shows(sink.rows, lines, wanted)
=============================================================================
