----------------------------- MODULE TextLines ------------------------------
(***************************************************************************)
(* The text of a file as lines (textio/newlines.go), the range of lines a  *)
(* read selects (textio/range.go), and a whole text in a buffer            *)
(* (textio/lines.go).                                                      *)
(*                                                                         *)
(* A text is a sequence of characters: "x" stands for any character of a   *)
(* line, "cr" and "lf" end one, and "cr" followed by "lf" ends one line,   *)
(* not two.  The emitter sees one character at a time.  A line is the      *)
(* sequence of the positions of its characters.                            *)
(***************************************************************************)
EXTENDS Integers, Sequences, FiniteSets, SequencesExt

Characters == {"x", "cr", "lf"}

\* `skip`: a carriage return ended the line, a line feed next belongs to it;
\* `code`: why the text was given up; `done`: the last line asked for is out.
NewEmitter == [lines |-> <<>>, line |-> <<>>, bytes |-> 0, finalLF |-> FALSE,
               skip |-> FALSE, code |-> "", done |-> FALSE]

Exceeded(emitter) == [emitter EXCEPT !.code = "budget_exceeded"]

Newline(emitter, limit) ==
  IF emitter.bytes = limit THEN Exceeded(emitter)
  ELSE [emitter EXCEPT !.bytes = @ + 1, !.lines = Append(@, emitter.line), !.line = <<>>,
                       !.finalLF = TRUE, !.skip = FALSE]

Character(emitter, position, limit) ==
  IF emitter.bytes >= limit THEN Exceeded(emitter)
  ELSE [emitter EXCEPT !.bytes = @ + 1, !.line = Append(@, position),
                       !.finalLF = FALSE, !.skip = FALSE]

\* Mutated form: every carriage return and every line feed ends a line.
Emit_Twice(emitter, text, position, through, limit) ==
  LET ended == Newline(emitter, limit)
  IN  IF emitter.code # "" \/ emitter.done THEN emitter
      ELSE IF text[position] = "x" THEN Character(emitter, position, limit)
      ELSE [ended EXCEPT !.done = through # 0 /\ Len(ended.lines) = through]

Emit(emitter, text, position, through, limit) ==
  LET ended == Newline(emitter, limit)
      last == through # 0 /\ Len(ended.lines) = through
  IN  IF emitter.code # "" \/ emitter.done THEN emitter
      ELSE IF emitter.skip /\ text[position] = "lf" THEN [emitter EXCEPT !.skip = FALSE]
      ELSE IF text[position] = "x" THEN Character(emitter, position, limit)
      ELSE [ended EXCEPT !.done = last,
                         !.skip = text[position] = "cr" /\ ~ last /\ ended.code = ""]

\* Text after the last line end is a line too.
Finished(emitter) ==
  IF emitter.code # "" \/ emitter.done \/ emitter.line = <<>> THEN emitter
  ELSE [emitter EXCEPT !.lines = Append(@, emitter.line), !.line = <<>>, !.finalLF = FALSE]

Streamed(text, through, limit) ==
  Finished(FoldLeftDomain(LAMBDA emitter, position : Emit(emitter, text, position, through, limit),
                          NewEmitter, text))

----------------------------------------------------------------------------
(* The range a read selects.                                               *)

RangeLine(number, line) == [number |-> number, line |-> line]

\* The lines the sink copied, or why it gave up: the text is read through the
\* last line asked for only, and a range that starts after the end of a text
\* that has lines is an error.
Ranged(text, start, end, room) ==
  LET read == Streamed(text, end, Len(text))
      count == Len(read.lines)
      rows == [ i \in 1 .. (IF count < start THEN 0 ELSE count - start + 1) |->
                  RangeLine(start + i - 1, read.lines[start + i - 1]) ]
  IN  IF Len(rows) > room THEN [rows |-> <<>>, code |-> "budget_exceeded"]
      ELSE IF count # 0 /\ start > count THEN [rows |-> <<>>, code |-> "invalid_input"]
      ELSE [rows |-> rows, code |-> ""]

----------------------------------------------------------------------------
(* A whole text in a buffer: a line end behind every line, the last one    *)
(* taken away when the text has none, and where each line starts and ends. *)

Buffer(sink, line, limit) ==
  LET end == sink.bytes + Len(line)
  IN  IF end + 1 > limit + 1 THEN [sink EXCEPT !.code = "budget_exceeded"]
      ELSE [sink EXCEPT !.bytes = end + 1, !.offsets = Append(@, [start |-> sink.bytes, end |-> end])]

Buffered(text, limit) ==
  LET read == Streamed(text, 0, limit)
      sink == FoldLeft(LAMBDA sink, line : IF sink.code # "" THEN sink ELSE Buffer(sink, line, limit),
                       [bytes |-> 0, offsets |-> <<>>, code |-> ""], read.lines)
  IN  IF sink.code # "" THEN sink
      ELSE IF read.code # "" THEN [sink EXCEPT !.code = read.code]
      ELSE IF ~ read.finalLF /\ sink.offsets # <<>> THEN [sink EXCEPT !.bytes = @ - 1]
      ELSE sink

----------------------------------------------------------------------------
(* What the lines of a text are, seen whole.                               *)

\* Where lines end.
Ends(text) ==
  { i \in DOMAIN text : \/ text[i] = "cr"
                        \/ text[i] = "lf" /\ (i = 1 \/ text[i - 1] # "cr") }

\* The characters between two ends, `to` excluded.
Between(text, from, to) ==
  SetToSortSeq({ i \in from + 1 .. to - 1 : text[i] = "x" }, <)

\* Every end closes a line; what follows the last is a line unless empty.
LinesOf(text) ==
  LET ends == <<0>> \o SetToSortSeq(Ends(text), <)
      closed == [ n \in 1 .. Len(ends) - 1 |-> Between(text, ends[n], ends[n + 1]) ]
      rest == Between(text, Last(ends), Len(text) + 1)
  IN  IF rest = <<>> THEN closed ELSE Append(closed, rest)

\* Its size once every end of line is one character.
CanonicalSize(text) == Cardinality(Ends(text)) + Cardinality({ i \in DOMAIN text : text[i] = "x" })

\* However the ends of lines are written, and wherever the range stops: the
\* lines of a text are the ones between its ends, a read through line n stops
\* with that line, the size limit refuses exactly the texts that are larger, in
\* a stream as in a buffer, whose lines lie one behind the other, and a range selects its lines, is cut at the end of the text, and is refused
\* when it starts behind it.
LinesRight(text) ==
  LET lines == LinesOf(text)
      size == CanonicalSize(text)
      last == Len(lines) + 1
  IN  /\ \A through \in 0 .. last :
           LET read == Streamed(text, through, Len(text))
           IN  /\ read.code = ""
               /\ read.lines = IF through \in DOMAIN lines THEN SubSeq(lines, 1, through)
                               ELSE lines
      /\ \A limit \in {size - 1, size} \cap Nat :
           /\ (Streamed(text, 0, limit).code = "") <=> (size <= limit)
           /\ (Buffered(text, limit).code = "") <=> (size <= limit)
      /\ \E buffer \in {Buffered(text, size)} :
           /\ buffer.bytes = size
           /\ Len(buffer.offsets) = Len(lines)
           /\ \A n \in DOMAIN lines :
                /\ buffer.offsets[n].end - buffer.offsets[n].start = Len(lines[n])
                /\ buffer.offsets[n].start = IF n = 1 THEN 0 ELSE buffer.offsets[n - 1].end + 1
      /\ \A start \in 1 .. last : \A end \in start .. last :
           LET picked == DOMAIN lines \cap (start .. end)
               ranged == Ranged(text, start, end, Cardinality(picked))
           IN  /\ ranged.code = IF lines # <<>> /\ start > Len(lines)
                                  THEN "invalid_input" ELSE ""
               /\ ToSet(ranged.rows) = { RangeLine(n, lines[n]) : n \in picked }
               /\ Len(ranged.rows) = Cardinality(picked)
=============================================================================
