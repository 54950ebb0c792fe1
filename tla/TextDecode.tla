----------------------------- MODULE TextDecode -----------------------------
(***************************************************************************)
(* From the bytes of a file to the characters that TextLines is given      *)
(* (textio/raw_reader.go, textio/decode.go, textio/newlines.go).           *)
(*                                                                         *)
(* A raw reader fills its chunk as far as its budget lets it and hands out *)
(* byte after byte; the first ones tell the encoding, and those that turn  *)
(* out to be text are handed out again; a decoder makes scalars of them.   *)
(* A read of a first part of the text stops with the end of its last line, *)
(* and looks at as little behind it as it can.                             *)
(***************************************************************************)
EXTENDS TextLines

CONSTANT ChunkBytes  \* config.RangeReadChunkMaxBytes

ASSUME ChunkAssumption == ChunkBytes \in Nat \ {0}

----------------------------------------------------------------------------
(* The raw reader.  `at`: bytes handed out; `read`: bytes read and charged.*)

NoByte == -1

NewReader == [at |-> 0, read |-> 0, byte |-> NoByte, code |-> ""]

\* What fill asks the file for: one byte more than the budget has tells a file
\* that ends there from one that goes on.
ReadSize(reader, wanted, budget) ==
  IF budget = 0 THEN wanted
  ELSE IF reader.read >= budget THEN 1
  ELSE Min({budget - reader.read, wanted})

\* What a read gives: at most `grain` bytes of what is left.
Given(reader, source, wanted) ==
  Min({ReadSize(reader, wanted, source.budget), Len(source.bytes) - reader.read, source.grain})

Filled(reader, source, given) ==
  CASE source.budget # 0 /\ reader.read + given > source.budget ->
         [reader EXCEPT !.read = @ + given, !.byte = NoByte, !.code = "budget_exceeded"]
    [] given = 0 -> [reader EXCEPT !.byte = NoByte]
    [] OTHER -> [reader EXCEPT !.read = @ + given, !.at = @ + 1, !.byte = source.bytes[reader.at + 1]]

\* The next byte, after a read of at most `wanted` when the chunk is used up.
Pulled(reader, source, wanted) ==
  IF reader.code # "" THEN reader
  ELSE IF reader.at < reader.read
    THEN [reader EXCEPT !.at = @ + 1, !.byte = source.bytes[reader.at + 1]]
  ELSE Filled(reader, source, Given(reader, source, wanted))

Pull(reader, source) == Pulled(reader, source, ChunkBytes)

----------------------------------------------------------------------------
(* The encoding.                                                           *)

Marks ==
  [utf8 |-> <<239, 187, 191>>, utf16be |-> <<254, 255>>, utf16le |-> <<255, 254>>,
   utf32be |-> <<0, 0, 254, 255>>, utf32le |-> <<255, 254, 0, 0>>]

Encodings == DOMAIN Marks

Over(reader) == reader.code # "" \/ reader.byte = NoByte

\* A byte more, and whether yet another one can decide.
Detecting(found, reader) ==
  IF Over(reader) THEN [found EXCEPT !.reader = reader, !.stop = TRUE]
  ELSE [reader |-> reader, prefix |-> Append(found.prefix, reader.byte),
        stop |-> ~ \E e \in Encodings :
                     IsStrictPrefix(Append(found.prefix, reader.byte), Marks[e])]

\* The mark of UTF-32LE begins with the one of UTF-16LE.
Longest(encodings) ==
  CHOOSE e \in encodings : \A f \in encodings : Len(Marks[f]) <= Len(Marks[e])

\* What is no mark is handed out again.
Begun(reader, encodings) ==
  IF encodings = {} THEN [encoding |-> "utf8", reader |-> [reader EXCEPT !.at = 0]]
  ELSE [encoding |-> Longest(encodings), reader |-> [reader EXCEPT !.at = Len(Marks[Longest(encodings)])]]

Recognised(found) == Begun(found.reader, { e \in Encodings : IsPrefix(Marks[e], found.prefix) })

Detected(source) ==
  Recognised(FoldLeft(LAMBDA found, n : IF found.stop THEN found
                                        ELSE Detecting(found, Pull(found.reader, source)),
                      [reader |-> NewReader, prefix |-> <<>>, stop |-> FALSE], <<1, 2, 3, 4>>))

----------------------------------------------------------------------------
(* One scalar.                                                             *)

TakenByte(taken, reader) ==
  IF Over(reader) THEN [taken EXCEPT !.reader = reader, !.short = TRUE]
  ELSE [taken EXCEPT !.reader = reader, !.bytes = Append(@, reader.byte)]

\* Bytes until there are `count`, as far as there are any.
Taken(taken, source, count) ==
  FoldLeft(LAMBDA t, n : IF t.short \/ Len(t.bytes) = count THEN t
                         ELSE TakenByte(t, Pull(t.reader, source)),
           taken, <<1, 2, 3, 4>>)

Take(reader, source, count) ==
  Taken([reader |-> reader, bytes |-> <<>>, short |-> FALSE], source, count)

Surrogate == 55296 .. 57343
HighSurrogate == 55296 .. 56319
LowSurrogate == 56320 .. 57343
MaxRune == 1114111

\* The number some bytes stand for, the first or the last the highest.
BigEndian(bytes) == FoldLeft(LAMBDA v, b : 256 * v + b, 0, bytes)
Ordered(encoding, bytes) ==
  IF encoding \in {"utf16le", "utf32le"} THEN BigEndian(Reverse(bytes)) ELSE BigEndian(bytes)

\* The width its first byte promises, 0 for none.
BytesOf(first) ==
  CASE first < 128 -> 1
    [] first \in 194 .. 223 -> 2
    [] first \in 224 .. 239 -> 3
    [] first \in 240 .. 244 -> 4
    [] OTHER -> 0

Smallest == <<0, 128, 2048, 65536>>

Scalar(bytes) ==
  LET width == Len(bytes)
      lead == IF width = 1 THEN bytes[1] ELSE bytes[1] % 2^(7 - width)
  IN  FoldLeft(LAMBDA v, b : 64 * v + (b % 64), lead, Tail(bytes))

ValidUTF8(bytes) ==
  /\ \A i \in 2 .. Len(bytes) : bytes[i] \in 128 .. 191
  /\ Scalar(bytes) >= Smallest[Len(bytes)]
  /\ Scalar(bytes) <= MaxRune /\ Scalar(bytes) \notin Surrogate

Rune(reader, value) == [reader |-> reader, rune |-> value, code |-> ""]
Refuse(reader, code) == [reader |-> reader, rune |-> NoByte, code |-> code]

\* Bytes that are short of a scalar: the budget, the end of the text between two
\* scalars, or a scalar that is cut off.
Cut(taken) ==
  IF taken.reader.code # "" THEN Refuse(taken.reader, taken.reader.code)
  ELSE IF taken.bytes = <<>> THEN Rune(taken.reader, NoByte)
  ELSE Refuse(taken.reader, "unsupported_encoding")

WholeUTF8(taken) ==
  CASE taken.short -> Cut(taken)
    [] ~ taken.short /\ ~ ValidUTF8(taken.bytes) -> Refuse(taken.reader, "unsupported_encoding")
    [] OTHER -> Rune(taken.reader, Scalar(taken.bytes))

FromUTF8(first, source) ==
  IF first.short THEN Cut(first)
  ELSE IF first.bytes[1] = 0 THEN Refuse(first.reader, "binary")
  ELSE IF BytesOf(first.bytes[1]) = 0 THEN Refuse(first.reader, "unsupported_encoding")
  ELSE WholeUTF8(Taken(first, source, BytesOf(first.bytes[1])))

PairUTF16(high, taken, encoding) ==
  CASE taken.short -> Cut(taken)
    [] ~ taken.short /\ Ordered(encoding, SubSeq(taken.bytes, 3, 4)) \notin LowSurrogate ->
         Refuse(taken.reader, "unsupported_encoding")
    [] OTHER -> Rune(taken.reader, 65536 + (high - 55296) * 1024
                                     + (Ordered(encoding, SubSeq(taken.bytes, 3, 4)) - 56320))

UnitUTF16(high, first, source, encoding) ==
  CASE high = 0 -> Refuse(first.reader, "binary")
    [] high \in LowSurrogate -> Refuse(first.reader, "unsupported_encoding")
    [] high \in HighSurrogate -> PairUTF16(high, Taken(first, source, 4), encoding)
    [] OTHER -> Rune(first.reader, high)

FromUTF16(first, source, encoding) ==
  IF first.short THEN Cut(first) ELSE UnitUTF16(Ordered(encoding, first.bytes), first, source, encoding)

UnitUTF32(value, reader) ==
  CASE value = 0 -> Refuse(reader, "binary")
    [] value > MaxRune \/ value \in Surrogate -> Refuse(reader, "unsupported_encoding")
    [] OTHER -> Rune(reader, value)

FromUTF32(taken, encoding) ==
  IF taken.short THEN Cut(taken) ELSE UnitUTF32(Ordered(encoding, taken.bytes), taken.reader)

NextRune(reader, source, encoding) ==
  CASE encoding = "utf8" -> FromUTF8(Take(reader, source, 1), source)
    [] encoding \in {"utf16be", "utf16le"} -> FromUTF16(Take(reader, source, 2), source, encoding)
    [] OTHER -> FromUTF32(Take(reader, source, 4), encoding)

----------------------------------------------------------------------------
(* The lines of a file, through one of them or all.                        *)

Ending(encoding) ==
  CASE encoding = "utf8" -> <<10>>
    [] encoding = "utf16be" -> <<0, 10>>
    [] encoding = "utf16le" -> <<10, 0>>
    [] encoding = "utf32be" -> <<0, 0, 0, 10>>
    [] OTHER -> <<10, 0, 0, 0>>

\* Behind the last carriage return a line feed is looked for, with reads that
\* ask for no more than it takes.
Looking(reader, expected) == [reader |-> reader, stop |-> reader.byte # expected]

Passed(reader, source, ending) ==
  FoldLeftDomain(LAMBDA looked, n :
                   IF looked.stop THEN looked
                   ELSE Looking(Pulled(looked.reader, source, Len(ending) - n + 1), ending[n]),
                 [reader |-> reader, stop |-> FALSE], ending).reader

CharacterOf(rune) == CASE rune = 13 -> "cr" [] rune = 10 -> "lf" [] OTHER -> "x"

GivenUp(stream, reader) == [stream EXCEPT !.reader = reader, !.code = reader.code, !.over = TRUE]

Ended(stream, reader) ==
  [stream EXCEPT !.reader = reader, !.emitter = Finished(@), !.over = TRUE]

\* The emitter has seen the last character of the text.
Written(stream, through) ==
  [stream EXCEPT !.emitter = Emit(@, stream.text, Len(stream.text), through, Len(stream.text))]

Emitted(stream, reader, character, through) ==
  IF reader.code # "" THEN GivenUp(stream, reader)
  ELSE Written([stream EXCEPT !.reader = reader, !.text = Append(@, character)], through)

\* A scalar goes to the emitter, or the text is over, or given up.
Streaming(stream, next, source, through) ==
  CASE next.code # "" -> GivenUp(stream, [next.reader EXCEPT !.code = next.code])
    [] next.code = "" /\ next.rune = NoByte -> Ended(stream, next.reader)
    [] next.rune = 13 /\ through # 0 /\ Len(stream.emitter.lines) + 1 = through ->
         Emitted(stream, Passed(next.reader, source, Ending(stream.encoding)), "cr", through)
    [] OTHER -> Emitted(stream, next.reader, CharacterOf(next.rune), through)

StreamFrom(detected, source, through) ==
  FoldLeft(LAMBDA stream, n :
             IF stream.over \/ stream.emitter.done THEN stream
             ELSE Streaming(stream, NextRune(stream.reader, source, stream.encoding), source, through),
           [reader |-> detected.reader, encoding |-> detected.encoding, text |-> <<>>,
            emitter |-> NewEmitter, code |-> "", over |-> FALSE],
           [n \in 1 .. Len(source.bytes) + 1 |-> n])

StreamedFile(source, through) == StreamFrom(Detected(source), source, through)

----------------------------------------------------------------------------
(* What a file stands for, and what it takes to know it.                   *)

\* The bytes of a number, the highest first.
Digits(value, base, count) ==
  [n \in 1 .. count |-> (value \div base^(count - n)) % base]

InUTF8(rune) ==
  LET width == CHOOSE w \in 1 .. 4 : /\ rune >= Smallest[w]
                                     /\ w < 4 => rune < Smallest[w + 1]
      digits == Digits(rune, 64, width)
  IN  IF width = 1 THEN <<rune>>
      ELSE [n \in 1 .. width |-> IF n = 1 THEN <<0, 192, 224, 240>>[width] + digits[1]
                                 ELSE 128 + digits[n]]

InUTF16(rune) ==
  IF rune < 65536 THEN Digits(rune, 256, 2)
  ELSE Digits(55296 + ((rune - 65536) \div 1024), 256, 2)
         \o Digits(56320 + ((rune - 65536) % 1024), 256, 2)

Swapped(bytes) == <<bytes[2], bytes[1]>> \o IF Len(bytes) = 4 THEN <<bytes[4], bytes[3]>> ELSE <<>>

Encoded(encoding, rune) ==
  CASE encoding = "utf8" -> InUTF8(rune)
    [] encoding = "utf16be" -> InUTF16(rune)
    [] encoding = "utf16le" -> Swapped(InUTF16(rune))
    [] encoding = "utf32be" -> Digits(rune, 256, 4)
    [] OTHER -> Reverse(Digits(rune, 256, 4))

\* The text of a file, the bytes that come before it and behind it.
FileBytes(file) ==
  (IF file.marked THEN Marks[file.encoding] ELSE <<>>)
    \o FlattenSeq([n \in DOMAIN file.runes |-> Encoded(file.encoding, file.runes[n])])
    \o file.rest

\* Where character n ends.
Offset(file, n) == Len(FileBytes([file EXCEPT !.runes = SubSeq(@, 1, n), !.rest = <<>>]))

\* In whatever encoding, and however the reads cut it up: a file has the lines of
\* its text, a part of it needs no more than that part to be right, the budget
\* refuses what it does not cover and nothing else, what was read is charged, and
\* a read goes on behind a part by less than a chunk.
FileRight(file) ==
  LET bytes == FileBytes(file)
      text == [n \in DOMAIN file.runes |-> CharacterOf(file.runes[n])]
      lines == LinesOf(text)
      ends == SetToSortSeq(Ends(text), <)
      Source(grain, budget) == [bytes |-> bytes, grain |-> grain, budget |-> budget]
  IN  \A grain \in {1, 2, ChunkBytes} : \A through \in 0 .. Len(ends) + 1 :
        LET part == through \in DOMAIN ends
            end == IF part THEN Offset(file, ends[through]) ELSE Len(bytes)
            \* A line feed that belongs to the end, or the width of one to see there is none.
            needed == IF part /\ text[ends[through]] = "cr" THEN end + Len(Ending(file.encoding))
                      ELSE end
            wanted == IF part THEN SubSeq(lines, 1, through) ELSE lines
        IN  \E whole \in {StreamedFile(Source(grain, 0), through)} :
              /\ whole.over \/ whole.emitter.done
              /\ whole.code = IF part THEN "" ELSE file.fault
              /\ part \/ file.fault = "" => whole.emitter.lines = wanted
              /\ part => whole.reader.read - end < ChunkBytes
              /\ \A budget \in {needed - 1, needed} \cap 1 .. Len(bytes) :
                   \E cut \in {StreamedFile(Source(grain, budget), through)} :
                     /\ cut.reader.read <= budget + 1
                     /\ budget < end => cut.code # ""
                     /\ budget >= needed => cut.code = whole.code /\ cut.emitter = whole.emitter
                     /\ budget < end /\ file.fault = "" => cut.code = "budget_exceeded"
=============================================================================
