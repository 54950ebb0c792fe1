----------------------------- MODULE Navigation -----------------------------
(***************************************************************************)
(* What the navigation calls are made of: scans in pages (ScanPages), the  *)
(* lines of a text (TextLines) and of the bytes of a file (TextDecode),    *)
(* the matching lines of a file with their context (TextSearch), the pages *)
(* of a read (ReadPlan), what a parser leaves of a file (Outline), and the *)
(* cache behind every parse (ParseCache).                                  *)
(*                                                                         *)
(* A scan is a state machine over many calls; the others are algorithms on *)
(* an input of their own, which nothing else touches.  A behaviour is a    *)
(* scan, or one such input: `input` is what a text, a file, a read or the  *)
(* cache was given, and "none" in a scan.                                  *)
(***************************************************************************)
EXTENDS ScanPages, TextDecode, TextSearch, GlobMatch, JsonScan, ReadPlan, Outline, ParseCache

CONSTANTS TextSize,    \* texts have at most this many characters
          ByteFiles,   \* the files whose bytes are decoded
          SearchLines, \* files that are searched at most this many lines
          MaxContext,  \* and a search at most this many lines of context
          ReadFiles,   \* the files of reads,
          ReadFileMax, \* so many of them at most
          UnitSizes,   \* the sizes of the units of a read,
          UnitMax,     \* so many units at most
          PageSizes,   \* on pages of these sizes
          CacheUses,   \* so many uses of the cache at most
          Chunks,      \* the pieces of the patterns of names,
          ChunkMax,    \* so many pieces at most
          Paths,       \* the paths the patterns are tried on
          MarkdownLines, \* the lines of Markdown texts,
          MarkdownSize,  \* of so many of them at most
          SyntaxTrees, \* the trees that are recorded, with their languages
          RawRecords,  \* the records that are shown,
          RawMax,     \* so many of them at most
          Frames       \* the frames that are scanned, as trees

ASSUME NavigationAssumption ==
  /\ CacheUses \in Nat /\ ChunkMax \in Nat /\ SearchLines \in Nat /\ MaxContext \in Nat
  /\ UnitSizes \subseteq Nat /\ UnitMax \in Nat \ {0} /\ PageSizes \subseteq Nat
  /\ ReadFileMax \in Nat /\ \A file \in ReadFiles : file.size \in Nat /\ file.units \in Seq(Nat)
  /\ Chunks \subseteq Seq(UNION { ToSet(chunk) : chunk \in Chunks })
  /\ \A path \in Paths : path \in Seq(Seq(DOMAIN Orbit)) \ {<<>>}

VARIABLE input

vars == <<tree, ask, budget, lineage, call, sent, told, input>>

Texts == { [kind |-> "text", text |-> text] : text \in BoundedSeq(Characters, TextSize) }

\* A file as its bytes.
Contents == { [kind |-> "bytes", file |-> file] : file \in ByteFiles }

Searches ==
  { [kind |-> "search", lines |-> lines, context |-> context] :
      lines \in BoundedSeq(BOOLEAN, SearchLines), context \in 0 .. MaxContext }

\* One or two items with content.
ItemLists ==
  LET items == { Item("rows", units, warned) :
                   units \in BoundedSeq(UnitSizes, UnitMax) \ {<<>>}, warned \in BOOLEAN }
  IN  { list \in [1 .. 1 -> items] \cup [1 .. 2 -> items] : UnitCount(list) <= UnitMax }

Plans ==
  { [kind |-> "plan", items |-> items, bytes |-> bytes, pages |-> pages] :
      items \in ItemLists, bytes \in PageSizes, pages \in {1, 2, UnitMax} }

Reads ==
  { [kind |-> "read", files |-> files, outline |-> outline] :
      files \in BoundedSeq(ReadFiles, ReadFileMax), outline \in BOOLEAN }

\* A use of the cache: a result is asked for, or put in.
Uses ==
  { [kind |-> "cache", uses |-> uses] :
      uses \in BoundedSeq([put : BOOLEAN, file : Files], CacheUses) }

\* A pattern of names.
Patterns ==
  { [kind |-> "glob", pattern |-> FlattenSeq(chunks)] : chunks \in BoundedSeq(Chunks, ChunkMax) }

Messages == { [kind |-> "frame", frame |-> frame] : frame \in Frames }

\* What is parsed: a text of Markdown, a tree, or records from any parser, with
\* no error or one on the second line.
Parses ==
  { [kind |-> "markdown", text |-> text] : text \in BoundedSeq(MarkdownLines, MarkdownSize) }
  \cup { [kind |-> "syntax", tree |-> syntax.tree, language |-> syntax.language] : syntax \in SyntaxTrees }
  \cup { [kind |-> "records", records |-> records, errors |-> errors] :
            records \in BoundedSeq(RawRecords, RawMax), errors \in {{}, {Lines(2, 2)}} }

NoScan ==
  /\ tree = <<>>
  /\ ask = [mode |-> "none", depth |-> 0, include |-> FALSE, limit |-> 0]
  /\ budget = [files |-> 0, dirs |-> 0, bytes |-> 0, parsed |-> 0, retained |-> 0]
  /\ lineage = [kind |-> "over", st |-> Fresh]
  /\ call = Idle
  /\ sent = <<>>
  /\ told = NoWarnings

Init ==
  \/ ScanInit /\ input = [kind |-> "none"]
  \/ NoScan /\ input \in Texts \cup Contents \cup Searches \cup Patterns \cup Messages \cup Plans \cup Reads
                           \cup Parses \cup Uses

Next == ScanNext /\ UNCHANGED input

Spec == Init /\ [][Next]_vars /\ ScanFairness

----------------------------------------------------------------------------
\* However its ends of lines are written, a text is streamed, limited and cut
\* to a range as its lines say (textio/newlines.go, textio/range.go); in whatever
\* encoding and pieces it comes, its bytes are that text, refused for what is at
\* fault behind it, and read no further than it takes (textio/decode.go,
\* textio/raw_reader.go); an outline of it shows the sections and the symbols
\* that no error touches, in the order a cursor goes on in, or fails for those a
\* cursor could not tell apart (codeparse/markdown_parser.go, tree_sitter.go,
\* projection.go).
TextExact ==
  /\ input.kind = "text" => LinesRight(input.text)
  /\ input.kind = "bytes" => FileRight(input.file)
  /\ input.kind = "markdown" => MarkdownRight(input.text)
  /\ input.kind = "syntax" => TreeRight(input.tree, input.language)
  /\ input.kind = "records" => ResultRight(input.records, input.errors)

\* Whatever pattern compiles, and with or without case: it matches the paths it
\* can be laid over, although the search for that never goes back behind the
\* last asterisk (scanner/glob.go).
PatternsExact == input.kind = "glob" => PatternRight(input.pattern, Paths)

\* Every frame is refused for the layer that is at fault, or let pass with no
\* fault but those its arguments are refused for, and its headers are recovered
\* (jsonwire/scanner.go).
FramesExact == input.kind = "frame" => FrameRight(input.frame)

\* What a call answers from the files it opens: a read has an item for each, in
\* order and its own, or fails for what they need together (navigation/read.go),
\* and its pages divide the items, unless no division would do
\* (present/read.go); a search shows each line within the context of a match
\* once, in order, and refuses just what it cannot keep
\* (navigation/search_consumer.go).
ReadExact ==
  /\ input.kind = "read" => ItemsRight(input.files, input.outline)
  /\ input.kind = "plan" => PlanRight(input.items, input.bytes, input.pages)
  /\ input.kind = "search" => SearchRight(input.lines, input.context)

\* Whatever results came and were asked for again: the cache is charged for what
\* it holds, within both limits, and holds the results used last, as many of
\* them as one after the other ever fitted (codeparse/cache.go).
CacheKeepsRecent == input.kind = "cache" => CacheRight(input.uses)
=============================================================================
