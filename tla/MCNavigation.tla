--------------------------- MODULE MCNavigation ---------------------------
(* Scans of small trees in pages, and the text and read algorithms over    *)
(* bounded inputs.                                                         *)
EXTENDS Navigation

\* Entries: parents, depths, and what makes them interesting.
Entry(up, depth, kind) ==
  [up |-> up, depth |-> depth, kind |-> kind, id |-> 0, skip |-> "no", fate |-> "same",
   width |-> 1, wanted |-> TRUE, coded |-> TRUE, read |-> "ok", size |-> 2, hits |-> <<1, 2>>,
   names |-> <<2, 1, 2>>, parse |-> "clean"]

File(up, depth) == Entry(up, depth, "file")

Dir(up, depth) == [Entry(up, depth, "dir") EXCEPT !.size = 0]

Lost(up, depth, fate) == [File(up, depth) EXCEPT !.fate = fate]

\* Every entry is its own object unless it says otherwise.
Numbered(entries) ==
  [n \in DOMAIN entries |->
     IF entries[n].id = 0 THEN [entries[n] EXCEPT !.id = n] ELSE entries[n]]

\* A link back to the root, a wide row, a listing that breaks off.
TreeLinks ==
  Numbered(<<Dir(1, 0), Dir(1, 1), File(1, 1), [Dir(2, 2) EXCEPT !.id = 1],
             [File(2, 2) EXCEPT !.width = 2], [Dir(1, 1) EXCEPT !.fate = "torn"],
             Entry(6, 2, "symlink"), File(6, 2)>>)

\* One directory under two names, at two depths.
TreeAlias ==
  Numbered(<<Dir(1, 0), Dir(1, 1), [Dir(2, 2) EXCEPT !.id = 9], File(3, 3),
             [Dir(1, 1) EXCEPT !.id = 9], File(5, 2)>>)

\* Skipped names, files that cannot be searched, parsed or matched.
TreeFates ==
  Numbered(<<Dir(1, 0), Lost(1, 1, "gone"), [Dir(1, 1) EXCEPT !.skip = "git"],
             [File(1, 1) EXCEPT !.parse = "partial"], [File(1, 1) EXCEPT !.read = "binary"],
             [Dir(1, 1) EXCEPT !.skip = "vendor"], File(6, 2),
             [File(1, 1) EXCEPT !.parse = "fatal"], [File(1, 1) EXCEPT !.coded = FALSE],
             [File(1, 1) EXCEPT !.wanted = FALSE], Entry(1, 1, "special")>>)

\* Every way an entry is only reported.
TreeReports ==
  Numbered(<<Dir(1, 0), Lost(1, 1, "swapped"), Lost(1, 1, "denied"), Lost(1, 1, "link"),
             Lost(1, 1, "crossing"), Lost(1, 1, "device"), Entry(1, 1, "boundary"),
             Entry(1, 1, "unnamed"), [File(1, 1) EXCEPT !.read = "encoding"]>>)

\* One file, asked for by name.
TreeAlone == Numbered(<<[File(1, 0) EXCEPT !.size = 4, !.hits = <<1, 2, 3, 4>>]>>)

\* A row no page can hold, in the middle.
TreeHuge == Numbered(<<Dir(1, 0), File(1, 1), [File(1, 1) EXCEPT !.width = 9], File(1, 1)>>)

MCTrees == {TreeLinks, TreeAlias, TreeFates, TreeReports, TreeAlone, TreeHuge}

Ask(mode, depth, limit) == [mode |-> mode, depth |-> depth, include |-> FALSE, limit |-> limit]

MCRequests ==
  { Ask("project", depth, limit) : depth \in 0 .. 2, limit \in {1, 3} }
  \cup { Ask(mode, 99, limit) : mode \in {"file", "text", "symbol"}, limit \in {1, 3} }
  \cup { [Ask("project", 2, 3) EXCEPT !.include = TRUE] }

\* Every budget is ample but one.
Ample == [files |-> 99, dirs |-> 99, bytes |-> 99, parsed |-> 99, retained |-> 99]

MCBudgets ==
  {Ample, [Ample EXCEPT !.retained = 4], [Ample EXCEPT !.retained = 3],
   [Ample EXCEPT !.files = 2], [Ample EXCEPT !.dirs = 1], [Ample EXCEPT !.bytes = 8],
   [Ample EXCEPT !.parsed = 5]}

\* Files in every encoding, with the ends of lines and characters of every width
\* (among them some whose bytes look like marks or ends of lines), with and
\* without the mark where it may be missing, and followed by what is no text.
Bytes(encoding, marked, runes, rest, fault) ==
  [encoding |-> encoding, marked |-> marked, runes |-> runes, rest |-> rest, fault |-> fault]

MCFaults ==
  LET coding(rest) == [rest |-> rest, fault |-> "unsupported_encoding"]
      binary(rest) == [rest |-> rest, fault |-> "binary"]
      utf16 == {coding(<<120>>), coding(<<216, 216>>), coding(<<220, 220>>), binary(<<0, 0>>)}
      utf32 == {coding(<<120>>), coding(<<10, 0, 0>>), coding(<<0, 216, 216, 0>>), binary(<<0, 0, 0, 0>>)}
  IN  [utf8 |-> {coding(<<192, 128>>), coding(<<237, 160, 128>>), coding(<<226, 130>>), binary(<<0>>)},
       utf16be |-> utf16, utf16le |-> utf16, utf32be |-> utf32, utf32le |-> utf32]

MCByteFiles ==
  LET runes == BoundedSeq({10, 13, 120, 256, 64511, 65216, 65536}, 2)
  IN  { Bytes(encoding, TRUE, text, <<>>, "") : encoding \in Encodings, text \in runes }
      \cup { Bytes("utf8", FALSE, text, <<>>, "") : text \in runes }
      \cup { Bytes("utf16le", TRUE, <<13, 10, rune, 13>>, <<>>, "") : rune \in {10, 120, 2570} }
      \cup UNION { { Bytes(encoding, TRUE, text, ill.rest, ill.fault) :
                       text \in runes \ {<<>>}, ill \in MCFaults[encoding] } : encoding \in Encodings }

\* Files of a read: unopened, undecoded, without a parser, empty, and as a
\* parser leaves them.
Asked(open, text, coded, parse, units) ==
  [open |-> open, size |-> 2, text |-> text, coded |-> coded, parse |-> parse, units |-> units]

MCReadFiles ==
  {Asked("path_not_found", "none", TRUE, "clean", <<1>>), Asked("none", "binary", TRUE, "clean", <<1>>),
   Asked("none", "none", FALSE, "clean", <<1, 1>>), Asked("none", "none", TRUE, "partial", <<1>>),
   Asked("none", "none", TRUE, "failed", <<1>>), Asked("none", "none", TRUE, "aborted", <<1>>),
   [Asked("none", "none", TRUE, "clean", <<>>) EXCEPT !.size = 0], Asked("none", "none", TRUE, "clean", <<>>)}

MCUnitSizes == {1, 3}
MCPageSizes == {6, 9}

\* Headings of three levels, a rule, fences that close others or do not.
Mark(mark, level, length, bare) ==
  [mark |-> mark, level |-> level, name |-> <<level>>, length |-> length, bare |-> bare]

MCMarkdownLines ==
  { Mark("heading", level, 0, FALSE) : level \in 1 .. 3 }
  \cup {Mark("rule", 0, 0, FALSE), Mark("backticks", 0, 3, TRUE), Mark("backticks", 0, 3, FALSE),
        Mark("backticks", 0, 4, TRUE), Mark("tildes", 0, 3, TRUE)}

Node(up, kind, from, to) ==
  [up |-> up, kind |-> kind, from |-> from, to |-> to, edge |-> FALSE, named |-> TRUE, fault |-> FALSE,
   definition |-> FALSE, decorated |-> FALSE, name |-> <<1>>]

\* The trees of four nodes, each on a line of its own or all on one, with errors
\* inside each other or apart, and with a node that has no name.
Shapes == {<<0, 1, 2, 3>>, <<0, 1, 2, 2>>, <<0, 1, 2, 1>>, <<0, 1, 1, 3>>, <<0, 1, 1, 1>>}

Spanned(shape, n) ==
  Max({n} \cup { m \in n + 1 .. 4 : shape[m] = n \/ shape[shape[m]] = n })

SmallTrees ==
  { [ n \in 1 .. 4 |->
        [Node(shape[n], kinds[n], IF flat THEN 1 ELSE n, IF flat THEN 1 ELSE IF n = 1 THEN 4 ELSE Spanned(shape, n))
          EXCEPT !.fault = n \in faults, !.named = n # nameless] ] :
      shape \in Shapes, kinds \in [1 .. 4 -> {"", "class", "function", "block"}], flat \in BOOLEAN,
      faults \in {{}, {2}, {4}, {2, 4}}, nameless \in {0, 3} }

\* A key with a dot next to a key in a key, on the same line or not; arrays.
Json(up, kind, line, name) == [Node(up, kind, line, line) EXCEPT !.name = name]

DottedKeys(line) ==
  <<Json(0, "document", 1, <<>>), Json(1, "object", 1, <<>>), Json(2, "property", 1, <<1, 2>>),
    Json(3, "value", 1, <<>>), Json(2, "property", line, <<1>>), Json(5, "object", line, <<>>),
    Json(6, "property", line, <<2>>), Json(7, "value", line, <<>>)>>

Arrays ==
  <<Json(0, "document", 1, <<>>), Json(1, "array", 1, <<>>), [Json(2, "", 1, <<>>) EXCEPT !.named = FALSE],
    Json(2, "array", 1, <<>>), Json(4, "object", 1, <<>>), Json(5, "property", 1, <<3>>),
    Json(6, "array", 1, <<>>), Json(7, "value", 1, <<>>), Json(2, "array", 1, <<>>)>>

\* A decorated class, which ends before the first column of its last line.
Decorated ==
  <<Node(0, "", 1, 4), [Node(1, "class", 1, 4) EXCEPT !.decorated = TRUE, !.edge = TRUE], Node(2, "", 1, 1),
    [Node(2, "class", 2, 4) EXCEPT !.definition = TRUE, !.edge = TRUE], Node(4, "function", 3, 3),
    Node(5, "function", 3, 3), [Node(1, "function", 4, 4) EXCEPT !.fault = TRUE]>>

MCSyntaxTrees ==
  { [tree |-> nodes, language |-> "python"] : nodes \in SmallTrees \cup {Decorated} }
  \cup { [tree |-> nodes, language |-> "json"] : nodes \in {DottedKeys(1), DottedKeys(2), Arrays} }

MCRawRecords ==
  { RawRecord(kind, lines, 0, <<1>>) :
      kind \in {"import", "value", "struct", "record", "function", "document", "stream"},
      lines \in {Lines(1, 1), Lines(1, 2), Lines(2, 2), Lines(0, 0)} }

\* Small results, one that fills the cache, and one that it cannot hold.
MCFootprint == [f \in Files |-> CASE f = "huge" -> 6 [] f = "wide" -> 3 [] OTHER -> 1]

\* Case: "A" is "a".
MCOrbit == [c \in {"a", "A", "b"} |-> IF c = "b" THEN {"b"} ELSE {"a", "A"}]

Braces(left, right) ==
  <<Sign("open")>> \o left \o <<Sign("comma")>> \o right \o <<Sign("close")>>

\* Characters, classes, what matches many, what separates, and braces: with a
\* slash in one alternative, with one that makes two asterisks meet, with one
\* alternative only, with a brace in an alternative.
MCChunks ==
  LET a == <<One({"a"})>>
      slash == <<Sign("slash")>>
  IN  {a, <<One({"b"})>>, <<[One({"A"}) EXCEPT !.negated = TRUE]>>, <<AnyOne>>, <<Many>>, slash,
       Globstar \o slash, slash \o Globstar, a \o <<Many, One({"b"})>>, <<Sign("comma")>>,
       Braces(a, <<Many>>), Braces(a \o slash \o a, Globstar \o slash \o a),
       <<Sign("open")>> \o a \o <<Sign("close")>>, Braces(a, <<One({"{"})>>)}

MCPaths ==
  LET a == <<"a">>
      b == <<"b">>
  IN  {<<a>>, <<b>>, <<a, a>>, <<a, b>>, <<a, b, a>>, <<a, a, b, a>>, <<<<"A">>>>, <<<<"A", "b">>>>,
       <<<<"a", "b", "a", "b">>>>, <<<<"b", "a", "b">>, <<"a", "a", "b">>>>}

\* Values that are fine, ill, too deep for where they may stand, or no values.
Plain0 == Leaf(Token("literal"))
Nest == Listing(<<Listing(<<Plain0>>)>>)
Ill(ills) == [Named("x") EXCEPT !.ills = ills]
LongNumber == Leaf([Token("number") EXCEPT !.ills = <<"long">>])

X(value) == Pair(Named("x"), value)
MCValues ==
  {Plain0, Leaf(Ill(<<"surrogate">>)), Leaf(Ill(<<"surrogate", "long">>)),
   Leaf(Ill(<<"long", "surrogate">>)), LongNumber, Nest, Leaf(Token("bad"))}

Arguments(value) == Pair(Named("arguments"), value)

MCParamsMembers ==
  { Arguments(Enclosing(<<X(value)>>)) : value \in MCValues }
  \cup {Arguments(Plain0), Arguments(Enclosing(<<X(Plain0), X(Plain0)>>)),
        Arguments(Enclosing(<<Pair(Ill(<<"surrogate">>), Plain0), X(LongNumber)>>)),
        X(Plain0), X(Leaf(Ill(<<"surrogate">>))), X(Nest), Pair(Ill(<<"long">>), Plain0)}

Params(members) == Pair(Named("params"), Enclosing(members))
Method(name) == Pair(Named("method"), Leaf(Named(name)))

MCRootMembers ==
  {Method("tools/call"), Method("ping"), Pair(Named("method"), Leaf(Ill(<<"surrogate">>))),
   Pair(Named("id"), Plain0), Pair(Named("id"), LongNumber), Pair(Named("result"), Nest),
   X(Plain0), X(Listing(<<Plain0, Plain0, Plain0>>)), Pair(Ill(<<"surrogate">>), Listing(<<Nest>>)),
   Pair(Named("params"), Plain0), Params(<<X(Plain0), X(Plain0)>>), Params(<<X(Nest), Arguments(Plain0)>>),
   Params(<<Arguments(Enclosing(<<X(Plain0), X(Plain0)>>))>>)}

MCFrames ==
  { Enclosing(members) : members \in BoundedSeq(MCRootMembers, 3) }
  \cup { Enclosing(<<Method(name), Params(members)>>) :
            name \in {"tools/call", "ping"}, members \in BoundedSeq(MCParamsMembers, 2) }
  \cup { Enclosing(<<Params(members), Method(name)>>) :
            name \in {"tools/call", "ping"}, members \in BoundedSeq(MCParamsMembers, 2) }
  \cup { Enclosing([ i \in 1 .. 4 |-> IF i = n THEN Method("ping") ELSE Pair(Named(<<"id", "params", "result", "x">>[i]), Plain0) ]) : n \in 1 .. 4 }
  \cup {Plain0, Nest, Listing(<<Nest, Nest>>), Listing(<<Listing(<<Nest>>)>>)}
=============================================================================
