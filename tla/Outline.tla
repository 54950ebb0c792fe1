------------------------------- MODULE Outline -------------------------------
(***************************************************************************)
(* What a parser leaves of a file: its sections or its symbols, as the     *)
(* records an outline or a search of symbols shows (codeparse/             *)
(* markdown_parser.go, tree_sitter.go, go_parser.go, projection.go,        *)
(* classifyParse of service.go).                                           *)
(*                                                                         *)
(* A line of Markdown is what it is to the parser: a heading with a level, *)
(* a fence with its marker and length (`bare`: nothing behind it), a       *)
(* "rule" of three dashes, or text.  A syntax tree is the sequence of its  *)
(* nodes, each before its children; `up` is the parent, `kind` what the    *)
(* language makes of the node, "" for nothing, and the text of a node is   *)
(* its lines.  A name is a sequence of parts, numbers in their order: what *)
(* a dot separates in the name of a JSON or YAML key.                      *)
(***************************************************************************)
EXTENDS Integers, Sequences, FiniteSets, SequencesExt

Lines(start, end) == [start |-> start, end |-> end]
ValidLines(lines) == lines.start # 0 /\ lines.end >= lines.start
Touch(a, b) == a.start <= b.end /\ b.start <= a.end
Inside(a, b) == a.start >= b.start /\ a.end <= b.end

RawRecord(kind, lines, depth, name) == [kind |-> kind, lines |-> lines, depth |-> depth, name |-> name]

----------------------------------------------------------------------------
(* Markdown.  `front`: in the front matter; `fence`: the one that is open. *)

NoFence == [mark |-> "none", length |-> 0]
Section(kind, level, start, end, name) ==
  [kind |-> kind, level |-> level, start |-> start, end |-> end, name |-> name]

\* A heading ends the sections that are open and no less deep.
Headed(sections, line, number) ==
  Append([ n \in DOMAIN sections |->
             IF sections[n].end = 0 /\ sections[n].level > 0 /\ line.level <= sections[n].level
               THEN [sections[n] EXCEPT !.end = number - 1] ELSE sections[n] ],
         Section("section", line.level, number, 0, line.name))

Closes(line, fence) == line.mark = fence.mark /\ line.length >= fence.length /\ line.bare

Fences == {"backticks", "tildes"}

MarkdownLine(state, line, number) ==
  CASE number = 1 /\ line.mark = "rule" -> [state EXCEPT !.front = TRUE]
    [] number > 1 /\ state.front ->
         IF line.mark # "rule" THEN state
         ELSE [state EXCEPT !.front = FALSE,
                            !.sections = Append(@, Section("frontmatter", 0, 1, number, <<1>>))]
    [] ~ state.front /\ line.mark \in Fences ->
         IF state.fence = NoFence
           THEN [state EXCEPT !.fence = [mark |-> line.mark, length |-> line.length]]
         ELSE IF Closes(line, state.fence) THEN [state EXCEPT !.fence = NoFence] ELSE state
    [] ~ state.front /\ line.mark = "heading" /\ state.fence = NoFence ->
         [state EXCEPT !.sections = Headed(@, line, number)]
    [] OTHER -> state

\* What is still open ends with the file.
Markdown(text) ==
  LET sections == FoldLeftDomain(LAMBDA state, n : MarkdownLine(state, text[n], n),
                                 [front |-> FALSE, fence |-> NoFence, sections |-> <<>>],
                                 text).sections
  IN  [ n \in DOMAIN sections |->
          RawRecord(sections[n].kind,
                    Lines(sections[n].start, IF sections[n].end = 0 THEN Len(text) ELSE sections[n].end),
                    sections[n].level, sections[n].name) ]

----------------------------------------------------------------------------
(* A syntax tree.                                                          *)

\* The lines of a node: one that ends before the first column of a line does not
\* reach that line.
NodeLines(node) ==
  Lines(node.from, IF node.edge /\ node.to > node.from THEN node.to - 1 ELSE node.to)

\* The kinds in which a function is a method, by language.
Holders ==
  [python |-> {"class"}, rust |-> {"impl", "trait"}, c |-> {"class", "struct"}, json |-> {},
   kotlin |-> {"class", "struct", "enum", "protocol", "interface", "object", "companion_object"}]

Refined(kind, parent, language) ==
  IF kind = "function" /\ parent \in Holders[language] THEN "method" ELSE kind

\* The definition inside a decorated one is that one: only its children count.
IsRecorded(tree, n) ==
  /\ tree[n].kind # ""
  /\ ~ (tree[n].up # 0 /\ tree[n].definition /\ tree[tree[n].up].decorated)

\* The name of a node in a configuration file is the path to it.
PathTo(node, path) == IF node.kind \in {"property", "key"} THEN path \o node.name ELSE path

NameOf(node, path, language) ==
  IF language = "json" /\ node.kind \notin {"document", "stream"} THEN PathTo(node, path) ELSE node.name

\* The children are walked in order, the named ones only; those of an array are
\* numbered.
Walked(tree, n) == tree[n].named
Number(tree, n) == Cardinality({ m \in 1 .. n - 1 : tree[m].up = tree[n].up /\ Walked(tree, m) })

\* What the walk knows when it comes to a node.
Handed(tree, n, context, language) ==
  LET node == tree[n]
      path == IF language = "json" THEN PathTo(node, context.path) ELSE context.path
  IN  IF ~ IsRecorded(tree, n) THEN context
      ELSE [parent |-> Refined(node.kind, context.parent, language),
            depth |-> IF node.kind \in {"document", "stream"} THEN context.depth ELSE context.depth + 1,
            path |-> path, walked |-> context.walked]

Contexts(tree, language) ==
  LET context[n \in DOMAIN tree] ==
        IF tree[n].up = 0 THEN [parent |-> "", depth |-> 0, path |-> <<>>, walked |-> TRUE]
        ELSE LET handed == Handed(tree, tree[n].up, context[tree[n].up], language)
             IN  [handed EXCEPT !.walked = @ /\ Walked(tree, n),
                                !.path = IF IsRecorded(tree, tree[n].up) /\ tree[tree[n].up].kind \in {"array", "sequence"}
                                           THEN Append(@, 10 + Number(tree, n)) ELSE @]
  IN  context

RecordOf(tree, n, context, language) ==
  RawRecord(Refined(tree[n].kind, context.parent, language), NodeLines(tree[n]), context.depth,
            NameOf(tree[n], context.path, language))

Walk(tree, language) ==
  FoldLeftDomain(LAMBDA records, n :
                   IF Contexts(tree, language)[n].walked /\ IsRecorded(tree, n)
                     THEN Append(records, RecordOf(tree, n, Contexts(tree, language)[n], language))
                   ELSE records,
                 <<>>, tree)

\* Below a node: every node whose parent is it or below it comes after it.
Below(tree, n) ==
  LET below[m \in DOMAIN tree] == tree[m].up # 0 /\ (tree[m].up = n \/ below[tree[m].up])
  IN  { m \in DOMAIN tree : below[m] }

\* Errors are where no child has one, walked or not.
ErrorLines(tree) ==
  { NodeLines(tree[n]) : n \in { m \in DOMAIN tree :
      tree[m].fault /\ \A b \in Below(tree, m) : ~ tree[b].fault } }

\* With errors, what touches none of them is kept.
Safe(records, errors) ==
  IF errors = {} THEN records
  ELSE SelectSeq(records, LAMBDA record : /\ ValidLines(record.lines)
                                          /\ \A error \in errors : ~ Touch(record.lines, error))

----------------------------------------------------------------------------
(* The projection.                                                         *)

\* What a kind is shown as; in the order of their names.
Shown ==
  <<[as |-> "class", of |-> {"class"}], [as |-> "component", of |-> {"component"}],
    [as |-> "constant", of |-> {"constant", "const", "enum_case"}],
    [as |-> "constructor", of |-> {"constructor"}], [as |-> "enum", of |-> {"enum"}],
    [as |-> "field", of |-> {"field"}], [as |-> "function", of |-> {"function"}],
    [as |-> "interface", of |-> {"interface", "annotation", "protocol"}],
    [as |-> "method", of |-> {"method"}], [as |-> "module", of |-> {"module"}],
    [as |-> "namespace", of |-> {"namespace"}],
    [as |-> "object", of |-> {"object", "companion_object", "mapping", "array", "sequence", "element"}],
    [as |-> "other", of |-> {"macro", "impl", "block", "unknown"}],
    [as |-> "package", of |-> {"package"}], [as |-> "property", of |-> {"property", "key"}],
    [as |-> "section", of |-> {"section", "frontmatter", "module_script", "script", "style", "markup",
                               "document", "stream"}],
    [as |-> "struct", of |-> {"struct", "record"}], [as |-> "trait", of |-> {"trait"}],
    [as |-> "type", of |-> {"type", "union", "typealias"}],
    [as |-> "variable", of |-> {"variable", "var", "static"}]>>

Dropped == {"import_block", "value"}
Containers == {"document", "stream", "block"}

\* 1 for imports, 2 for headings, 3 for symbols.
TypeOf(kind) ==
  CASE kind \in {"import", "re_export"} -> 1
    [] kind \in {"section", "frontmatter"} -> 2
    [] OTHER -> 3

ApiKind(kind) == IF TypeOf(kind) = 1 THEN 0 ELSE CHOOSE k \in DOMAIN Shown : kind \in Shown[k].of

Mapped(raw) ==
  [type |-> TypeOf(raw.kind), lines |-> raw.lines, depth |-> raw.depth, kind |-> ApiKind(raw.kind),
   name |-> raw.name]

\* A container is left out when something else within its lines is not dropped.
Survives(records, n) ==
  /\ records[n].kind \notin Dropped
  /\ records[n].kind \in Containers =>
       \A m \in DOMAIN records \ {n} :
         Inside(records[m].lines, records[n].lines) => records[m].kind \in Dropped

OutlineKey(record) == [record EXCEPT !.kind = 0]
SymbolKey(record) == [record EXCEPT !.depth = 0]

\* Two records that one key stands for.
Collide(records, keys) == Cardinality(keys) # Cardinality(records)

Lexical(a, b) ==
  \/ IsStrictPrefix(a, b)
  \/ \E i \in DOMAIN a \cap DOMAIN b : a[i] < b[i] /\ SubSeq(a, 1, i - 1) = SubSeq(b, 1, i - 1)

SortKey(record) ==
  <<record.lines.start, record.lines.end, record.type, record.depth>> \o record.name \o <<0, record.kind>>

NoResult == [state |-> "fatal", records |-> <<>>]

Sorted(rows, state) ==
  LET records == ToSet(rows)
      symbols == { record \in records : record.type = 3 }
  IN  IF \/ \E record \in records : ~ ValidLines(record.lines)
         \/ Collide(records, { OutlineKey(record) : record \in records })
         \/ Collide(symbols, { SymbolKey(record) : record \in symbols })
        THEN NoResult
      ELSE [state |-> state,
            records |-> SortSeq(rows, LAMBDA a, b : Lexical(SortKey(a), SortKey(b)))]

\* The same record is shown once.
Projected(raw, state) ==
  Sorted(FoldLeftDomain(LAMBDA rows, n :
                          IF Survives(raw, n) /\ Mapped(raw[n]) \notin ToSet(rows)
                            THEN Append(rows, Mapped(raw[n])) ELSE rows,
                        <<>>, raw), state)

Classified(raw, errors) ==
  IF \E error \in errors : ~ ValidLines(error) THEN NoResult
  ELSE Projected(Safe(raw, errors), IF errors = {} THEN "clean" ELSE "recoverable")

----------------------------------------------------------------------------
(* What must come of it.                                                   *)

\* The headings from line p on, where p is in no fence: those before the next
\* fence, and those behind its end.
VisibleHeadings(text) ==
  LET visible[p \in 1 .. Len(text) + 1] ==
        LET fences == { o \in p .. Len(text) : text[o].mark \in Fences }
            open == IF fences = {} THEN Len(text) + 1 ELSE Min(fences)
            ends == { c \in open + 1 .. Len(text) :
                        text[c].mark = text[open].mark /\ text[c].bare /\ text[c].length >= text[open].length }
        IN  { h \in p .. open - 1 : text[h].mark = "heading" }
              \cup IF ends = {} THEN {} ELSE visible[Min(ends) + 1]
  IN  visible

\* A closed front matter is a section, what follows it is Markdown; the part of a
\* heading goes on until one that is no deeper; and no text of Markdown fails.
MarkdownRight(text) ==
  LET rules == { n \in DOMAIN text : text[n].mark = "rule" }
      fronted == 1 \in rules
      front == IF ~ fronted THEN 0 ELSE IF rules = {1} THEN Len(text) ELSE Min(rules \ {1})
      headings == VisibleHeadings(text)[front + 1]
      End(h) == Min({ g \in headings : g > h /\ text[g].level <= text[h].level }
                      \cup {Len(text) + 1}) - 1
      sections == { RawRecord("section", Lines(h, End(h)), text[h].level, text[h].name) : h \in headings }
  IN  \E records \in {Markdown(text)} : \E result \in {Classified(records, {})} :
        /\ ToSet(records) = sections
             \cup (IF fronted /\ rules # {1} THEN {RawRecord("frontmatter", Lines(1, front), 0, <<1>>)}
                   ELSE {})
        /\ result.state = "clean"
        /\ Len(result.records) = Len(records)

\* Of all records that touch no error the ones with a meaning of their own are
\* shown, of the containers those around nothing else and none around such a one;
\* behind each record come those its key says; or the file fails, for records that are
\* none or that one key would stand for.
ResultRight(raw, errors) ==
  LET safe == { record \in ToSet(raw) : record.kind \notin Dropped
                  /\ (errors # {} => /\ ValidLines(record.lines)
                                      /\ \A error \in errors : ~ Touch(record.lines, error)) }
      plain == { record \in safe : record.kind \notin Containers }
      lone == { raw[n] : n \in { m \in DOMAIN raw : raw[m] \in safe /\
                  \A o \in DOMAIN raw \ {m} : raw[o] \in safe => ~ Inside(raw[o].lines, raw[m].lines) } }
      Twins(a, b) == /\ Mapped(a) # Mapped(b)
                     /\ \/ OutlineKey(Mapped(a)) = OutlineKey(Mapped(b))
                        \/ /\ {TypeOf(a.kind), TypeOf(b.kind)} = {3}
                           /\ SymbolKey(Mapped(a)) = SymbolKey(Mapped(b))
      Ill(records) == \/ \E record \in records : ~ ValidLines(record.lines)
                      \/ \E a, b \in records : Twins(a, b)
  IN  \E result \in {Classified(raw, errors)} :
        LET shown == result.records
        IN  /\ Ill(plain) => result.state = "fatal"
            /\ result.state = "fatal" => Ill(safe) \/ \E error \in errors : ~ ValidLines(error)
            /\ result.state = "fatal" => shown = <<>>
            /\ result.state # "fatal" =>
                 /\ { Mapped(record) : record \in plain \cup lone } \subseteq ToSet(shown)
                 /\ ToSet(shown) \subseteq { Mapped(record) : record \in
                      { some \in safe : \/ some.kind \notin Containers
                                        \/ \A one \in plain : ~ Inside(one.lines, some.lines) } }
                 /\ \A i \in DOMAIN shown :
                      { j \in DOMAIN shown : Lexical(SortKey(OutlineKey(shown[i])), SortKey(OutlineKey(shown[j]))) }
                        = i + 1 .. Len(shown)

Above(tree, n) == { m \in DOMAIN tree : n \in Below(tree, m) }

\* What node n of a tree is recorded as: a kind that may depend on the definition
\* around it, as deep as there are definitions around it, by its name or the path
\* to it.
Expected(tree, n, language) ==
  LET around == { m \in Above(tree, n) : IsRecorded(tree, m) }
      holder == IF around = {} THEN "" ELSE tree[Max(around)].kind
      line == SelectSeq([ m \in DOMAIN tree |-> m ], LAMBDA m : m \in around \cup {n})
      Step(m) ==
        (IF around # {} /\ tree[m].up # 0 /\ tree[tree[m].up].kind \in {"array", "sequence"}
           THEN <<10 + Number(tree, m)>> ELSE <<>>)
          \o IF tree[m].kind \in {"property", "key"} THEN tree[m].name ELSE <<>>
  IN  RawRecord(IF tree[n].kind = "function" /\ holder \in Holders[language] THEN "method" ELSE tree[n].kind,
                NodeLines(tree[n]),
                Cardinality({ m \in around : tree[m].kind \notin {"document", "stream"} }),
                IF language = "json" /\ tree[n].kind \notin {"document", "stream"}
                  THEN FlattenSeq([ i \in DOMAIN line |-> Step(line[i]) ]) ELSE tree[n].name)

\* A tree is recorded node for node; what is shown has no error in it.
TreeRight(tree, language) ==
  LET recorded == { n \in DOMAIN tree :
                      IsRecorded(tree, n) /\ \A m \in Above(tree, n) \cup {n} : m = 1 \/ tree[m].named }
      order == SelectSeq([ n \in DOMAIN tree |-> n ], LAMBDA n : n \in recorded)
      faults == { n \in DOMAIN tree : tree[n].fault }
      sound == { n \in recorded : tree[n].kind \notin Dropped /\ \A m \in Below(tree, n) \cup {n} : ~ tree[m].fault }
  IN  \E raw \in {Walk(tree, language)} : \E errors \in {ErrorLines(tree)} :
        /\ raw = [ i \in DOMAIN order |-> Expected(tree, order[i], language) ]
        /\ errors = { NodeLines(tree[n]) : n \in faults \ UNION { Above(tree, m) : m \in faults } }
        /\ ResultRight(raw, errors)
        /\ ToSet(Classified(raw, errors).records) \subseteq
             { Mapped(Expected(tree, n, language)) : n \in sound }
=============================================================================
