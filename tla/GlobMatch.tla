----------------------------- MODULE GlobMatch ------------------------------
(***************************************************************************)
(* The patterns of file names (scanner/glob.go): how one is compiled and   *)
(* what it matches.                                                        *)
(*                                                                         *)
(* A pattern is the sequence of its lexical elements.  "one" stands for    *)
(* everything that matches a single character: a character, itself or      *)
(* escaped (the set `of` it), a question mark (nothing is excluded) and a  *)
(* bracket class.  "many" is an asterisk; the others are the characters    *)
(* that structure a pattern.  A path is the sequence of its segments.      *)
(***************************************************************************)
EXTENDS Integers, Sequences, FiniteSets, SequencesExt, FiniteSetsExt, Loops

CONSTANTS Orbit,          \* the characters that differ from one in case only
          MaxAlternatives \* of a pattern

ASSUME OrbitAssumption == \A c \in DOMAIN Orbit : c \in Orbit[c]

One(of) == [kind |-> "one", of |-> of, negated |-> FALSE]

Sign(kind) == [kind |-> kind, of |-> {}, negated |-> FALSE]

AnyOne == [One({}) EXCEPT !.negated = TRUE]

Many == Sign("many")

Globstar == <<Many, Many>>

Places(pattern, kind) == { i \in DOMAIN pattern : pattern[i].kind = kind }

\* The parts of a pattern between the elements of a kind.
Parts(pattern, kind) ==
  Looped(LAMBDA parts, i : IF pattern[i].kind = kind THEN Append(parts, <<>>)
                           ELSE [parts EXCEPT ![Len(parts)] = Append(@, pattern[i])],
         <<<<>>>>, Len(pattern))

\* Inside the braces the text is searched for commas and braces, also in
\* escapes and classes.
Plain(inside) ==
  \A i \in DOMAIN inside : inside[i].of \cap {"{", "}", ","} = {}

\* The pattern once for each alternative of its braces, of which it may have
\* one pair; nothing if they are malformed.
Expanded(pattern) ==
  LET opens == Places(pattern, "open")
      closes == Places(pattern, "close")
      open == CHOOSE i \in opens : TRUE
      close == CHOOSE i \in closes : TRUE
      inside == SubSeq(pattern, open + 1, close - 1)
      alternatives == Parts(inside, "comma")
  IN  IF opens \cup closes = {} THEN <<pattern>>
      ELSE IF /\ Cardinality(opens) = 1 /\ Cardinality(closes) = 1 /\ open < close
              /\ Plain(inside)
              /\ Len(alternatives) \in 2 .. MaxAlternatives
              /\ \A i \in DOMAIN alternatives : alternatives[i] # <<>>
           THEN [ i \in DOMAIN alternatives |->
                    SubSeq(pattern, 1, open - 1) \o alternatives[i]
                      \o SubSeq(pattern, close + 1, Len(pattern)) ]
           ELSE <<>>

\* A comma outside of braces is a character.
Atoms(part) ==
  [ i \in DOMAIN part |-> IF part[i].kind = "comma" THEN One({","}) ELSE part[i] ]

Compilable(part) ==
  \/ part = Globstar
  \/ part # <<>> /\ \A i \in 1 .. Len(part) - 1 : part[i] # Many \/ part[i + 1] # Many

Valid(pattern) ==
  LET variants == Expanded(pattern)
  IN  /\ pattern # <<>> /\ variants # <<>>
      /\ \A i \in DOMAIN variants :
           LET parts == Parts(variants[i], "slash")
           IN  \A n \in DOMAIN parts : Compilable(parts[n])

----------------------------------------------------------------------------

\* The next element and the next of the value; the last element that matched
\* many, and how much of the value went to it and what was before it.
Progress(size, length) ==
  { s \in [at : 1 .. size + 1, next : 1 .. length + 1, last : 0 .. size, taken : 0 .. length] :
      s.last < s.at /\ s.taken < s.next }

\* An element that matches many takes nothing at first,
Stretches(s) == [at |-> s.at + 1, next |-> s.next, last |-> s.at, taken |-> s.next - 1]

Consumes(s) == [at |-> s.at + 1, next |-> s.next + 1, last |-> s.last, taken |-> s.taken]

\* Mutated form: what it had taken is forgotten.
Retries_Forgets(s) == [at |-> s.last + 1, next |-> s.next + 1, last |-> s.last, taken |-> s.taken]

\* and one more whenever what follows it does not fit.
Retries(s) == [at |-> s.last + 1, next |-> s.taken + 2, last |-> s.last, taken |-> s.taken + 1]

\* Segments and characters are matched by the same search: of so many elements,
\* of which some match many, against a value of some length.  It never goes back
\* behind the last element that matched many.
Greedy(size, length, many, fits) ==
  LET walk[s \in Progress(size, length)] ==
        IF s.next > length THEN s.at .. size \subseteq many
        ELSE IF s.at \in many THEN walk[Stretches(s)]
        ELSE IF s.at <= size /\ fits[s.at][s.next] THEN walk[Consumes(s)]
        ELSE s.last # 0 /\ walk[Retries(s)]
  IN  walk[[at |-> 1, next |-> 1, last |-> 0, taken |-> 0]]

AtomFits(atom, character, ignoreCase) ==
  LET like == IF ignoreCase THEN Orbit[character] ELSE {character}
  IN  IF atom.negated THEN like \cap atom.of = {} ELSE like \cap atom.of # {}

SegmentFits(part, segment, ignoreCase) ==
  Greedy(Len(part), Len(segment), Places(part, "many"),
         [ i \in DOMAIN part |-> [ j \in DOMAIN segment |->
             AtomFits(Atoms(part)[i], segment[j], ignoreCase) ] ])

\* Without a slash anywhere in it, a pattern is about the last segment.
Target(pattern, path) == IF Places(pattern, "slash") # {} THEN path ELSE <<Last(path)>>

Globstars(parts) == { i \in DOMAIN parts : parts[i] = Globstar }

GlobMatches(pattern, path, ignoreCase) ==
  LET variants == Expanded(pattern)
      target == Target(pattern, path)
  IN  \E n \in DOMAIN variants :
         LET parts == Parts(variants[n], "slash")
         IN  Greedy(Len(parts), Len(target), Globstars(parts),
                    [ i \in DOMAIN parts |-> [ j \in DOMAIN target |->
                        SegmentFits(parts[i], target[j], ignoreCase) ] ])

----------------------------------------------------------------------------
(* What a pattern means.                                                   *)

\* The value is cut into one piece for each element: any piece for one that
\* matches many, a piece of one for another.
Divides(size, length, many, fits) ==
  \E cut \in [0 .. size -> 0 .. length] :
     /\ cut[0] = 0 /\ cut[size] = length
     /\ \A i \in 1 .. size :
          IF i \in many THEN cut[i - 1] <= cut[i]
          ELSE cut[i] = cut[i - 1] + 1 /\ fits[i][cut[i]]

MeansSegment(part, segment, ignoreCase) ==
  Divides(Len(part), Len(segment), Places(part, "many"),
          [ i \in DOMAIN part |-> [ j \in DOMAIN segment |->
              LET atom == Atoms(part)[i]
              IN  (\E c \in atom.of : c = segment[j] \/ (ignoreCase /\ c \in Orbit[segment[j]]))
                    <=> ~ atom.negated ] ])

Means(pattern, path, ignoreCase) ==
  LET target == Target(pattern, path)
  IN  \E variant \in ToSet(Expanded(pattern)) :
         LET parts == Parts(variant, "slash")
         IN  Divides(Len(parts), Len(target), Globstars(parts),
                     [ i \in DOMAIN parts |-> [ j \in DOMAIN target |->
                         MeansSegment(parts[i], target[j], ignoreCase) ] ])

\* A pattern that compiles matches the paths that can be divided among its
\* elements.
PatternRight(pattern, paths) ==
  Valid(pattern) =>
    \A path \in paths : \A ignoreCase \in BOOLEAN :
       GlobMatches(pattern, path, ignoreCase) <=> Means(pattern, path, ignoreCase)
=============================================================================
