------------------------------ MODULE JsonScan ------------------------------
(***************************************************************************)
(* The scan that every JSON document goes through (jsonwire/scanner.go),   *)
(* in its two uses: a frame of the connection, where faults are collected  *)
(* by the layer they belong to and the scan goes on to recover the headers *)
(* (ScanProtocolObject), and any other value, where the first fault ends   *)
(* it (ScanObject, ScanArray, ValueView.Validate).                         *)
(*                                                                         *)
(* A document is a sequence of tokens.  Of a string the model keeps the    *)
(* name and its ills, in their order: an unpaired surrogate, and the byte  *)
(* at which it grows too long; of a number, whether it is too long.  What  *)
(* the lexer refuses is the token "bad".                                   *)
(***************************************************************************)
EXTENDS Integers, Sequences, FiniteSets, SequencesExt

CONSTANTS MaxDepth, MaxMembers, MaxItems, \* jsonwire.Limits
          Nesting   \* no frame that is looked at is deeper

ASSUME JsonLimits ==
  MaxDepth \in Nat \ {0, 1} /\ MaxMembers \in Nat /\ MaxItems \in Nat /\ Nesting \in Nat

Token(t) == [t |-> t, name |-> "", ills |-> <<>>]

Named(name) == [Token("string") EXCEPT !.name = name]

Headers == {"jsonrpc", "id", "method", "params", "result", "error"}

\* What a scan knows.  `envelope`, `params`: a fault of that layer was met;
\* `postponed`: one of the raw arguments; `broken`: the scan cannot go on, or
\* need not.  `compact` containers are the ones below MaxDepth; those in
\* them are in `overflow`, where only the syntax is looked at.
NewScan ==
  [stack |-> <<>>, overflow |-> <<>>, kind |-> "none", broken |-> FALSE,
   envelope |-> FALSE, params |-> FALSE, postponed |-> FALSE,
   items |-> [value |-> 0, envelope |-> 0, params |-> 0], exhausted |-> FALSE,
   method |-> "", root |-> <<>>, below |-> <<>>, arguments |-> [kind |-> "none", from |-> 0, to |-> 0]]

Frame(kind, role, scope, deferred, compact, at) ==
  [kind |-> kind, state |-> "first", role |-> role, scope |-> scope, deferred |-> deferred,
   compact |-> compact, start |-> at, members |-> 0, crowded |-> FALSE, key |-> "", seen |-> {}]

Broken(s) == [s EXCEPT !.broken = TRUE]

ScopeHasError(s, scope) ==
  \/ scope \in {"envelope", "params"} /\ s.envelope
  \/ scope = "params" /\ s.params

\* A fault other than of syntax.  Only a frame has layers and raw arguments.
Record(s, fault, scope, deferred) ==
  IF deferred /\ fault \in {"duplicate", "surrogate"} THEN [s EXCEPT !.postponed = TRUE]
  ELSE CASE scope = "envelope" -> [s EXCEPT !.envelope = TRUE]
         [] scope = "params" -> [s EXCEPT !.params = TRUE]
         [] scope = "value" -> Broken(s)

RecordFirst(s, fault, scope, deferred) ==
  IF ScopeHasError(s, scope) THEN s ELSE Record(s, fault, scope, deferred)

\* After a fault only the syntax matters.
Recovering(s, scope, deferred) == ScopeHasError(s, scope) \/ (deferred /\ s.postponed)

\* Mutated form: what follows a surrogate is not looked at.
ScanString_First(s, token, scope, deferred) ==
  LET ills == SelectSeq(token.ills,
                LAMBDA ill : IF ill = "long" THEN ~ ScopeHasError(s, scope)
                             ELSE ~ Recovering(s, scope, deferred))
  IN  IF ills = <<>> THEN s ELSE Record(s, Head(ills), scope, deferred)

\* The first ill is recorded; behind a surrogate the length is still watched.
ScanString(s, token, scope, deferred) ==
  LET ills == SelectSeq(token.ills,
                LAMBDA ill : IF ill = "long" THEN ~ ScopeHasError(s, scope)
                             ELSE ~ Recovering(s, scope, deferred))
      first == Record(s, Head(ills), scope, deferred)
  IN  IF ills = <<>> THEN s
      ELSE IF Head(ills) = "surrogate" /\ "long" \in ToSet(token.ills)
        THEN RecordFirst(first, "long", scope, deferred)
      ELSE first

ChargeItem(s, scope) ==
  LET total == s.items.value + s.items.envelope + s.items.params
  IN  IF scope = "value" /\ total >= MaxItems THEN Broken(s)
      ELSE [s EXCEPT !.items[scope] = @ + 1, !.exhausted = total + 1 > MaxItems]

----------------------------------------------------------------------------
(* Values and members                                                      *)

TopOf(s) == Len(s.stack)

SetTop(s, field, value) == [s EXCEPT !.stack[TopOf(s)][field] = value]

\* Where the innermost open container stands.
Innermost(s) == IF s.overflow # <<>> THEN Last(s.overflow) ELSE Last(s.stack)

SetState(s, state) ==
  IF s.overflow # <<>> THEN [s EXCEPT !.overflow[Len(s.overflow)].state = state]
  ELSE SetTop(s, "state", state)

Kinds == ("{" :> "object") @@ ("[" :> "array")

Open(s, kind, role, scope, deferred, at) ==
  LET deep == TopOf(s) >= MaxDepth
      noted == IF deep THEN RecordFirst(s, "deep", scope, deferred) ELSE s
  IN  IF s.overflow # <<>> \/ (s.stack # <<>> /\ Last(s.stack).compact)
        THEN [s EXCEPT !.overflow = Append(@, [kind |-> kind, state |-> "first"])]
        ELSE [noted EXCEPT !.stack = Append(@, Frame(kind, role, scope, deferred, deep, at))]

ScanValue(s, token, at, role, scope, deferred) ==
  CASE token.t \in DOMAIN Kinds -> Open(s, Kinds[token.t], role, scope, deferred, at)
    [] token.t \in {"string", "number"} -> ScanString(s, token, scope, deferred)
    [] token.t = "literal" -> s
    [] OTHER -> Broken(s)

KindOf(token) == IF token.t \in DOMAIN Kinds THEN Kinds[token.t] ELSE token.t

Raw(s, kind, from, to) == [s EXCEPT !.arguments = [kind |-> kind, from |-> from, to |-> to]]

Close(s, at) ==
  LET top == Last(s.stack)
      popped == [s EXCEPT !.stack = Front(@)]
  IN  IF s.overflow # <<>> THEN [s EXCEPT !.overflow = Front(@)]
      ELSE IF top.role = "arguments" THEN Raw(popped, top.kind, top.start, at) ELSE popped

ChargeMember(s) ==
  LET top == Last(s.stack)
      full == ~ top.crowded /\ top.members >= MaxMembers
      noted == IF full THEN RecordFirst(SetTop(s, "crowded", TRUE), "crowded", top.scope, top.deferred)
               ELSE s
      charged == ChargeItem(noted, top.scope)
  IN  IF full \/ top.crowded THEN charged ELSE SetTop(charged, "members", top.members + 1)

\* The name of a key: as decoded, or, while recovering, if it is one to know.
KnownKey(role, name) ==
  IF \/ role = "root" /\ name \in Headers
     \/ role = "params" /\ name = "arguments" THEN name ELSE ""

ScanKey(s, token) ==
  LET top == Last(s.stack)
      charged == ChargeMember(s)
      scanned == ScanString(charged, token, top.scope, top.deferred)
      decoded == ~ Recovering(charged, top.scope, top.deferred) /\ token.ills = <<>>
      key == IF decoded THEN token.name ELSE KnownKey(top.role, token.name)
      checked == IF Recovering(scanned, top.scope, top.deferred) THEN scanned
                 ELSE IF key \in top.seen THEN Record(scanned, "duplicate", top.scope, top.deferred)
                 ELSE SetTop(scanned, "seen", top.seen \cup {key})
  IN  SetTop(checked, "key", key)

\* A member of the root is kept, unless something is wrong: then only the
\* first of each header.
KeepsRoot(s, key) ==
  ~ (s.envelope \/ s.exhausted) \/ (key \in Headers /\ \A m \in ToSet(s.root) : m.key # key)

\* The value of a member.  That of params opens the layer below, that of its
\* arguments is the raw value whose duplicates and surrogates are postponed.
ScanMember(s, token, at) ==
  LET top == Last(s.stack)
      layered == top.scope # "value" /\ ~ top.deferred
      isParams == layered /\ top.role = "root" /\ top.key = "params"
      isArguments == layered /\ top.role = "params" /\ top.key = "arguments"
      role == IF isParams THEN "params" ELSE IF isArguments THEN "arguments" ELSE "other"
      member == [key |-> top.key, at |-> at, kind |-> KindOf(token)]
      read == ScanValue(s, token, at, role, IF isParams THEN "params" ELSE top.scope,
                        top.deferred \/ isArguments)
      named == IF top.role = "root" /\ top.key = "method"
                 THEN [read EXCEPT !.method = IF token.t = "string" /\ ~ read.envelope
                                                THEN token.name ELSE ""]
                 ELSE read
      kept == IF top.role = "root" /\ KeepsRoot(named, top.key)
                THEN [named EXCEPT !.root = Append(@, member)]
              ELSE IF top.role = "params" /\ ~ ScopeHasError(named, "params") /\ ~ named.exhausted
                THEN [named EXCEPT !.below = Append(@, member)]
              ELSE named
  IN  IF isArguments /\ token.t \notin DOMAIN Kinds THEN Raw(kept, token.t, at, at) ELSE kept

----------------------------------------------------------------------------
(* Documents                                                               *)

Key(s, token) ==
  SetState(IF s.overflow = <<>> THEN ScanKey(s, token) ELSE s, "colon")

Member(s, token, at) ==
  LET ready == SetState(s, "after")
      top == Last(s.stack)
  IN  IF s.overflow = <<>> THEN ScanMember(ready, token, at)
      ELSE ScanValue(ready, token, at, "other", top.scope, top.deferred)

Element(s, token, at) ==
  LET ready == SetState(s, "after")
      top == Last(s.stack)
      charged == IF s.overflow = <<>> THEN ChargeItem(ready, top.scope) ELSE ready
  IN  ScanValue(charged, token, at, "other", top.scope, top.deferred)

InContainer(s, token, at) ==
  LET state == Innermost(s).state
      object == Innermost(s).kind = "object"
      closes == token.t = IF object THEN "}" ELSE "]"
  IN  CASE state \in {"first", "after"} /\ closes -> Close(s, at)
        [] state = "after" /\ token.t = "," -> SetState(s, "next")
        [] object /\ state \in {"first", "next"} /\ token.t = "string" -> Key(s, token)
        [] object /\ state = "colon" /\ token.t = ":" -> SetState(s, "value")
        [] object /\ state = "value" -> Member(s, token, at)
        [] ~ object /\ (state = "next" \/ (state = "first" /\ ~ closes)) -> Element(s, token, at)
        [] OTHER -> Broken(s)

Scanned(s, token, at, scope) ==
  IF s.broken THEN s
  ELSE IF s.kind = "none"
    THEN ScanValue([s EXCEPT !.kind = KindOf(token)], token, at, "root", scope, FALSE)
  ELSE IF s.stack = <<>> THEN Broken(s)
  ELSE InContainer(s, token, at)

Scan(tokens, scope) ==
  LET end == FoldLeftDomain(LAMBDA s, at : Scanned(s, tokens[at], at, scope), NewScan, tokens)
  IN  IF end.kind = "none" \/ end.stack # <<>> THEN Broken(end) ELSE end

\* All items of the envelope are counted before those of params.
Counted(s) ==
  IF ~ s.exhausted THEN s
  ELSE Record(s, "crowded", IF s.items.envelope > MaxItems THEN "envelope" ELSE "params", FALSE)

\* Only a tools/call may leave its arguments unchecked.
Concluded(s) ==
  LET called == s.method = "tools/call"
  IN  IF \/ s.arguments.kind \notin {"none", "object"} /\ called
         \/ s.arguments.kind # "none" /\ ~ called /\ s.postponed
        THEN [s EXCEPT !.params = TRUE] ELSE s

\* What a frame of these tokens is, from its scan in the layers.
ProtocolView(scan, tokens) ==
  LET done == Concluded(Counted(scan))
      verdict == IF scan.broken THEN "document"
                 ELSE IF done.envelope \/ scan.kind # "object" THEN "envelope"
                 ELSE IF done.params THEN "params" ELSE "fine"
  IN  [verdict |-> verdict,
       root |-> IF verdict = "document" \/ scan.kind # "object" THEN <<>> ELSE scan.root,
       params |-> IF verdict = "fine" THEN scan.below ELSE <<>>,
       arguments |-> IF verdict = "fine" /\ scan.method = "tools/call" /\ scan.arguments.kind # "none"
                       THEN SubSeq(tokens, scan.arguments.from, scan.arguments.to) ELSE <<>>]

Validates(tokens) == ~ Scan(tokens, "value").broken

----------------------------------------------------------------------------
(* What a frame is, seen as a tree: a value is a token with the items it   *)
(* encloses, each with its key (in an array, none).                        *)

Leaf(token) == [token |-> token, items |-> <<>>]

Pair(key, value) == [key |-> key, value |-> value]

Enclosing(items) == [token |-> Token("{"), items |-> items]

Listing(values) ==
  [token |-> Token("["), items |-> [ i \in DOMAIN values |-> Pair(Token("none"), values[i]) ]]

\* The values in a value, itself included: in those of each depth lie those of
\* the next.
Inner(root) ==
  LET level[depth \in 0 .. Nesting] ==
        IF depth = 0 THEN {root}
        ELSE { item.value : item \in UNION { ToSet(node.items) : node \in level[depth - 1] } }
  IN  UNION { level[depth] : depth \in 0 .. Nesting }

Tokens(root) ==
  LET tokens[node \in Inner(root)] ==
        LET one == [ i \in DOMAIN node.items |->
                       (IF i = 1 THEN <<>> ELSE <<Token(",")>>)
                         \o (IF node.token.t = "{" THEN <<node.items[i].key, Token(":")>> ELSE <<>>)
                         \o tokens[node.items[i].value] ]
        IN  IF node.token.t \notin DOMAIN Kinds THEN <<node.token>>
            ELSE <<node.token>> \o FlattenSeq(one) \o <<Token(IF node.token.t = "{" THEN "}" ELSE "]")>>
  IN  tokens[root]

\* The members of a node with a name.
At(node, name) ==
  { i \in DOMAIN node.items : node.items[i].key.name = name /\ node.items[i].key.ills = <<>> }

\* What is wrong with a container itself, at its depth.
OwnFaults(node, depth) ==
  LET keys == [ i \in DOMAIN node.items |-> node.items[i].key ]
  IN  (IF depth >= MaxDepth /\ node.token.t \in DOMAIN Kinds THEN {"deep"} ELSE {})
      \cup (IF node.token.t = "{" /\ Len(keys) > MaxMembers THEN {"crowded"} ELSE {})
      \cup (IF node.token.t = "{" /\ \E i \in DOMAIN keys : Cardinality(At(node, keys[i].name)) > 1
              THEN {"duplicate"} ELSE {})
      \cup UNION { ToSet(keys[i].ills) : i \in DOMAIN keys }
      \cup ToSet(node.token.ills)
      \cup (IF node.token.t = "bad" THEN {"bad"} ELSE {})

Faults(root, depth) ==
  LET faults[node \in Inner(root), at \in depth .. depth + Nesting] ==
        OwnFaults(node, at) \cup UNION { faults[node.items[i].value, at + 1] : i \in DOMAIN node.items }
  IN  faults[root, depth]

\* How many items it has, all in all.
Size(root) ==
  LET size[node \in Inner(root)] ==
        Len(node.items) + FoldLeft(LAMBDA sum, item : sum + size[item.value], 0, node.items)
  IN  size[root]

\* The layer a frame is refused for, wherever in it the faults are.
Layer(root) ==
  LET ofParams == IF root.token.t = "{" THEN At(root, "params") ELSE {}
      calls == \E i \in At(root, "method") : root.items[i].value.token = Named("tools/call")
      inParams == UNION { { <<root.items[i].value, j>> : j \in DOMAIN root.items[i].value.items } :
                            i \in ofParams }
      raw == { p \in inParams : p[1].token.t = "{" /\ p[2] \in At(p[1], "arguments") }
      envelope == OwnFaults(root, 0)
                    \cup UNION { Faults(root.items[i].value, 1) : i \in DOMAIN root.items \ ofParams }
      params == UNION { OwnFaults(root.items[i].value, 1) : i \in ofParams }
                  \cup UNION { Faults(p[1].items[p[2]].value, 2) : p \in inParams \ raw }
      arguments == UNION { Faults(p[1].items[p[2]].value, 2) : p \in raw }
      below == FoldLeftDomain(LAMBDA sum, i : sum + IF i \in ofParams THEN Size(root.items[i].value)
                                                    ELSE 0, 0, root.items)
  IN  CASE "bad" \in Faults(root, 0) -> "document"
        [] OTHER ->
             IF root.token.t # "{" \/ envelope # {} \/ Size(root) - below > MaxItems THEN "envelope"
             ELSE IF \/ params # {}
                     \/ arguments \ (IF calls THEN {"duplicate", "surrogate"} ELSE {}) # {}
                     \/ calls /\ \E p \in raw : p[1].items[p[2]].value.token.t # "{"
                     \/ Size(root) > MaxItems
               THEN "params" ELSE "fine"

\* Where the value of a member begins.
ValueAt(root, i) ==
  FoldLeft(LAMBDA sum, item : sum + Len(Tokens(item.value)) + 3, 4, SubSeq(root.items, 1, i - 1))

\* Of every frame: it is refused for the layer that has a fault, the outermost
\* first, in whatever order its members came, and a frame that is cut short is
\* none; in every other, each header is found where it first occurs; and of one
\* that is let pass, the members are the ones it has, and the faults are the
\* ones that the check of the arguments finds.
FrameRight(root) ==
  \E tokens \in {Tokens(root)}, layer \in {Layer(root)} :
   \E scan \in {Scan(tokens, "envelope")} :
    \E view \in {ProtocolView(scan, tokens)} :
      LET Names(node) == [ i \in DOMAIN node.items |-> node.items[i].key.name ]
          Keys(members) == [ n \in DOMAIN members |-> members[n].key ]
      IN  /\ view.verdict = layer
          /\ root.items # <<>> => Scan(Front(tokens), "envelope").broken
          /\ layer # "document" /\ root.token.t = "{" =>
               \A name \in Headers : \A first \in At(root, name) :
                  (\A i \in At(root, name) : first <= i) =>
                     \E n \in DOMAIN view.root :
                        /\ view.root[n].key = name /\ view.root[n].at = ValueAt(root, first)
                        /\ \A m \in 1 .. n - 1 : view.root[m].key # name
          /\ layer = "fine" =>
               /\ Keys(view.root) = Names(root)
               /\ \A i \in At(root, "params") :
                     root.items[i].value.token.t = "{" => Keys(view.params) = Names(root.items[i].value)
               /\ (Validates(view.arguments) \/ view.arguments = <<>>) <=> Faults(root, 0) = {}
=============================================================================
