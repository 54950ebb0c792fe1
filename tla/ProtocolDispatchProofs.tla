------------------------ MODULE ProtocolDispatchProofs ------------------------
(***************************************************************************)
(* Proofs about ProtocolDispatch, for any messages, ids, table, limits and *)
(* number of frames.                                                       *)
(*                                                                         *)
(* Bound is the first frame serve has not decided about.  As long as serve *)
(* is at work, the table holds the ids of the requests before Bound, each  *)
(* where a probe finds it, and the lifecycle is the one they lead to.  So  *)
(* what serve decides about Bound is what the client may expect; and each  *)
(* answer decided is in one place: with a writer, in the queue, or out.    *)
(***************************************************************************)
EXTENDS ProtocolDispatch, CollectionLemmas

-------------------------------------------------------------------------------
(* The invariant                                                           *)

Pumps == {"reading", "offering", "consuming", "stopped"}
InHand == {"handling", "writing", "writingLast", "queueing", "acking"}
Ended == {"closing", "waiting", "done"}
Readers == {"selecting", "draining"} \cup InHand \cup Ended
Results == {"none", "error", "nil", "eof"}
Replies ==
  {"parseError", "invalidRequest", "requestLimit", "initialize", "methodNotFound", "invalidParams",
   "pong", "tools", "busy"}
Answers == [frame : Nat, answer : Replies \cup {"none"}]

TypeOK ==
  /\ frames \in Seq(Messages) /\ pump \in Pumps /\ offer \in {"frame", "eof", "error"}
  /\ reader \in Readers /\ result \in Results
  /\ lifecycle \in {"New", "AwaitingInitialized", "Ready"}
  /\ slots \in [0 .. TableSlots - 1 -> Ids \cup {Empty}]
  /\ pending \in [Writers -> Answers] /\ open \subseteq Writers
  /\ output \in Seq(Answers) /\ busyQueue \in Seq(Answers)
  /\ busyClosed \in BOOLEAN /\ busyWorker \in {"none", "running", "ended"}
  /\ gateStopped \in BOOLEAN /\ terminalStopped \in BOOLEAN
  /\ asyncError \in {"none", "write", "fatal"} /\ fatal \in BOOLEAN /\ cancelled \in BOOLEAN

(* Where the pump may be while serve is where it is.                       *)
Hands ==
  /\ reader \in InHand => pump \in {"consuming", "stopped"} /\ frames # <<>>
  /\ reader = "selecting" => pump # "consuming"
  /\ reader = "draining" => pump = "stopped"
  /\ pump = "offering" /\ offer = "frame" => frames # <<>>
  /\ result = "eof" => reader \in Ended /\ pump = "stopped"
  /\ pending["reader"] # NoAnswer <=> reader \in {"writing", "writingLast"}
  /\ \A w \in open : pending[w] # NoAnswer

(* A connection is stopped for an error that is stored, or by serve itself. *)
Stopping ==
  /\ asyncError # "none" => terminalStopped
  /\ terminalStopped => gateStopped /\ (asyncError # "none" \/ reader = "done")
  /\ gateStopped => terminalStopped \/ reader \in {"waiting", "done"}
  /\ reader = "done" => terminalStopped
  /\ reader = "selecting" /\ pump = "stopped" => terminalStopped

Quiet == ~fatal /\ ~terminalStopped

(* The busy queue has a worker from its first answer on, and ends empty.   *)
BusyInv ==
  /\ busyClosed => reader \in {"draining"} \cup Ended
  /\ busyWorker = "none" => busyQueue = <<>> /\ pending["busy"] = NoAnswer /\ reader # "queueing"
  /\ busyWorker = "ended" /\ Quiet /\ reader # "waiting" =>
       busyClosed /\ busyQueue = <<>> /\ pending["busy"] = NoAnswer

(* The last frame is undecided: on offer, or in hand.                      *)
Behind == reader = "handling" \/ (reader = "selecting" /\ pump = "offering" /\ offer = "frame")
Bound == IF Behind THEN Len(frames) ELSE Len(frames) + 1

AtWork == reader \in InHand \ {"writingLast"} \/ (reader = "selecting" /\ pump # "stopped")

(* A probe for an id in the table passes other ids only.                   *)
Reached(id, j, i) ==
  /\ Probe(id, i) = j
  /\ \A k \in 0 .. i - 1 : slots[Probe(id, k)] \notin {Empty, id}
TableInv ==
  \A j \in 0 .. TableSlots - 1 :
    slots[j] # Empty => \E i \in 0 .. TableSlots - 1 : Reached(slots[j], j, i)

Decided ==
  AtWork =>
    /\ UsedIds = EarlierIds(Bound)
    /\ lifecycle = "New" <=> ~InitializedBefore(Bound)
    /\ lifecycle = "Ready" <=> ReadyBefore(Bound)

Undecided == Behind \/ reader = "queueing"

(* The answers decided, with a writer, in the queue or out, are right.     *)
Given ==
  {pending[w] : w \in Writers} \cup {busyQueue[i] : i \in DOMAIN busyQueue}
    \cup {output[i] : i \in DOMAIN output}
AnswersInv ==
  /\ \A a \in Given : a # NoAnswer => a.frame \in DOMAIN frames /\ a.answer \in Expected(a.frame)
  /\ \A i \in DOMAIN output : output[i] # NoAnswer
  /\ reader = "queueing" => \A n \in DOMAIN frames : n = Len(frames) => "busy" \in Expected(n)

(* A frame's answer is in one place, and nowhere before it is decided.     *)
PlacesInv ==
  /\ \A v, w \in Writers :
       pending[v] # NoAnswer /\ pending[w] # NoAnswer /\ pending[v].frame = pending[w].frame => v = w
  /\ \A i, j \in DOMAIN busyQueue : busyQueue[i].frame = busyQueue[j].frame => i = j
  /\ \A w \in Writers, i \in DOMAIN busyQueue :
       pending[w] # NoAnswer => pending[w].frame # busyQueue[i].frame
  /\ \A w \in Writers : pending[w] # NoAnswer => pending[w].frame \notin AnsweredFrames
  /\ \A i \in DOMAIN busyQueue : busyQueue[i].frame \notin AnsweredFrames
  /\ IsFiniteSet(AnsweredFrames) /\ Cardinality(AnsweredFrames) = Len(output)
  /\ Undecided =>
       /\ Len(frames) \notin AnsweredFrames
       /\ \A w \in Writers : pending[w] # NoAnswer => pending[w].frame # Len(frames)
       /\ \A i \in DOMAIN busyQueue : busyQueue[i].frame # Len(frames)

(* As long as nothing has gone wrong, an answer owed is on its way, and    *)
(* none is owed once the end of the input has been acted upon.             *)
Held(n) ==
  \/ \E w \in Writers : pending[w] # NoAnswer /\ pending[w].frame = n
  \/ \E i \in DOMAIN busyQueue : busyQueue[i].frame = n
  \/ Undecided /\ n = Len(frames)
HeldInv == Quiet /\ reader \notin Ended => \A n \in Owed : Held(n)
EofInv == result = "eof" /\ (Quiet \/ reader = "done") => Owed = {}

IInv ==
  /\ TypeOK /\ Hands /\ Stopping /\ BusyInv
  /\ TableInv /\ Decided /\ AnswersInv /\ PlacesInv /\ HeldInv /\ EofInv

-------------------------------------------------------------------------------
(* The table of used ids                                                   *)

Places == 0 .. TableSlots - 1

LEMMA ArenaIsSum == \A S : ArenaUsed(S) = SumOver(KeyBytes, S)
BY DEF ArenaUsed, MapThenSumSet, SumOver, FoldFunctionOnSet

(* The probes for an id go once through all the places of the table.       *)
LEMMA Probes ==
  ASSUME NEW id \in Ids
  PROVE  /\ \A i \in Places : Probe(id, i) \in Places
         /\ \A i, k \in Places : Probe(id, i) = Probe(id, k) => i = k
         /\ \A j \in Places : \E i \in Places : Probe(id, i) = j
<1>1. TableSlots \in Nat \ {0} /\ Home[id] \in Places
  BY ProtocolAssumption DEF Places
<1>2. ASSUME NEW j \in Places PROVE \E i \in Places : Probe(id, i) = j
  <2> DEFINE i == IF Home[id] <= j THEN j - Home[id] ELSE j + TableSlots - Home[id]
  <2>1. i \in Places /\ Probe(id, i) = j
    BY <1>1 DEF Places, Probe
  <2> QED BY <2>1
<1>3. \A i \in Places : Probe(id, i) \in Places
  BY <1>1 DEF Places, Probe
<1>4. \A i, k \in Places : Probe(id, i) = Probe(id, k) => i = k
  BY <1>1 DEF Places, Probe
<1> QED BY <1>2, <1>3, <1>4

(* Distance is the first probe that finds the id or an empty slot.         *)
LEMMA Searched ==
  ASSUME NEW id \in Ids
  PROVE  /\ Distance(id) \in 0 .. TableSlots
         /\ Distance(id) < TableSlots => slots[Probe(id, Distance(id))] \in {id, Empty}
         /\ \A k \in Places : k < Distance(id) => slots[Probe(id, k)] \notin {id, Empty}
<1> DEFINE T == {i \in Places : slots[Probe(id, i)] \in {id, Empty}} \cup {TableSlots}
<1>1. TableSlots \in Nat \ {0}
  BY ProtocolAssumption
<1>2. T \in SUBSET Nat /\ T # {}
  BY <1>1 DEF Places
<1>3. Distance(id) = Min(T)
  BY DEF Distance, Places
<1>4. Min(T) \in T /\ \A y \in T : Min(T) <= y
  <2> HIDE DEF T
  <2> QED BY <1>2, LeastNumber
<1> HIDE DEF Distance
<1>5. /\ Distance(id) \in T
      /\ \A k \in Places : k < Distance(id) => k \notin T
  <2> HIDE DEF T
  <2>1. \A k \in T : ~ (k < Min(T))
    <3> TAKE k \in T
    <3>1. k \in Nat /\ Min(T) \in Nat /\ Min(T) <= k
      BY <1>2, <1>4
    <3> QED BY <3>1
  <2> QED BY <1>3, <1>4, <2>1
<1> QED BY <1>1, <1>5 DEF Places

SlotsOK == slots \in [Places -> Ids \cup {Empty}] /\ TableInv

(* An id in the table is found, in one place.                              *)
LEMMA Found ==
  ASSUME SlotsOK, NEW id \in UsedIds
  PROVE  /\ id \in Ids /\ Distance(id) < TableSlots
         /\ slots[Probe(id, Distance(id))] = id
         /\ \A j \in Places : slots[j] = id => j = Probe(id, Distance(id))
<1>1. id \in Ids /\ TableSlots \in Nat \ {0} /\ Empty \notin Ids
  BY ProtocolAssumption DEF SlotsOK, UsedIds, Places
<1>2. ASSUME NEW j \in Places, slots[j] = id
      PROVE  Distance(id) < TableSlots /\ j = Probe(id, Distance(id))
  <2>1. PICK i \in Places : Reached(id, j, i)
    BY <1>1, <1>2 DEF SlotsOK, TableInv, Places
  <2>2. Probe(id, i) = j /\ \A k \in Places : k < i => slots[Probe(id, k)] \notin {Empty, id}
    BY <2>1 DEF Reached, Places
  <2>3. /\ Distance(id) \in 0 .. TableSlots
        /\ Distance(id) < TableSlots => slots[Probe(id, Distance(id))] \in {id, Empty}
        /\ \A k \in Places : k < Distance(id) => slots[Probe(id, k)] \notin {id, Empty}
    BY <1>1, Searched
  <2>4. ~ (i < Distance(id))
    BY <1>2, <2>2, <2>3
  <2>5. Distance(id) \in Places
    BY <1>1, <2>3, <2>4 DEF Places
  <2>6. ~ (Distance(id) < i)
    BY <1>1, <2>2, <2>3, <2>5 DEF Places
  <2> QED BY <1>1, <2>2, <2>4, <2>5, <2>6 DEF Places
<1>3. \E j \in Places : slots[j] = id
  BY DEF UsedIds, SlotsOK
<1> QED BY <1>1, <1>2, <1>3

LEMMA UsedFinite ==
  ASSUME SlotsOK
  PROVE  IsFiniteSet(UsedIds) /\ UsedIds \subseteq Ids
<1>1. IsFiniteSet(Places)
  BY FS_Interval, ProtocolAssumption DEF Places
<1>2. IsFiniteSet({slots[i] : i \in Places})
  <2>1. slots \in Surjection(Places, {slots[i] : i \in Places})
    BY DEF SlotsOK, Surjection
  <2> QED BY <1>1, <2>1, FS_Surjection
<1>3. UsedIds \subseteq {slots[i] : i \in Places} /\ UsedIds \subseteq Ids
  BY ProtocolAssumption DEF UsedIds, SlotsOK
<1> QED BY <1>2, <1>3, FS_Subset

(* A table without an empty slot holds as many ids as it has slots.        *)
LEMMA FullTable ==
  ASSUME SlotsOK, \A j \in Places : slots[j] # Empty
  PROVE  Cardinality(UsedIds) >= MaxRequests
<1>1. slots \in Injection(Places, UsedIds)
  <2>1. slots \in [Places -> UsedIds]
    BY DEF SlotsOK, UsedIds
  <2>2. ASSUME NEW i \in Places, NEW j \in Places, slots[i] = slots[j] PROVE i = j
    <3>1. slots[i] \in UsedIds
      BY <2>1
    <3> QED BY <2>2, <3>1, Found
  <2> QED BY <2>1, <2>2 DEF Injection, IsInjective
<1>2. Cardinality(Places) <= Cardinality(UsedIds)
  BY <1>1, UsedFinite, FS_Injection
<1>3. Cardinality(Places) = TableSlots
  BY FS_Interval, ProtocolAssumption DEF Places
<1>4. Cardinality(UsedIds) \in Nat
  BY UsedFinite, FS_CardinalityType
<1> QED BY <1>2, <1>3, <1>4, ProtocolAssumption

Room(id) ==
  /\ Cardinality(UsedIds) < MaxRequests
  /\ SumOver(KeyBytes, UsedIds \cup {id}) <= ArenaBytes

(* register tells a repeated id, a fresh one and one too many apart.       *)
LEMMA Registers ==
  ASSUME SlotsOK, NEW id \in Ids
  PROVE  /\ Register(id) \in {"new", "duplicate", "exhausted"}
         /\ Register(id) = "duplicate" <=> id \in UsedIds
         /\ Register(id) = "new" => Room(id) /\ Distance(id) < TableSlots
         /\ Register(id) = "exhausted" => ~Room(id)
<1> DEFINE d == Distance(id)
           Bytes == SumOver(KeyBytes, UsedIds)
<1>1. /\ TableSlots \in Nat \ {0} /\ Empty \notin Ids /\ KeyBytes \in [Ids -> Nat]
      /\ ArenaBytes \in Nat /\ MaxRequests \in Nat
  BY ProtocolAssumption
<1>2. /\ d \in 0 .. TableSlots
      /\ d < TableSlots => slots[Probe(id, d)] \in {id, Empty}
      /\ \A k \in Places : k < d => slots[Probe(id, k)] \notin {id, Empty}
  BY Searched
<1>3. IsFiniteSet(UsedIds) /\ UsedIds \subseteq Ids /\ Cardinality(UsedIds) \in Nat
  BY UsedFinite, FS_CardinalityType
<1>4. Bytes \in Nat
  BY <1>1, <1>3, SumFacts
<1>5. id \in UsedIds => d < TableSlots /\ slots[Probe(id, d)] = id
  BY Found
<1>6. d < TableSlots /\ slots[Probe(id, d)] = id => id \in UsedIds
  <2>1. d < TableSlots => Probe(id, d) \in Places
    BY <1>1, <1>2, Probes DEF Places
  <2> QED BY <1>1, <2>1 DEF UsedIds, SlotsOK
<1>7. id \notin UsedIds => SumOver(KeyBytes, UsedIds \cup {id}) = KeyBytes[id] + Bytes
  <2> SUFFICES ASSUME id \notin UsedIds
               PROVE  SumOver(KeyBytes, UsedIds \cup {id}) = KeyBytes[id] + Bytes
    OBVIOUS
  <2> DEFINE S == UsedIds \cup {id}
  <2>1. IsFiniteSet(S) /\ (\A x \in S : KeyBytes[x] \in Nat) /\ id \in S
    BY <1>1, <1>3, FS_AddElement
  <2>2. S \ {id} = UsedIds
    OBVIOUS
  <2> HIDE DEF S
  <2>3. SumOver(KeyBytes, S) = KeyBytes[id] + SumOver(KeyBytes, S \ {id})
    BY <2>1, SumFacts
  <2> QED BY <2>2, <2>3 DEF S
<1>8. KeyBytes[id] > ArenaBytes - Bytes <=> ~ (KeyBytes[id] + Bytes <= ArenaBytes)
  <2>1. KeyBytes[id] \in Nat
    BY <1>1
  <2> HIDE DEF Bytes
  <2> QED BY <1>1, <1>4, <2>1
<1>9. Register(id) = IF d = TableSlots THEN "exhausted"
                     ELSE IF slots[Probe(id, d)] = id THEN "duplicate"
                     ELSE IF Cardinality(UsedIds) >= MaxRequests \/ KeyBytes[id] > ArenaBytes - Bytes
                     THEN "exhausted" ELSE "new"
  BY ArenaIsSum DEF Register
<1>10. d = TableSlots => Cardinality(UsedIds) >= MaxRequests
  <2> SUFFICES ASSUME d = TableSlots PROVE \A j \in Places : slots[j] # Empty
    BY FullTable
  <2> TAKE j \in Places
  <2>1. PICK i \in Places : Probe(id, i) = j
    BY Probes
  <2> QED BY <1>1, <1>2, <2>1 DEF Places
<1>11. Room(id) <=> Cardinality(UsedIds) < MaxRequests /\ SumOver(KeyBytes, UsedIds \cup {id}) <= ArenaBytes
  BY DEF Room
<1> HIDE DEF d, Bytes
<1>12. CASE d = TableSlots
  BY <1>1, <1>2, <1>3, <1>5, <1>9, <1>10, <1>11, <1>12 DEF d
<1>13. CASE d # TableSlots
  <2>1. d < TableSlots
    BY <1>1, <1>2, <1>13
  <2> QED BY <1>1, <1>3, <1>5, <1>6, <1>7, <1>8, <1>9, <1>11, <1>13, <2>1 DEF d
<1> QED BY <1>12, <1>13

(* A new id is put where a probe will find it, and hides no other.         *)
LEMMA Remembers ==
  ASSUME SlotsOK, NEW id \in Ids, Register(id) = "new", Remember(id)
  PROVE  SlotsOK' /\ UsedIds' = UsedIds \cup {id}
<1> DEFINE d == Distance(id)
           p == Probe(id, d)
<1>1. TableSlots \in Nat \ {0} /\ Empty \notin Ids
  BY ProtocolAssumption
<1>2. id \notin UsedIds /\ d < TableSlots
  BY Registers
<1>3. /\ d \in Places /\ p \in Places
      /\ \A k \in Places : k < d => slots[Probe(id, k)] \notin {id, Empty}
  <2>1. d \in Places
    BY <1>1, <1>2, Searched DEF Places
  <2> QED BY <2>1, Searched, Probes
<1>4. slots[p] = Empty
  <2>1. slots[p] \in {id, Empty}
    BY <1>2, Searched
  <2>2. slots[p] = id => id \in UsedIds
    BY <1>1, <1>3 DEF UsedIds, SlotsOK
  <2> QED BY <1>2, <2>1, <2>2
<1> HIDE DEF d, p
<1>5. /\ slots' \in [Places -> Ids \cup {Empty}]
      /\ slots'[p] = id
      /\ \A j \in Places : j # p => slots'[j] = slots[j]
  BY <1>3 DEF Remember, SlotsOK, d, p
<1>6. ASSUME NEW j \in Places, slots'[j] # Empty
      PROVE  \E i \in Places : /\ Probe(slots'[j], i) = j
                               /\ \A k \in 0 .. i - 1 : slots'[Probe(slots'[j], k)] \notin {Empty, slots'[j]}
  <2>1. CASE j = p
    <3>1. Probe(id, d) = p
      BY DEF p
    <3>2. ASSUME NEW k \in 0 .. d - 1 PROVE slots'[Probe(id, k)] \notin {Empty, id}
      <4>1. k \in Places /\ k < d /\ k # d
        BY <1>1, <1>3, <3>2 DEF Places
      <4>2. Probe(id, k) \in Places /\ Probe(id, k) # p
        BY <1>3, <3>1, <4>1, Probes
      <4> QED BY <1>3, <1>5, <4>1, <4>2
    <3> QED BY <1>3, <1>5, <2>1, <3>1, <3>2
  <2>2. CASE j # p
    <3> DEFINE x == slots[j]
    <3>1. slots'[j] = x /\ x # Empty /\ x \in Ids
      BY <1>5, <1>6, <2>2 DEF SlotsOK
    <3>2. PICK i \in Places : Reached(x, j, i)
      BY <3>1 DEF SlotsOK, TableInv, Places
    <3>3. ASSUME NEW k \in 0 .. i - 1 PROVE slots'[Probe(x, k)] \notin {Empty, x}
      <4>1. slots[Probe(x, k)] \notin {Empty, x}
        BY <3>2 DEF Reached
      <4>2. k \in Places
        BY <1>1, <3>2, <3>3 DEF Places
      <4>3. Probe(x, k) \in Places
        BY <3>1, <4>2, Probes
      <4> QED BY <1>4, <1>5, <4>1, <4>3
    <3> QED BY <3>1, <3>2, <3>3 DEF Reached
  <2> QED BY <2>1, <2>2
<1>7. TableInv'
  BY <1>6 DEF TableInv, Reached, Places, Probe
<1>8. UsedIds' = UsedIds \cup {id}
  <2>1. DOMAIN slots = Places /\ DOMAIN slots' = Places
    BY <1>5 DEF SlotsOK
  <2> QED BY <1>1, <1>3, <1>4, <1>5, <2>1 DEF UsedIds
<1> QED BY <1>5, <1>7, <1>8 DEF SlotsOK

-------------------------------------------------------------------------------
(* What a client may expect                                                *)

(* What a frame may get depends on the frames up to it, ...                *)
LEMMA PrefixKeeps ==
  ASSUME NEW n \in Nat, \A k \in 1 .. n : frames'[k] = frames[k]
  PROVE  /\ \A j \in 1 .. n + 1 : /\ EarlierIds(j)' = EarlierIds(j)
                                 /\ InitializedBefore(j)' = InitializedBefore(j)
                                 /\ ReadyBefore(j)' = ReadyBefore(j)
         /\ \A j \in 1 .. n : Expected(j)' = Expected(j)
<1>1. ASSUME NEW j \in 1 .. n PROVE IsRequest(j)' = IsRequest(j) /\ frames'[j].id = frames[j].id
  BY DEF IsRequest
<1>2. ASSUME NEW j \in 1 .. n + 1 PROVE EarlierIds(j)' = EarlierIds(j)
  <2>1. 1 .. j - 1 \subseteq 1 .. n
    OBVIOUS
  <2> QED BY <1>1, <2>1 DEF EarlierIds
<1>3. ASSUME NEW j \in 1 .. n PROVE Fresh(j)' = Fresh(j) /\ WithinLimits(j)' = WithinLimits(j)
  <2>1. EarlierIds(j)' = EarlierIds(j)
    BY <1>2
  <2> QED BY <1>1, <2>1 DEF Fresh, WithinLimits
<1>4. ASSUME NEW j \in 1 .. n PROVE Initializes(j)' = Initializes(j)
  BY <1>3 DEF Initializes
<1>5. ASSUME NEW j \in 1 .. n + 1 PROVE InitializedBefore(j)' = InitializedBefore(j)
  <2>1. 1 .. j - 1 \subseteq 1 .. n
    OBVIOUS
  <2> QED BY <1>4, <2>1 DEF InitializedBefore
<1>6. ASSUME NEW j \in 1 .. n + 1 PROVE ReadyBefore(j)' = ReadyBefore(j)
  <2>1. 1 .. j - 1 \subseteq 1 .. n /\ 1 .. j - 1 \subseteq 1 .. n + 1
    OBVIOUS
  <2> QED BY <1>5, <2>1 DEF ReadyBefore
<1>7. ASSUME NEW j \in 1 .. n PROVE Expected(j)' = Expected(j)
  <2>1. j \in 1 .. n + 1
    OBVIOUS
  <2>2. /\ IsRequest(j)' = IsRequest(j) /\ Fresh(j)' = Fresh(j) /\ WithinLimits(j)' = WithinLimits(j)
        /\ Initializes(j)' = Initializes(j) /\ InitializedBefore(j)' = InitializedBefore(j)
        /\ ReadyBefore(j)' = ReadyBefore(j) /\ frames'[j] = frames[j]
    BY <1>1, <1>3, <1>4, <1>5, <1>6, <2>1
  <2>3. Dispatched(j)' = Dispatched(j)
    BY <2>2 DEF Dispatched
  <2> QED BY <2>2, <2>3 DEF Expected
<1> QED BY <1>2, <1>5, <1>6, <1>7

(* ... and a frame adds to them what it is itself.                         *)
LEMMA NextExpectation ==
  ASSUME NEW n \in Nat \ {0}
  PROVE  /\ EarlierIds(1) = {} /\ ~InitializedBefore(1) /\ ~ReadyBefore(1)
         /\ EarlierIds(n + 1) = EarlierIds(n) \cup (IF IsRequest(n) THEN {frames[n].id} ELSE {})
         /\ InitializedBefore(n + 1) <=> InitializedBefore(n) \/ Initializes(n)
         /\ ReadyBefore(n + 1) <=>
              \/ ReadyBefore(n)
              \/ /\ Classify(frames[n]) = "notification" /\ frames[n].method = "notifications/initialized"
                 /\ frames[n].syntax = "fine" /\ InitializedBefore(n)
         /\ ReadyBefore(n) => InitializedBefore(n)
<1>1. 1 .. (n + 1) - 1 = (1 .. n - 1) \cup {n} /\ 1 .. 1 - 1 = {}
  OBVIOUS
<1>2. EarlierIds(1) = {} /\ ~InitializedBefore(1) /\ ~ReadyBefore(1)
  BY <1>1 DEF EarlierIds, InitializedBefore, ReadyBefore
<1>3. EarlierIds(n + 1) = EarlierIds(n) \cup (IF IsRequest(n) THEN {frames[n].id} ELSE {})
  BY <1>1 DEF EarlierIds
<1>4. InitializedBefore(n + 1) <=> InitializedBefore(n) \/ Initializes(n)
  BY <1>1 DEF InitializedBefore
<1>5. ReadyBefore(n + 1) <=>
        \/ ReadyBefore(n)
        \/ /\ Classify(frames[n]) = "notification" /\ frames[n].method = "notifications/initialized"
           /\ frames[n].syntax = "fine" /\ InitializedBefore(n)
  BY <1>1 DEF ReadyBefore
<1>6. ReadyBefore(n) => InitializedBefore(n)
  <2> SUFFICES ASSUME NEW k \in 1 .. n - 1, InitializedBefore(k) PROVE InitializedBefore(n)
    BY DEF ReadyBefore
  <2>1. 1 .. k - 1 \subseteq 1 .. n - 1
    OBVIOUS
  <2> QED BY <2>1 DEF InitializedBefore
<1> QED BY <1>2, <1>3, <1>4, <1>5, <1>6

(* A message is classified one way, and a request has an id.               *)
LEMMA Classes ==
  ASSUME NEW m \in Messages
  PROVE  /\ m \in MessageSpace
         /\ Classify(m) \in {"parseError", "invalidRequest", "response", "notification", "request"}
         /\ Classify(m) = "request" => m.id \in Ids /\ m.method \in Methods
                                       /\ m.syntax \in {"params", "fine"}
         /\ Classify(m) = "notification" => m.syntax \in {"params", "fine"}
<1>1. m \in MessageSpace
  BY ProtocolAssumption
<1> QED BY <1>1 DEF MessageSpace, Classify, Methods, Requests, Notifications

-------------------------------------------------------------------------------
(* What serve decides about the frame in hand                              *)

Serving(m) ==
  /\ Handling(m) /\ m \in Messages /\ frames \in Seq(Messages) /\ frames # <<>>
  /\ SlotsOK /\ lifecycle \in {"New", "AwaitingInitialized", "Ready"} /\ Decided

LEMMA InHandFacts ==
  ASSUME NEW m, Serving(m)
  PROVE  /\ Len(frames) \in Nat \ {0} /\ Bound = Len(frames) /\ frames[Len(frames)] = m
         /\ UsedIds = EarlierIds(Len(frames))
         /\ lifecycle = "New" <=> ~InitializedBefore(Len(frames))
         /\ lifecycle = "Ready" <=> ReadyBefore(Len(frames))
         /\ IsRequest(Len(frames)) <=> Classify(m) = "request"
<1>1. Len(frames) \in Nat \ {0} /\ frames[Len(frames)] = m
  BY DEF Serving, Handling, Last
<1>2. Behind /\ AtWork
  BY DEF Serving, Handling, Behind, AtWork, InHand
<1> QED BY <1>1, <1>2 DEF Serving, Decided, Bound, IsRequest

(* Room is WithinLimits for an id that is not used yet.                    *)
LEMMA RegistersRight ==
  ASSUME NEW m, Serving(m), Classify(m) = "request"
  PROVE  LET n == Len(frames) IN
         /\ Register(m.id) = "duplicate" <=> IsRequest(n) /\ ~Fresh(n)
         /\ Register(m.id) = "new" => Fresh(n) /\ WithinLimits(n)
         /\ Register(m.id) = "exhausted" => Fresh(n) /\ ~WithinLimits(n)
         /\ Register(m.id) \in {"new", "duplicate", "exhausted"}
<1>1. m.id \in Ids
  BY Classes DEF Serving
<1>2. /\ Register(m.id) \in {"new", "duplicate", "exhausted"}
      /\ Register(m.id) = "duplicate" <=> m.id \in UsedIds
      /\ Register(m.id) = "new" => Room(m.id)
      /\ Register(m.id) = "exhausted" => ~Room(m.id)
  BY <1>1, Registers DEF Serving
<1>3. Fresh(Len(frames)) <=> m.id \notin UsedIds
  BY InHandFacts DEF Fresh
<1>4. WithinLimits(Len(frames)) <=> Room(m.id)
  BY InHandFacts, ArenaIsSum DEF WithinLimits, Room
<1> QED BY <1>2, <1>3, <1>4, InHandFacts

(* The cases of Expected exclude one another.                              *)
LEMMA ExpectedCases ==
  ASSUME NEW n
  PROVE  LET m == frames[n] IN
         /\ Classify(m) \in {"parseError", "invalidRequest"} => Expected(n) = {Classify(m)}
         /\ Classify(m) \in {"response", "notification"} => Expected(n) = {}
         /\ IsRequest(n) /\ ~Fresh(n) => Expected(n) = {"invalidRequest"}
         /\ Fresh(n) /\ ~WithinLimits(n) => Expected(n) = {"requestLimit"}
         /\ Initializes(n) /\ ~InitializedBefore(n) => Expected(n) = {"initialize"}
<1> DEFINE c == Classify(frames[n])
<1>1. /\ IsRequest(n) <=> c = "request"
      /\ Fresh(n) => IsRequest(n)
      /\ Initializes(n) => Fresh(n) /\ WithinLimits(n)
      /\ Dispatched(n) <=> Fresh(n) /\ WithinLimits(n) /\ (Initializes(n) => InitializedBefore(n))
  BY DEF IsRequest, Fresh, Initializes, Dispatched
<1>2. c = "request" => c \notin {"parseError", "invalidRequest"} /\ c \notin {"response", "notification"}
  OBVIOUS
<1> HIDE DEF c
<1>3. c \in {"parseError", "invalidRequest"} => Expected(n) = {c}
  BY <1>1, <1>2 DEF Expected, c
<1>4. c \in {"response", "notification"} => Expected(n) = {}
  BY <1>1, <1>2 DEF Expected, c
<1>5. IsRequest(n) /\ ~Fresh(n) => Expected(n) = {"invalidRequest"}
  BY <1>1, <1>2 DEF Expected, c
<1>6. Fresh(n) /\ ~WithinLimits(n) => Expected(n) = {"requestLimit"}
  BY <1>1, <1>2 DEF Expected, c
<1>7. Initializes(n) /\ ~InitializedBefore(n) => Expected(n) = {"initialize"}
  BY <1>1, <1>2 DEF Expected, c
<1> QED BY <1>3, <1>4, <1>5, <1>6, <1>7 DEF c

LEMMA UnregisteredExpected ==
  ASSUME NEW m, Serving(m)
  PROVE  /\ Classify(m) \in {"parseError", "invalidRequest"} => Expected(Len(frames)) = {Classify(m)}
         /\ Classify(m) \in {"response", "notification"} => Expected(Len(frames)) = {}
BY InHandFacts, ExpectedCases

LEMMA RefusedExpected ==
  ASSUME NEW m, Serving(m), Classify(m) = "request"
  PROVE  /\ Register(m.id) = "duplicate" => Expected(Len(frames)) = {"invalidRequest"}
         /\ Register(m.id) = "exhausted" => Expected(Len(frames)) = {"requestLimit"}
BY InHandFacts, RegistersRight, ExpectedCases

LEMMA DecisionCases ==
  ASSUME NEW m \in Messages, Classify(m) = "request"
  PROVE  /\ Decision(m) =
              IF ~Known(m) THEN "methodNotFound" ELSE IF m.syntax = "params" THEN "invalidParams"
              ELSE IF m.method = "initialize" THEN (IF lifecycle = "New" THEN "initialize" ELSE "invalidRequest")
              ELSE IF m.method = "ping" THEN "pong"
              ELSE IF m.method = "tools/list" THEN (IF lifecycle = "Ready" THEN "tools" ELSE "invalidRequest")
              ELSE IF lifecycle = "Ready" THEN "call" ELSE "invalidRequest"
         /\ Decision(m) \in Replies \cup {"call"}
<1>1. m.method \in Methods /\ m.syntax \in {"params", "fine"}
  BY Classes
<1>2. Known(m) <=> m.method \in Requests
  BY DEF Known
<1>3. Decision(m) =
        IF ~Known(m) THEN "methodNotFound" ELSE IF m.syntax = "params" THEN "invalidParams"
        ELSE IF m.method = "initialize" THEN (IF lifecycle = "New" THEN "initialize" ELSE "invalidRequest")
        ELSE IF m.method = "ping" THEN "pong"
        ELSE IF m.method = "tools/list" THEN (IF lifecycle = "Ready" THEN "tools" ELSE "invalidRequest")
        ELSE IF lifecycle = "Ready" THEN "call" ELSE "invalidRequest"
  BY <1>1, <1>2 DEF Decision, Schema, Requests
<1>4. Decision(m) \in Replies \cup {"call"}
  BY <1>3 DEF Replies
<1> QED BY <1>3, <1>4

(* The lifecycle's decision is one of the answers the request may get, and *)
(* "call" is the decision exactly when it gets none here.                  *)
LEMMA DecisionExpected ==
  ASSUME NEW m, Serving(m), Classify(m) = "request", Register(m.id) = "new"
  PROVE  /\ Decision(m) = "initialize" <=> Initializes(Len(frames)) /\ ~InitializedBefore(Len(frames))
         /\ Decision(m) = "initialize" => Expected(Len(frames)) = {"initialize"}
         /\ Decision(m) = "call" => Expected(Len(frames)) = {}
         /\ Decision(m) \notin {"initialize", "call"} => {Decision(m), "busy"} \subseteq Expected(Len(frames))
<1> DEFINE n == Len(frames)
           first == Initializes(n) /\ ~InitializedBefore(n)
<1> SUFFICES /\ Decision(m) = "initialize" <=> first
             /\ Decision(m) = "initialize" => Expected(n) = {"initialize"}
             /\ Decision(m) = "call" => Expected(n) = {}
             /\ Decision(m) \notin {"initialize", "call"} => {Decision(m), "busy"} \subseteq Expected(n)
  OBVIOUS
<1>1. /\ Fresh(n) /\ WithinLimits(n) /\ IsRequest(n) /\ frames[n] = m
      /\ lifecycle = "New" <=> ~InitializedBefore(n)
      /\ lifecycle = "Ready" <=> ReadyBefore(n)
  BY InHandFacts, RegistersRight
<1>2. m.method \in Methods /\ m.syntax \in {"params", "fine"}
  BY Classes DEF Serving
<1>3. Known(m) <=> m.method \in Requests
  BY DEF Known
<1>4. Initializes(n) <=> m.method = "initialize" /\ m.syntax = "fine"
  BY <1>1 DEF Initializes
<1>5. Dispatched(n) <=> (Initializes(n) => InitializedBefore(n))
  BY <1>1 DEF Dispatched
<1>6. /\ Initializes(n) /\ ~InitializedBefore(n) => Expected(n) = {"initialize"}
      /\ ~(Initializes(n) /\ ~InitializedBefore(n)) =>
           Expected(n) =
             IF ~Known(m) THEN {"methodNotFound", "busy"}
             ELSE IF m.syntax = "params" THEN {"invalidParams", "busy"}
             ELSE IF m.method = "ping" THEN {"pong", "busy"}
             ELSE IF m.method = "initialize" \/ ~ReadyBefore(n) THEN {"invalidRequest", "busy"}
             ELSE IF m.method = "tools/list" THEN {"tools", "busy"} ELSE {}
  BY <1>1, <1>5, ExpectedCases DEF Expected, IsRequest
<1>7. Decision(m) =
        IF ~Known(m) THEN "methodNotFound" ELSE IF m.syntax = "params" THEN "invalidParams"
        ELSE IF m.method = "initialize" THEN (IF lifecycle = "New" THEN "initialize" ELSE "invalidRequest")
        ELSE IF m.method = "ping" THEN "pong"
        ELSE IF m.method = "tools/list" THEN (IF lifecycle = "Ready" THEN "tools" ELSE "invalidRequest")
        ELSE IF lifecycle = "Ready" THEN "call" ELSE "invalidRequest"
  BY DecisionCases DEF Serving
<1> HIDE DEF n
<1>8. m.method \in Requests => m.method \in {"initialize", "ping", "tools/list", "tools/call"}
  BY DEF Requests
<1>9. CASE ~Known(m)
  <2>1. ~first /\ Decision(m) = "methodNotFound" /\ Expected(n) = {"methodNotFound", "busy"}
    BY <1>3, <1>4, <1>6, <1>7, <1>9 DEF Requests
  <2> HIDE DEF first
  <2> QED BY <2>1
<1>10. CASE Known(m) /\ m.syntax = "params"
  <2>1. ~first /\ Decision(m) = "invalidParams" /\ Expected(n) = {"invalidParams", "busy"}
    BY <1>4, <1>6, <1>7, <1>10
  <2> HIDE DEF first
  <2> QED BY <2>1
<1>11. CASE Known(m) /\ m.syntax = "fine" /\ m.method = "initialize"
  <2>1. /\ first <=> lifecycle = "New"
        /\ Decision(m) = IF lifecycle = "New" THEN "initialize" ELSE "invalidRequest"
    BY <1>1, <1>4, <1>7, <1>11
  <2>2. Expected(n) = IF lifecycle = "New" THEN {"initialize"} ELSE {"invalidRequest", "busy"}
    BY <1>6, <1>11, <2>1
  <2> HIDE DEF first
  <2> QED BY <2>1, <2>2
<1>12. CASE Known(m) /\ m.syntax = "fine" /\ m.method = "ping"
  <2>1. ~first /\ Decision(m) = "pong" /\ Expected(n) = {"pong", "busy"}
    BY <1>4, <1>6, <1>7, <1>12
  <2> HIDE DEF first
  <2> QED BY <2>1
<1>13. CASE Known(m) /\ m.syntax = "fine" /\ m.method = "tools/list"
  <2>1. /\ ~first
        /\ Decision(m) = IF lifecycle = "Ready" THEN "tools" ELSE "invalidRequest"
        /\ Expected(n) = IF lifecycle = "Ready" THEN {"tools", "busy"} ELSE {"invalidRequest", "busy"}
    BY <1>1, <1>4, <1>6, <1>7, <1>13
  <2> HIDE DEF first
  <2> QED BY <2>1
<1>14. CASE Known(m) /\ m.syntax = "fine" /\ m.method = "tools/call"
  <2>1. /\ ~first
        /\ Decision(m) = IF lifecycle = "Ready" THEN "call" ELSE "invalidRequest"
        /\ Expected(n) = IF lifecycle = "Ready" THEN {} ELSE {"invalidRequest", "busy"}
    BY <1>1, <1>4, <1>6, <1>7, <1>14
  <2> HIDE DEF first
  <2> QED BY <2>1
<1> QED BY <1>2, <1>3, <1>8, <1>9, <1>10, <1>11, <1>12, <1>13, <1>14
-------------------------------------------------------------------------------
(* Types and control                                                       *)

USE DEF pumpVars, readerVars, stopVars, outVars, busyVars

(* What is left when a goroutine's write is over.                          *)
LEMMA WriteReturned ==
  ASSUME NEW w \in Writers, NEW ok \in BOOLEAN, WriteReturns(w, ok)
  PROVE  /\ pending' = [pending EXCEPT ![w] = NoAnswer]
         /\ w # "reader" => UNCHANGED readerVars
         /\ w # "busy" => UNCHANGED busyWorker
         /\ w = "busy" => busyWorker' = IF ok THEN "running" ELSE "ended"
         /\ w = "reader" =>
              IF ~ok THEN Returns("error")
              ELSE IF reader = "writingLast" THEN Returns("nil")
              ELSE reader' = "acking" /\ UNCHANGED result
<1>1. CASE w = "worker"
  BY <1>1 DEF WriteReturns
<1>2. CASE w = "busy"
  BY <1>2 DEF WriteReturns
<1>3. CASE w = "reader"
  BY <1>3 DEF WriteReturns
<1> QED BY <1>1, <1>2, <1>3 DEF Writers

LEMMA WriteEffect ==
  ASSUME NEW w \in Writers, NEW ok \in BOOLEAN, WriteReturns(w, ok), pending \in [Writers -> Answers]
  PROVE  /\ \A v \in Writers : pending'[v] = IF v = w THEN NoAnswer ELSE pending[v]
         /\ w # "reader" => UNCHANGED <<reader, result>>
         /\ w = "reader" => reader' \in {"acking", "closing"} /\ result' \in {result, "error", "nil"}
         /\ (w = "busy" /\ busyWorker' = IF ok THEN "running" ELSE "ended") \/ UNCHANGED busyWorker
BY WriteReturned DEF Returns

LEMMA AnswerTypes ==
  /\ NoAnswer \in Answers
  /\ \A n \in Nat, a \in Replies : Answer(n, a) \in Answers /\ (n # 0 => Answer(n, a) # NoAnswer)
BY DEF NoAnswer, Answer, Answers

Control == TypeOK /\ Hands /\ Stopping /\ BusyInv

(* The variables keep their types.                                         *)
LEMMA NextTypeOK ==
  ASSUME TypeOK, [Next]_vars
  PROVE  TypeOK'
<1> USE DEF TypeOK, Pumps, Readers, InHand, Ended, Results
<1>1. ASSUME NEW m \in Messages, Receive(m) PROVE TypeOK'
  BY <1>1 DEF Receive
<1>2. CASE InputEnds
  BY <1>2 DEF InputEnds
<1>3. CASE PumpStops
  BY <1>3 DEF PumpStops
<1>4. CASE TakeFrame
  BY <1>4 DEF TakeFrame
<1>5. CASE TakeEnd
  BY <1>5 DEF TakeEnd
<1>6. CASE TakeError
  BY <1>6 DEF TakeError, Returns
<1>7. CASE SelectEnds
  BY <1>7 DEF SelectEnds, Returns
<1>8. CASE HandleFatal
  BY <1>8 DEF HandleFatal, Returns
<1>9. ASSUME NEW m \in Messages, HandleBroken(m) PROVE TypeOK'
  <2>1. Len(frames) \in Nat /\ Classify(m) \in Replies
    BY <1>9 DEF HandleBroken, Replies
  <2>2. Answer(Len(frames), Classify(m)) \in Answers
    BY <2>1, AnswerTypes
  <2>3. pending' \in [Writers -> Answers] /\ reader' = "writing"
    BY <1>9, <2>2 DEF HandleBroken, AnswerSelf
  <2> QED BY <1>9, <2>3 DEF HandleBroken
<1>10. ASSUME NEW m \in Messages, HandleUnanswered(m) PROVE TypeOK'
  BY <1>10 DEF HandleUnanswered, Handling
<1>11. ASSUME NEW m \in Messages, HandleRefusedId(m) PROVE TypeOK'
  <2>1. Len(frames) \in Nat /\ {"invalidRequest", "requestLimit"} \subseteq Replies
    BY DEF Replies
  <2>2. \A a \in {"invalidRequest", "requestLimit"} : Answer(Len(frames), a) \in Answers
    BY <2>1, AnswerTypes
  <2> QED BY <1>11, <2>2 DEF HandleRefusedId, Handling, AnswerSelf
<1>12. ASSUME NEW m \in Messages, HandleRequest(m) PROVE TypeOK'
  <2>1. Len(frames) \in Nat /\ Classify(m) = "request"
    BY <1>12 DEF HandleRequest
  <2>2. Decision(m) # "call" => Answer(Len(frames), Decision(m)) \in Answers
    BY <2>1, AnswerTypes, DecisionCases
  <2>3. m.id \in Ids
    BY <2>1, Classes
  <2>4. slots' \in [0 .. TableSlots - 1 -> Ids \cup {Empty}]
    BY <1>12, <2>3 DEF HandleRequest, Remember
  <2>5. /\ pending' \in [Writers -> Answers] /\ reader' \in {"writing", "acking", "queueing"}
        /\ lifecycle' \in {"New", "AwaitingInitialized", "Ready"} /\ busyWorker' \in {"none", "running", "ended"}
    BY <1>12, <2>2 DEF HandleRequest, AnswerSelf, Dispatch
  <2> QED BY <1>12, <2>4, <2>5 DEF HandleRequest
<1>13. CASE EnqueueBusy
  <2>1. Answer(Len(frames), "busy") \in Answers
    BY AnswerTypes DEF Replies
  <2> QED BY <1>13, <2>1 DEF EnqueueBusy
<1>14. CASE EnqueueFails
  BY <1>14 DEF EnqueueFails, Returns
<1>15. CASE Acknowledge
  BY <1>15 DEF Acknowledge
<1>16. CASE AcknowledgeFails
  BY <1>16 DEF AcknowledgeFails, Returns
<1>17. CASE Drained
  BY <1>17 DEF Drained, Returns
<1>18. CASE StopAccepting
  BY <1>18 DEF StopAccepting
<1>19. CASE ServeReturns
  BY <1>19 DEF ServeReturns, Stop
<1>20. ASSUME NEW w \in Writers, BeginWrite(w) PROVE TypeOK'
  BY <1>20 DEF BeginWrite
<1>21. ASSUME NEW w \in Writers, BeginRefused(w) PROVE TypeOK'
  <2>1. WriteReturns(w, FALSE)
    BY <1>21 DEF BeginRefused
  <2>2. pending' \in [Writers -> Answers]
    BY <2>1, WriteReturned, AnswerTypes
  <2>3. reader' \in Readers /\ result' \in Results /\ busyWorker' \in {"none", "running", "ended"}
    BY <2>1, WriteReturned DEF Writers, Returns
  <2> QED BY <1>21, <2>2, <2>3 DEF BeginRefused, StoreAsyncError, Stop
<1>22. ASSUME NEW w \in Writers, Write(w) PROVE TypeOK'
  <2>1. WriteReturns(w, TRUE)
    BY <1>22 DEF Write
  <2>2. pending' \in [Writers -> Answers]
    BY <2>1, WriteReturned, AnswerTypes
  <2>3. reader' \in Readers /\ result' \in Results /\ busyWorker' \in {"none", "running", "ended"}
    BY <2>1, WriteReturned DEF Writers, Returns
  <2> QED BY <1>22, <2>2, <2>3 DEF Write
<1>23. ASSUME NEW w \in Writers, WriteFails(w) PROVE TypeOK'
  <2>1. WriteReturns(w, FALSE)
    BY <1>23 DEF WriteFails
  <2>2. pending' \in [Writers -> Answers]
    BY <2>1, WriteReturned, AnswerTypes
  <2>3. reader' \in Readers /\ result' \in Results /\ busyWorker' \in {"none", "running", "ended"}
    BY <2>1, WriteReturned DEF Writers, Returns
  <2> QED BY <1>23, <2>2, <2>3 DEF WriteFails, StoreAsyncError, Stop
<1>24. CASE BusyTakes
  <2>1. Head(busyQueue) \in Answers /\ Tail(busyQueue) \in Seq(Answers)
    BY <1>24 DEF BusyTakes
  <2>2. pending' \in [Writers -> Answers]
    BY <1>24, <2>1 DEF BusyTakes
  <2> QED BY <1>24, <2>1, <2>2 DEF BusyTakes
<1>25. CASE BusyEnds
  <2>1. asyncError' \in {"none", "write", "fatal"} /\ gateStopped' \in BOOLEAN /\ terminalStopped' \in BOOLEAN
    BY <1>25 DEF BusyEnds, StoreAsyncError, Stop
  <2> QED BY <1>25, <2>1 DEF BusyEnds
<1>26. CASE CancelContext
  BY <1>26 DEF CancelContext
<1>27. CASE FatalRaised
  BY <1>27 DEF FatalRaised
<1>28. CASE ToolWriteFails
  BY <1>28 DEF ToolWriteFails, StoreAsyncError, Stop
<1>29. CASE UNCHANGED vars
  BY <1>29 DEF vars
<1> QED BY <1>1, <1>2, <1>3, <1>4, <1>5, <1>6, <1>7, <1>8, <1>9, <1>10, <1>11, <1>12, <1>13, <1>14, <1>15, <1>16, <1>17, <1>18, <1>19, <1>20, <1>21, <1>22, <1>23, <1>24, <1>25, <1>26, <1>27, <1>28, <1>29 DEF Next, Pump, Reader, Writer, Served

(* Every step leaves pump, reader, writers and the two stops in order.     *)
LEMMA NextControl ==
  ASSUME Control, [Next]_vars
  PROVE  Hands' /\ Stopping' /\ BusyInv'
<1> USE DEF Control, Hands, Stopping, BusyInv, Quiet, InHand, Ended
<1>1. ASSUME NEW m \in Messages, Receive(m) PROVE Hands' /\ Stopping' /\ BusyInv'
  BY <1>1 DEF Receive
<1>2. CASE InputEnds
  BY <1>2 DEF InputEnds
<1>3. CASE PumpStops
  BY <1>3 DEF PumpStops
<1>4. CASE TakeFrame
  BY <1>4 DEF TakeFrame
<1>5. CASE TakeEnd
  BY <1>5 DEF TakeEnd
<1>6. CASE TakeError
  BY <1>6 DEF TakeError, Returns
<1>7. CASE SelectEnds
  BY <1>7 DEF SelectEnds, Returns
<1>8. CASE HandleFatal
  BY <1>8 DEF HandleFatal, Returns
<1>9. ASSUME NEW m \in Messages, HandleBroken(m) PROVE Hands' /\ Stopping' /\ BusyInv'
  <2>1. frames # <<>> /\ frames \in Seq(Messages) /\ pending \in [Writers -> Answers]
    BY <1>9 DEF HandleBroken, Handling, TypeOK
  <2>2. Len(frames) # 0
    BY <2>1
  <2>3. \A a : Answer(Len(frames), a) # NoAnswer
    BY <2>2 DEF Answer, NoAnswer
  <2>4. "reader" \in Writers /\ "worker" \in Writers /\ "busy" \in Writers
    BY DEF Writers
  <2> QED BY <1>9, <2>1, <2>3, <2>4 DEF HandleBroken, Handling, AnswerSelf
<1>10. ASSUME NEW m \in Messages, HandleUnanswered(m) PROVE Hands' /\ Stopping' /\ BusyInv'
  BY <1>10 DEF HandleUnanswered, Handling
<1>11. ASSUME NEW m \in Messages, HandleRefusedId(m) PROVE Hands' /\ Stopping' /\ BusyInv'
  <2>1. frames # <<>> /\ frames \in Seq(Messages) /\ pending \in [Writers -> Answers]
    BY <1>11 DEF HandleRefusedId, Handling, TypeOK
  <2>2. Len(frames) # 0
    BY <2>1
  <2>3. \A a : Answer(Len(frames), a) # NoAnswer
    BY <2>2 DEF Answer, NoAnswer
  <2>4. /\ reader' \in {"writing", "writingLast"} /\ pending'["reader"] # NoAnswer
        /\ \A v \in Writers \ {"reader"} : pending'[v] = pending[v]
    BY <1>11, <2>1, <2>3 DEF HandleRefusedId, AnswerSelf, Writers
  <2>5. "reader" \in Writers /\ "busy" \in Writers \ {"reader"} /\ open \subseteq Writers
    BY DEF Writers, TypeOK
  <2> QED BY <1>11, <2>1, <2>4, <2>5 DEF HandleRefusedId, Handling
<1>12. ASSUME NEW m \in Messages, HandleRequest(m) PROVE Hands' /\ Stopping' /\ BusyInv'
  <2>1. frames # <<>> /\ frames \in Seq(Messages) /\ pending \in [Writers -> Answers]
    BY <1>12 DEF HandleRequest, Handling, TypeOK
  <2>2. Len(frames) # 0
    BY <2>1
  <2>3. \A a : Answer(Len(frames), a) # NoAnswer
    BY <2>2 DEF Answer, NoAnswer
  <2>4. \/ /\ reader' = "writing" /\ pending'["reader"] # NoAnswer /\ UNCHANGED busyWorker
           /\ \A v \in Writers \ {"reader"} : pending'[v] = pending[v]
        \/ /\ reader' = "acking" /\ UNCHANGED busyWorker /\ pending'["worker"] # NoAnswer
           /\ \A v \in Writers \ {"worker"} : pending'[v] = pending[v]
        \/ /\ reader' = "queueing" /\ busyWorker' = (IF busyWorker = "none" THEN "running" ELSE busyWorker)
           /\ UNCHANGED pending
        \/ reader' = "acking" /\ UNCHANGED <<busyWorker, pending>>
    BY <1>12, <2>1, <2>3 DEF HandleRequest, AnswerSelf, Dispatch, Writers
  <2>5. /\ "reader" \in Writers \ {"worker"} /\ "busy" \in Writers \ {"reader"} /\ "busy" \in Writers \ {"worker"}
        /\ open \subseteq Writers
    BY DEF Writers, TypeOK
  <2> QED BY <1>12, <2>1, <2>4, <2>5 DEF HandleRequest, Handling
<1>13. CASE EnqueueBusy
  BY <1>13 DEF EnqueueBusy
<1>14. CASE EnqueueFails
  BY <1>14 DEF EnqueueFails, Returns
<1>15. CASE Acknowledge
  BY <1>15 DEF Acknowledge
<1>16. CASE AcknowledgeFails
  BY <1>16 DEF AcknowledgeFails, Returns
<1>17. CASE Drained
  BY <1>17 DEF Drained, Returns
<1>18. CASE StopAccepting
  BY <1>18 DEF StopAccepting
<1>19. CASE ServeReturns
  BY <1>19 DEF ServeReturns, Stop
<1>20. ASSUME NEW w \in Writers, BeginWrite(w) PROVE Hands' /\ Stopping' /\ BusyInv'
  BY <1>20 DEF BeginWrite
<1>21. ASSUME NEW w \in Writers, BeginRefused(w) PROVE Hands' /\ Stopping' /\ BusyInv'
  <2>1. WriteReturns(w, FALSE) /\ pending[w] # NoAnswer /\ open' = open \ {w}
    BY <1>21 DEF BeginRefused, TypeOK
  <2>2. /\ pending \in [Writers -> Answers] /\ "reader" \in Writers /\ "busy" \in Writers
        /\ open \subseteq Writers
    BY DEF TypeOK, Writers
  <2>3. /\ \A v \in Writers : pending'[v] = IF v = w THEN NoAnswer ELSE pending[v]
        /\ w # "reader" => UNCHANGED <<reader, result>>
        /\ w = "reader" => reader' \in {"acking", "closing"} /\ result' \in {result, "error", "nil"}
        /\ (w = "busy" /\ busyWorker' = IF FALSE THEN "running" ELSE "ended") \/ UNCHANGED busyWorker
    BY <2>1, <2>2, WriteEffect
  <2>4. Hands'
    BY <1>21, <2>1, <2>2, <2>3 DEF BeginRefused
  <2>5. Stopping'
    BY <1>21, <2>1, <2>2, <2>3 DEF BeginRefused, StoreAsyncError, Stop
  <2>6. BusyInv'
    BY <1>21, <2>1, <2>2, <2>3 DEF BeginRefused, StoreAsyncError, Stop
  <2> QED BY <2>4, <2>5, <2>6
<1>22. ASSUME NEW w \in Writers, Write(w) PROVE Hands' /\ Stopping' /\ BusyInv'
  <2>1. WriteReturns(w, TRUE) /\ pending[w] # NoAnswer /\ open' = open \ {w}
    BY <1>22 DEF Write, TypeOK
  <2>2. /\ pending \in [Writers -> Answers] /\ "reader" \in Writers /\ "busy" \in Writers
        /\ open \subseteq Writers
    BY DEF TypeOK, Writers
  <2>3. /\ \A v \in Writers : pending'[v] = IF v = w THEN NoAnswer ELSE pending[v]
        /\ w # "reader" => UNCHANGED <<reader, result>>
        /\ w = "reader" => reader' \in {"acking", "closing"} /\ result' \in {result, "error", "nil"}
        /\ (w = "busy" /\ busyWorker' = IF TRUE THEN "running" ELSE "ended") \/ UNCHANGED busyWorker
    BY <2>1, <2>2, WriteEffect
  <2>4. Hands'
    BY <1>22, <2>1, <2>2, <2>3 DEF Write
  <2>5. Stopping'
    BY <1>22, <2>1, <2>2, <2>3 DEF Write
  <2>6. BusyInv'
    BY <1>22, <2>1, <2>2, <2>3 DEF Write
  <2> QED BY <2>4, <2>5, <2>6
<1>23. ASSUME NEW w \in Writers, WriteFails(w) PROVE Hands' /\ Stopping' /\ BusyInv'
  <2>1. WriteReturns(w, FALSE) /\ pending[w] # NoAnswer /\ open' = open \ {w}
    BY <1>23 DEF WriteFails, TypeOK
  <2>2. /\ pending \in [Writers -> Answers] /\ "reader" \in Writers /\ "busy" \in Writers
        /\ open \subseteq Writers
    BY DEF TypeOK, Writers
  <2>3. /\ \A v \in Writers : pending'[v] = IF v = w THEN NoAnswer ELSE pending[v]
        /\ w # "reader" => UNCHANGED <<reader, result>>
        /\ w = "reader" => reader' \in {"acking", "closing"} /\ result' \in {result, "error", "nil"}
        /\ (w = "busy" /\ busyWorker' = IF FALSE THEN "running" ELSE "ended") \/ UNCHANGED busyWorker
    BY <2>1, <2>2, WriteEffect
  <2>4. Hands'
    BY <1>23, <2>1, <2>2, <2>3 DEF WriteFails
  <2>5. Stopping'
    BY <1>23, <2>1, <2>2, <2>3 DEF WriteFails, StoreAsyncError, Stop
  <2>6. BusyInv'
    BY <1>23, <2>1, <2>2, <2>3 DEF WriteFails, StoreAsyncError, Stop
  <2> QED BY <2>4, <2>5, <2>6
<1>24. CASE BusyTakes
  BY <1>24 DEF BusyTakes
<1>25. CASE BusyEnds
  BY <1>25 DEF BusyEnds, StoreAsyncError, Stop
<1>26. CASE CancelContext
  BY <1>26 DEF CancelContext
<1>27. CASE FatalRaised
  BY <1>27 DEF FatalRaised
<1>28. CASE ToolWriteFails
  BY <1>28 DEF ToolWriteFails, StoreAsyncError, Stop
<1>29. CASE UNCHANGED vars
  BY <1>29 DEF vars
<1> QED BY <1>1, <1>2, <1>3, <1>4, <1>5, <1>6, <1>7, <1>8, <1>9, <1>10, <1>11, <1>12, <1>13, <1>14, <1>15, <1>16, <1>17, <1>18, <1>19, <1>20, <1>21, <1>22, <1>23, <1>24, <1>25, <1>26, <1>27, <1>28, <1>29 DEF Next, Pump, Reader, Writer, Served

-------------------------------------------------------------------------------
(* Ids and lifecycle                                                       *)

LEMMA DecidedThen ==
  ASSUME NEW n, AtWork' => Bound' = n,
         AtWork' => /\ UsedIds' = EarlierIds(n)'
                    /\ (lifecycle' = "New") <=> ~InitializedBefore(n)'
                    /\ (lifecycle' = "Ready") <=> ReadyBefore(n)'
  PROVE  Decided'
<1> SUFFICES ASSUME AtWork'
             PROVE  (/\ UsedIds = EarlierIds(Bound)
                     /\ lifecycle = "New" <=> ~InitializedBefore(Bound)
                     /\ lifecycle = "Ready" <=> ReadyBefore(Bound))'
  BY DEF Decided
<1>1. Bound' = n
  OBVIOUS
<1>2. EarlierIds(Bound)' = EarlierIds(n)'
  BY <1>1 DEF EarlierIds
<1>3. InitializedBefore(Bound)' <=> InitializedBefore(n)'
  BY <1>1 DEF InitializedBefore
<1>4. ReadyBefore(Bound)' <=> ReadyBefore(n)'
  BY <1>1 DEF ReadyBefore
<1> QED BY <1>2, <1>3, <1>4

LEMMA TableKept ==
  ASSUME UNCHANGED slots, TableInv
  PROVE  TableInv' /\ UsedIds' = UsedIds
BY DEF TableInv, Reached, Probe, UsedIds

(* A step that decides nothing about a frame leaves the tables right.      *)
LEMMA NothingDecided ==
  ASSUME TypeOK, Hands, TableInv, Decided, UNCHANGED <<slots, lifecycle>>,
         AtWork' => AtWork /\ Bound' = Bound,
         \A k \in 1 .. Len(frames) : frames'[k] = frames[k]
  PROVE  TableInv' /\ Decided'
<1>1. TableInv' /\ UsedIds' = UsedIds
  BY TableKept
<1>2. PICK n : n = Bound
  OBVIOUS
<1>3. Len(frames) \in Nat /\ n \in 1 .. Len(frames) + 1
  <2>1. frames \in Seq(Messages) /\ (Behind => frames # <<>>)
    BY DEF TypeOK, Hands, Behind, InHand
  <2>2. Len(frames) \in Nat /\ (Behind => Len(frames) # 0)
    BY <2>1
  <2> QED BY <1>2, <2>2 DEF Bound
<1>5. /\ EarlierIds(n)' = EarlierIds(n) /\ InitializedBefore(n)' = InitializedBefore(n)
      /\ ReadyBefore(n)' = ReadyBefore(n)
  BY <1>3, PrefixKeeps
<1>6. AtWork => /\ UsedIds = EarlierIds(n)
                /\ lifecycle = "New" <=> ~InitializedBefore(n)
                /\ lifecycle = "Ready" <=> ReadyBefore(n)
  BY <1>2 DEF Decided
<1> QED BY <1>1, <1>2, <1>5, <1>6, DecidedThen

(* serve has decided about the frame in hand.                              *)
LEMMA FrameDecided ==
  ASSUME NEW m, Serving(m), UNCHANGED frames,
         AtWork' => /\ ~Behind'
                    /\ UsedIds' = UsedIds \cup (IF Classify(m) = "request" THEN {m.id} ELSE {})
                    /\ lifecycle' = "New" <=> lifecycle = "New" /\ ~Initializes(Len(frames))
                    /\ lifecycle' = "Ready" <=>
                         \/ lifecycle = "Ready"
                         \/ /\ Classify(m) = "notification" /\ m.method = "notifications/initialized"
                            /\ m.syntax = "fine" /\ lifecycle # "New"
  PROVE  Decided'
<1>1. PICK n : n = Len(frames)
  OBVIOUS
<1>2. /\ n \in Nat \ {0} /\ frames[n] = m /\ UsedIds = EarlierIds(n)
      /\ lifecycle = "New" <=> ~InitializedBefore(n)
      /\ lifecycle = "Ready" <=> ReadyBefore(n)
      /\ IsRequest(n) <=> Classify(m) = "request"
  BY <1>1, InHandFacts
<1>3. /\ EarlierIds(n + 1) = EarlierIds(n) \cup (IF IsRequest(n) THEN {frames[n].id} ELSE {})
      /\ InitializedBefore(n + 1) <=> InitializedBefore(n) \/ Initializes(n)
      /\ ReadyBefore(n + 1) <=>
           \/ ReadyBefore(n)
           \/ /\ Classify(frames[n]) = "notification" /\ frames[n].method = "notifications/initialized"
              /\ frames[n].syntax = "fine" /\ InitializedBefore(n)
  BY <1>2, NextExpectation
<1>4. /\ EarlierIds(n + 1)' = EarlierIds(n + 1) /\ InitializedBefore(n + 1)' = InitializedBefore(n + 1)
      /\ ReadyBefore(n + 1)' = ReadyBefore(n + 1)
  BY <1>2, PrefixKeeps
<1>5. AtWork' => Bound' = n + 1
  BY <1>1, <1>2 DEF Bound
<1>6. AtWork' => UsedIds' = EarlierIds(n + 1)'
  BY <1>2, <1>3, <1>4
<1>7. AtWork' => ((lifecycle' = "New") <=> ~InitializedBefore(n + 1)')
  BY <1>1, <1>2, <1>3, <1>4
<1>8. AtWork' => ((lifecycle' = "Ready") <=> ReadyBefore(n + 1)')
  BY <1>2, <1>3, <1>4
<1> QED BY <1>5, <1>6, <1>7, <1>8, DecidedThen

(* Only the handling of a frame changes what the tables have to say.       *)
LEMMA NextDecided ==
  ASSUME Control, TableInv, Decided, [Next]_vars
  PROVE  TableInv' /\ Decided'
<1> DEFINE Plain == /\ UNCHANGED <<slots, lifecycle>> /\ (AtWork' => AtWork /\ Bound' = Bound)
                    /\ \A k \in 1 .. Len(frames) : frames'[k] = frames[k]
<1>0. Plain => TableInv' /\ Decided'
  BY NothingDecided DEF Control
<1> HIDE DEF Plain
<1> USE DEF AtWork, Bound, Behind, InHand, Ended
<1>1. ASSUME NEW m \in Messages, Receive(m) PROVE TableInv' /\ Decided'
  <2>1. frames \in Seq(Messages) /\ frames' = Append(frames, m)
    BY <1>1 DEF Receive, Control, TypeOK
  <2>2. Len(frames') = Len(frames) + 1 /\ \A k \in 1 .. Len(frames) : frames'[k] = frames[k]
    BY <2>1
  <2>3. Plain
    BY <1>1, <2>2 DEF Plain, Receive, Control, Hands
  <2> QED BY <1>0, <2>3
<1>2. CASE InputEnds
  <2>1. Plain
    BY <1>2 DEF Plain, Control, Hands, InputEnds
  <2> QED BY <1>0, <2>1
<1>3. CASE PumpStops
  <2>1. Plain
    BY <1>3 DEF Plain, Control, Hands, PumpStops
  <2> QED BY <1>0, <2>1
<1>4. CASE TakeFrame
  <2>1. Plain
    BY <1>4 DEF Plain, Control, Hands, TakeFrame
  <2> QED BY <1>0, <2>1
<1>5. CASE TakeEnd
  <2>1. Plain
    BY <1>5 DEF Plain, Control, Hands, TakeEnd
  <2> QED BY <1>0, <2>1
<1>6. CASE TakeError
  <2>1. Plain
    BY <1>6 DEF Plain, Control, Hands, TakeError, Returns
  <2> QED BY <1>0, <2>1
<1>7. CASE SelectEnds
  <2>1. Plain
    BY <1>7 DEF Plain, Control, Hands, SelectEnds, Returns
  <2> QED BY <1>0, <2>1
<1>8. CASE HandleFatal
  <2>1. Plain
    BY <1>8 DEF Plain, Control, Hands, HandleFatal, Returns
  <2> QED BY <1>0, <2>1
<1>9. ASSUME NEW m \in Messages, HandleBroken(m) PROVE TableInv' /\ Decided'
  <2>1. Serving(m) /\ Classify(m) # "request" /\ Classify(m) # "notification"
    BY <1>9 DEF HandleBroken, Serving, SlotsOK, Control, TypeOK, Hands, Places, Handling
  <2>2. UNCHANGED <<frames, slots, lifecycle>> /\ ~Behind'
    BY <1>9 DEF HandleBroken, AnswerSelf
  <2>3. ~Initializes(Len(frames))
    BY <2>1, InHandFacts DEF Initializes, Fresh
  <2> QED BY <2>1, <2>2, <2>3, FrameDecided, TableKept
<1>10. ASSUME NEW m \in Messages, HandleUnanswered(m) PROVE TableInv' /\ Decided'
  <2>1. Serving(m) /\ Classify(m) # "request"
    BY <1>10 DEF HandleUnanswered, Serving, SlotsOK, Control, TypeOK, Hands, Places, Handling
  <2>2. UNCHANGED <<frames, slots>> /\ ~Behind'
    BY <1>10 DEF HandleUnanswered
  <2>3. ~Initializes(Len(frames))
    BY <2>1, InHandFacts DEF Initializes, Fresh
  <2>4. Classify(m) = "notification" /\ m.method = "notifications/initialized" =>
          (Schema(m) = "accepted" <=> m.syntax = "fine")
    BY Classes DEF Schema, Known, Notifications
  <2>5. /\ lifecycle' = "New" <=> lifecycle = "New"
        /\ lifecycle' = "Ready" <=>
             \/ lifecycle = "Ready"
             \/ /\ Classify(m) = "notification" /\ m.method = "notifications/initialized"
                /\ m.syntax = "fine" /\ lifecycle # "New"
    BY <1>10, <2>1, <2>4 DEF HandleUnanswered, Serving
  <2> QED BY <2>1, <2>2, <2>3, <2>5, FrameDecided, TableKept
<1>11. ASSUME NEW m \in Messages, HandleRefusedId(m) PROVE TableInv' /\ Decided'
  <2>1. Serving(m) /\ Classify(m) = "request" /\ m.id \in Ids
    BY <1>11, Classes DEF HandleRefusedId, Serving, SlotsOK, Control, TypeOK, Hands, Places, Handling
  <2>2. /\ UNCHANGED <<frames, slots, lifecycle>> /\ ~Behind'
        /\ AtWork' => Register(m.id) = "duplicate"
    BY <1>11 DEF HandleRefusedId, AnswerSelf
  <2>3. Register(m.id) = "duplicate" => m.id \in UsedIds /\ ~Initializes(Len(frames))
    BY <2>1, Registers, RegistersRight DEF Serving, Initializes
  <2>4. UsedIds' = UsedIds
    BY <2>2 DEF UsedIds
  <2> QED BY <2>1, <2>2, <2>3, <2>4, FrameDecided, TableKept
<1>12. ASSUME NEW m \in Messages, HandleRequest(m) PROVE TableInv' /\ Decided'
  <2>1. Serving(m) /\ Classify(m) = "request" /\ m.id \in Ids /\ Register(m.id) = "new"
    BY <1>12, Classes DEF HandleRequest, Serving, SlotsOK, Control, TypeOK, Hands, Places, Handling
  <2>2. SlotsOK' /\ UsedIds' = UsedIds \cup {m.id}
    BY <1>12, <2>1, Remembers DEF HandleRequest, Serving
  <2>3. /\ UNCHANGED frames /\ ~Behind'
        /\ lifecycle' = IF Decision(m) = "initialize" THEN "AwaitingInitialized" ELSE lifecycle
    BY <1>12 DEF HandleRequest, AnswerSelf, Dispatch
  <2>4. Decision(m) = "initialize" <=> Initializes(Len(frames)) /\ lifecycle = "New"
    BY <2>1, DecisionExpected, InHandFacts
  <2>5. /\ lifecycle' = "New" <=> lifecycle = "New" /\ ~Initializes(Len(frames))
        /\ lifecycle' = "Ready" <=> lifecycle = "Ready"
    BY <2>1, <2>3, <2>4 DEF Serving
  <2> QED BY <2>1, <2>2, <2>3, <2>5, FrameDecided DEF SlotsOK
<1>13. CASE EnqueueBusy
  <2>1. Plain
    BY <1>13 DEF Plain, Control, Hands, EnqueueBusy
  <2> QED BY <1>0, <2>1
<1>14. CASE EnqueueFails
  <2>1. Plain
    BY <1>14 DEF Plain, Control, Hands, EnqueueFails, Returns
  <2> QED BY <1>0, <2>1
<1>15. CASE Acknowledge
  <2>1. Plain
    BY <1>15 DEF Plain, Control, Hands, Acknowledge
  <2> QED BY <1>0, <2>1
<1>16. CASE AcknowledgeFails
  <2>1. Plain
    BY <1>16 DEF Plain, Control, Hands, AcknowledgeFails, Returns
  <2> QED BY <1>0, <2>1
<1>17. CASE Drained
  <2>1. Plain
    BY <1>17 DEF Plain, Control, Hands, Drained, Returns
  <2> QED BY <1>0, <2>1
<1>18. CASE StopAccepting
  <2>1. Plain
    BY <1>18 DEF Plain, Control, Hands, StopAccepting
  <2> QED BY <1>0, <2>1
<1>19. CASE ServeReturns
  <2>1. Plain
    BY <1>19 DEF Plain, Control, Hands, ServeReturns, Stop
  <2> QED BY <1>0, <2>1
<1>20. ASSUME NEW w \in Writers, BeginWrite(w) PROVE TableInv' /\ Decided'
  <2>1. Plain
    BY <1>20 DEF Plain, Control, Hands, BeginWrite
  <2> QED BY <1>0, <2>1
<1>21. ASSUME NEW w \in Writers, BeginRefused(w) PROVE TableInv' /\ Decided'
  <2>1. WriteReturns(w, FALSE) /\ pending[w] # NoAnswer /\ pending \in [Writers -> Answers]
    BY <1>21 DEF BeginRefused, Control, Hands, TypeOK
  <2>2. reader' = reader \/ (reader \in {"writing", "writingLast"} /\ reader' \in {"acking", "closing"})
    BY <2>1, WriteEffect DEF Control, Hands
  <2>3. reader' = reader \/ reader' = "closing" \/ (reader = "writing" /\ reader' = "acking")
    BY <2>1, <2>2, WriteReturned DEF Returns
  <2>4. Plain
    BY <1>21, <2>3 DEF Plain, BeginRefused
  <2> QED BY <1>0, <2>4
<1>22. ASSUME NEW w \in Writers, Write(w) PROVE TableInv' /\ Decided'
  <2>1. WriteReturns(w, TRUE) /\ pending[w] # NoAnswer /\ pending \in [Writers -> Answers]
    BY <1>22 DEF Write, Control, Hands, TypeOK
  <2>2. reader' = reader \/ (reader \in {"writing", "writingLast"} /\ reader' \in {"acking", "closing"})
    BY <2>1, WriteEffect DEF Control, Hands
  <2>3. reader' = reader \/ reader' = "closing" \/ (reader = "writing" /\ reader' = "acking")
    BY <2>1, <2>2, WriteReturned DEF Returns
  <2>4. Plain
    BY <1>22, <2>3 DEF Plain, Write
  <2> QED BY <1>0, <2>4
<1>23. ASSUME NEW w \in Writers, WriteFails(w) PROVE TableInv' /\ Decided'
  <2>1. WriteReturns(w, FALSE) /\ pending[w] # NoAnswer /\ pending \in [Writers -> Answers]
    BY <1>23 DEF WriteFails, Control, Hands, TypeOK
  <2>2. reader' = reader \/ (reader \in {"writing", "writingLast"} /\ reader' \in {"acking", "closing"})
    BY <2>1, WriteEffect DEF Control, Hands
  <2>3. reader' = reader \/ reader' = "closing" \/ (reader = "writing" /\ reader' = "acking")
    BY <2>1, <2>2, WriteReturned DEF Returns
  <2>4. Plain
    BY <1>23, <2>3 DEF Plain, WriteFails
  <2> QED BY <1>0, <2>4
<1>24. CASE BusyTakes
  <2>1. Plain
    BY <1>24 DEF Plain, Control, Hands, BusyTakes
  <2> QED BY <1>0, <2>1
<1>25. CASE BusyEnds
  <2>1. Plain
    BY <1>25 DEF Plain, Control, Hands, BusyEnds, StoreAsyncError, Stop
  <2> QED BY <1>0, <2>1
<1>26. CASE CancelContext
  <2>1. Plain
    BY <1>26 DEF Plain, Control, Hands, CancelContext
  <2> QED BY <1>0, <2>1
<1>27. CASE FatalRaised
  <2>1. Plain
    BY <1>27 DEF Plain, Control, Hands, FatalRaised
  <2> QED BY <1>0, <2>1
<1>28. CASE ToolWriteFails
  <2>1. Plain
    BY <1>28 DEF Plain, Control, Hands, ToolWriteFails, StoreAsyncError, Stop
  <2> QED BY <1>0, <2>1
<1>29. CASE UNCHANGED vars
  <2>1. Plain
    BY <1>29 DEF Plain, Control, Hands, vars
  <2> QED BY <1>0, <2>1
<1> QED BY <1>1, <1>2, <1>3, <1>4, <1>5, <1>6, <1>7, <1>8, <1>9, <1>10, <1>11, <1>12, <1>13, <1>14, <1>15, <1>16, <1>17, <1>18, <1>19, <1>20, <1>21, <1>22, <1>23, <1>24, <1>25, <1>26, <1>27, <1>28, <1>29 DEF Next, Pump, Reader, Writer, Served

-------------------------------------------------------------------------------
(* Answers                                                                 *)

Ledger == AnswersInv /\ PlacesInv

LEMMA ExpectedSame ==
  ASSUME TypeOK, UNCHANGED frames
  PROVE  \A n \in DOMAIN frames : Expected(n)' = Expected(n)
<1>1. PICK n : n = Len(frames)
  OBVIOUS
<1>2. n \in Nat /\ DOMAIN frames = 1 .. n
  BY <1>1 DEF TypeOK
<1> QED BY <1>2, PrefixKeeps

(* The frame in hand needs no answer, or has been there before.            *)
LEMMA NoAnswerGiven ==
  ASSUME TypeOK, Ledger, UNCHANGED <<frames, pending, output, busyQueue>>,
         Undecided' => Undecided,
         reader' = "queueing" => \A n \in DOMAIN frames : n = Len(frames) => "busy" \in Expected(n)
  PROVE  Ledger' /\ \A n : Held(n) => Held(n)' \/ (~Undecided' /\ n = Len(frames))
<1>1. Given' = Given /\ AnsweredFrames' = AnsweredFrames
  BY DEF Given, AnsweredFrames
<1>2. AnswersInv'
  BY <1>1, ExpectedSame DEF Ledger, AnswersInv
<1>3. PlacesInv'
  BY <1>1 DEF Ledger, PlacesInv
<1>4. \A n : Held(n) => Held(n)' \/ (~Undecided' /\ n = Len(frames))
  BY DEF Held
<1> QED BY <1>2, <1>3, <1>4 DEF Ledger

(* serve gives the frame in hand an answer and a writer.                   *)
LEMMA AnswerGiven ==
  ASSUME TypeOK, Ledger, NEW w \in Writers, NEW a, pending[w] = NoAnswer, Undecided, ~Undecided',
         frames # <<>>, a \in Expected(Len(frames)),
         pending' = [pending EXCEPT ![w] = Answer(Len(frames), a)],
         UNCHANGED <<frames, output, busyQueue>>
  PROVE  Ledger' /\ \A n : Held(n) => Held(n)'
<1>1. PICK n : n = Len(frames)
  OBVIOUS
<1>2. n \in Nat \ {0} /\ n \in DOMAIN frames
  BY <1>1 DEF TypeOK
<1>3. \A v \in Writers : pending'[v] = IF v = w THEN Answer(n, a) ELSE pending[v]
  BY <1>1 DEF TypeOK
<1>4. Answer(n, a).frame = n /\ Answer(n, a).answer = a /\ Answer(n, a) # NoAnswer
  BY <1>2 DEF Answer, NoAnswer
<1>5. AnsweredFrames' = AnsweredFrames
  BY DEF AnsweredFrames
<1>6. AnswersInv'
  <2>1. \A b \in Given' : b \in Given \/ b = Answer(n, a)
    BY <1>3 DEF Given
  <2>2. a \in Expected(n)
    BY <1>1
  <2>3. \A b \in Given' : b # NoAnswer => b.frame \in DOMAIN frames /\ b.answer \in Expected(b.frame)'
    BY <1>2, <1>4, <2>1, <2>2, ExpectedSame DEF Ledger, AnswersInv
  <2>4. \A i \in DOMAIN output' : output'[i] # NoAnswer
    BY DEF Ledger, AnswersInv
  <2> QED BY <2>3, <2>4 DEF AnswersInv, Undecided
<1>7. PlacesInv'
  BY <1>1, <1>3, <1>4, <1>5 DEF Ledger, PlacesInv
<1>8. \A k : Held(k) => Held(k)'
  BY <1>1, <1>3, <1>4 DEF Held
<1> QED BY <1>6, <1>7, <1>8 DEF Ledger

(* ... or puts "busy" into the queue.                                      *)
LEMMA BusyGiven ==
  ASSUME TypeOK, Ledger, Hands, EnqueueBusy
  PROVE  Ledger' /\ \A n : Held(n) => Held(n)'
<1>1. PICK n : n = Len(frames)
  OBVIOUS
<1>2. /\ n \in Nat \ {0} /\ n \in DOMAIN frames /\ Undecided /\ ~Undecided'
      /\ "busy" \in Expected(n) /\ reader' = "acking"
  <2>1. reader = "queueing" /\ reader' = "acking" /\ frames # <<>> /\ frames \in Seq(Messages)
    BY DEF EnqueueBusy, Hands, InHand, TypeOK
  <2>2. n \in Nat \ {0} /\ n \in DOMAIN frames
    BY <1>1, <2>1
  <2> QED BY <1>1, <2>1, <2>2 DEF Undecided, Behind, Ledger, AnswersInv
<1> DEFINE b == Answer(n, "busy")
           l == Len(busyQueue)
<1>3. /\ l \in Nat /\ DOMAIN busyQueue = 1 .. l /\ DOMAIN busyQueue' = 1 .. l + 1
      /\ \A i \in 1 .. l : busyQueue'[i] = busyQueue[i]
      /\ busyQueue'[l + 1] = b
  <2>1. busyQueue \in Seq(Answers) /\ busyQueue' = Append(busyQueue, b)
    BY <1>1 DEF TypeOK, EnqueueBusy
  <2> HIDE DEF b
  <2> QED BY <2>1
<1>4. b.frame = n /\ b.answer = "busy" /\ b # NoAnswer
  BY <1>2 DEF Answer, NoAnswer
<1> HIDE DEF b, l
<1>5. UNCHANGED <<frames, pending, output>> /\ AnsweredFrames' = AnsweredFrames
  BY DEF AnsweredFrames, EnqueueBusy
<1>6. \A i \in DOMAIN busyQueue' : (i \in DOMAIN busyQueue /\ busyQueue'[i] = busyQueue[i]) \/ (i = l + 1 /\ busyQueue'[i] = b)
  BY <1>3
<1>7. AnswersInv'
  <2>1. \A c \in Given' : c \in Given \/ c = b
    BY <1>5, <1>6 DEF Given
  <2>2. \A c \in Given' : c # NoAnswer => c.frame \in DOMAIN frames /\ c.answer \in Expected(c.frame)'
    BY <1>2, <1>4, <1>5, <2>1, ExpectedSame DEF Ledger, AnswersInv
  <2>3. \A i \in DOMAIN output' : output'[i] # NoAnswer
    BY <1>5 DEF Ledger, AnswersInv
  <2> QED BY <1>2, <1>5, <2>2, <2>3 DEF AnswersInv
<1>8. PlacesInv'
  BY <1>1, <1>2, <1>4, <1>5, <1>6 DEF Ledger, PlacesInv
<1>9. \A k : Held(k) => Held(k)'
  BY <1>1, <1>3, <1>4, <1>5 DEF Held
<1> QED BY <1>7, <1>8, <1>9 DEF Ledger

(* The worker of the busy queue takes its first answer.                    *)
LEMMA BusyTaken ==
  ASSUME TypeOK, Ledger, BusyTakes
  PROVE  Ledger' /\ \A n : n # 0 /\ Held(n) => Held(n)'
<1> DEFINE l == Len(busyQueue)
           b == busyQueue[1]
<1>1. /\ l \in Nat \ {0} /\ DOMAIN busyQueue = 1 .. l /\ DOMAIN busyQueue' = 1 .. l - 1
      /\ \A i \in 1 .. l - 1 : busyQueue'[i] = busyQueue[i + 1]
      /\ pending["busy"] = NoAnswer /\ pending' = [pending EXCEPT !["busy"] = b]
      /\ UNCHANGED <<frames, output, reader, pump, offer>>
  <2>1. busyQueue \in Seq(Answers) /\ busyQueue # <<>> /\ busyQueue' = Tail(busyQueue)
    BY DEF TypeOK, BusyTakes
  <2>2. Head(busyQueue) = b
    BY <2>1
  <2> QED BY <2>1, <2>2 DEF BusyTakes
<1>2. "busy" \in Writers /\ \A v \in Writers : pending'[v] = IF v = "busy" THEN b ELSE pending[v]
  BY <1>1 DEF TypeOK, Writers
<1>3. b \in Given /\ 1 \in DOMAIN busyQueue
  BY <1>1 DEF Given
<1>4. \A i \in DOMAIN busyQueue' : i + 1 \in DOMAIN busyQueue /\ busyQueue'[i] = busyQueue[i + 1] /\ i + 1 # 1
  BY <1>1
<1> HIDE DEF l
<1>5. AnsweredFrames' = AnsweredFrames /\ Undecided' = Undecided
  BY <1>1 DEF AnsweredFrames, Undecided, Behind
<1>6. AnswersInv'
  <2>1. \A c \in Given' : c \in Given
    BY <1>1, <1>2, <1>3, <1>4 DEF Given
  <2>2. \A c \in Given' : c # NoAnswer => c.frame \in DOMAIN frames /\ c.answer \in Expected(c.frame)'
    BY <1>1, <2>1, ExpectedSame DEF Ledger, AnswersInv
  <2>3. reader' = "queueing" => \A n \in DOMAIN frames : n = Len(frames) => "busy" \in Expected(n)'
    BY <1>1, ExpectedSame DEF Ledger, AnswersInv
  <2>4. \A i \in DOMAIN output' : output'[i] # NoAnswer
    BY <1>1 DEF Ledger, AnswersInv
  <2> QED BY <1>1, <2>2, <2>3, <2>4 DEF AnswersInv
<1>7. PlacesInv'
  <2>1. \A v, w \in Writers :
          pending'[v] # NoAnswer /\ pending'[w] # NoAnswer /\ pending'[v].frame = pending'[w].frame => v = w
    BY <1>2, <1>3 DEF Ledger, PlacesInv
  <2>2. \A i, j \in DOMAIN busyQueue' : busyQueue'[i].frame = busyQueue'[j].frame => i = j
    <3> TAKE i, j \in DOMAIN busyQueue'
    <3>1. busyQueue'[i].frame = busyQueue'[j].frame => i + 1 = j + 1
      BY <1>4 DEF Ledger, PlacesInv
    <3> QED BY <1>1, <3>1
  <2>3. \A w \in Writers, i \in DOMAIN busyQueue' :
          pending'[w] # NoAnswer => pending'[w].frame # busyQueue'[i].frame
    BY <1>2, <1>3, <1>4 DEF Ledger, PlacesInv
  <2>4. /\ \A w \in Writers : pending'[w] # NoAnswer => pending'[w].frame \notin AnsweredFrames
        /\ \A i \in DOMAIN busyQueue' : busyQueue'[i].frame \notin AnsweredFrames
    BY <1>2, <1>3, <1>4 DEF Ledger, PlacesInv
  <2>5. Undecided' =>
          /\ Len(frames) \notin AnsweredFrames
          /\ \A w \in Writers : pending'[w] # NoAnswer => pending'[w].frame # Len(frames)
          /\ \A i \in DOMAIN busyQueue' : busyQueue'[i].frame # Len(frames)
    BY <1>2, <1>3, <1>4, <1>5 DEF Ledger, PlacesInv
  <2> QED BY <1>1, <1>5, <2>1, <2>2, <2>3, <2>4, <2>5 DEF Ledger, PlacesInv
<1>8. ASSUME NEW k, k # 0, Held(k) PROVE Held(k)'
  <2>1. CASE \E w \in Writers : pending[w] # NoAnswer /\ pending[w].frame = k
    BY <1>1, <1>2, <2>1 DEF Held
  <2>2. CASE \E i \in DOMAIN busyQueue : busyQueue[i].frame = k
    <3> PICK i \in DOMAIN busyQueue : busyQueue[i].frame = k
      BY <2>2
    <3>1. CASE i = 1
      <4>1. b # NoAnswer
        BY <1>8, <3>1 DEF NoAnswer, Answer
      <4> QED BY <1>2, <3>1, <4>1 DEF Held
    <3>2. CASE i # 1
      <4>1. i - 1 \in DOMAIN busyQueue' /\ busyQueue'[i - 1] = busyQueue[i]
        BY <1>1, <3>2 DEF l
      <4> QED BY <4>1 DEF Held
    <3> QED BY <3>1, <3>2
  <2>3. CASE Undecided /\ k = Len(frames)
    BY <1>1, <1>5, <2>3 DEF Held
  <2> QED BY <1>8, <2>1, <2>2, <2>3 DEF Held
<1> QED BY <1>6, <1>7, <1>8 DEF Ledger

(* A writer gives up its answer ...                                        *)
LEMMA AnswerDropped ==
  ASSUME TypeOK, Ledger, NEW w \in Writers, UNCHANGED <<frames, output, busyQueue>>,
         \A v \in Writers : pending'[v] = IF v = w THEN NoAnswer ELSE pending[v],
         Undecided' => Undecided, reader' = "queueing" => reader = "queueing"
  PROVE  Ledger'
<1>1. AnsweredFrames' = AnsweredFrames
  BY DEF AnsweredFrames
<1>2. AnswersInv'
  <2>1. \A c \in Given' : c \in Given \/ c = NoAnswer
    BY DEF Given
  <2>2. \A c \in Given' : c # NoAnswer => c.frame \in DOMAIN frames /\ c.answer \in Expected(c.frame)'
    BY <2>1, ExpectedSame DEF Ledger, AnswersInv
  <2>3. reader' = "queueing" => \A n \in DOMAIN frames : n = Len(frames) => "busy" \in Expected(n)'
    BY ExpectedSame DEF Ledger, AnswersInv
  <2>4. \A i \in DOMAIN output' : output'[i] # NoAnswer
    BY DEF Ledger, AnswersInv
  <2> QED BY <2>2, <2>3, <2>4 DEF AnswersInv
<1>3. PlacesInv'
  BY <1>1 DEF Ledger, PlacesInv
<1> QED BY <1>2, <1>3 DEF Ledger

(* ... or lets it out.                                                     *)
LEMMA AnswerOut ==
  ASSUME TypeOK, Ledger, NEW w \in Writers, pending[w] # NoAnswer,
         UNCHANGED <<frames, busyQueue>>, output' = Append(output, pending[w]),
         \A v \in Writers : pending'[v] = IF v = w THEN NoAnswer ELSE pending[v],
         Undecided' <=> Undecided, reader' = "queueing" <=> reader = "queueing"
  PROVE  /\ Ledger' /\ AnsweredFrames' = AnsweredFrames \cup {pending[w].frame}
         /\ \A n : Held(n) => Held(n)' \/ n = pending[w].frame
<1> DEFINE a == pending[w]
           l == Len(output)
<1>1. /\ l \in Nat /\ DOMAIN output = 1 .. l /\ DOMAIN output' = 1 .. l + 1 /\ Len(output') = l + 1
      /\ \A i \in 1 .. l : output'[i] = output[i]
      /\ output'[l + 1] = a
  <2>1. output \in Seq(Answers) /\ a \in Answers /\ output' = Append(output, a)
    BY DEF TypeOK
  <2> HIDE DEF a
  <2> QED BY <2>1
<1> HIDE DEF l
<1>2. \A i \in DOMAIN output' : (i \in DOMAIN output /\ output'[i] = output[i]) \/ (i = l + 1 /\ output'[i] = a)
  BY <1>1
<1>3. AnsweredFrames' = AnsweredFrames \cup {a.frame}
  <2>1. \A f \in AnsweredFrames' : f \in AnsweredFrames \/ f = a.frame
    BY <1>2 DEF AnsweredFrames
  <2>2. \A i \in DOMAIN output : i \in DOMAIN output' /\ output'[i] = output[i]
    BY <1>1
  <2>3. AnsweredFrames \subseteq AnsweredFrames'
    BY <2>2 DEF AnsweredFrames
  <2>4. a.frame \in AnsweredFrames'
    BY <1>1 DEF AnsweredFrames
  <2> QED BY <2>1, <2>3, <2>4
<1>4. IsFiniteSet(AnsweredFrames') /\ Cardinality(AnsweredFrames') = Len(output')
  <2>1. a.frame \notin AnsweredFrames /\ IsFiniteSet(AnsweredFrames) /\ Cardinality(AnsweredFrames) = l
    BY DEF Ledger, PlacesInv, l
  <2> QED BY <1>1, <1>3, <2>1, FS_AddElement
<1>5. AnswersInv'
  <2>1. \A c \in Given' : c \in Given \/ c = NoAnswer
    BY <1>2 DEF Given
  <2>2. \A c \in Given' : c # NoAnswer => c.frame \in DOMAIN frames /\ c.answer \in Expected(c.frame)'
    BY <2>1, ExpectedSame DEF Ledger, AnswersInv
  <2>3. reader' = "queueing" => \A n \in DOMAIN frames : n = Len(frames) => "busy" \in Expected(n)'
    BY ExpectedSame DEF Ledger, AnswersInv
  <2>4. \A i \in DOMAIN output' : output'[i] # NoAnswer
    BY <1>2 DEF Ledger, AnswersInv
  <2> QED BY <2>2, <2>3, <2>4 DEF AnswersInv
<1>6. PlacesInv'
  <2>1. /\ \A v \in Writers : pending'[v] # NoAnswer => v # w /\ pending'[v] = pending[v] /\ pending[v].frame # a.frame
        /\ \A i \in DOMAIN busyQueue : busyQueue[i].frame # a.frame
        /\ Undecided => Len(frames) # a.frame
    BY DEF Ledger, PlacesInv
  <2> HIDE DEF a
  <2> QED BY <1>3, <1>4, <2>1 DEF Ledger, PlacesInv
<1>7. \A n : Held(n) => Held(n)' \/ n = a.frame
  BY DEF Held
<1> QED BY <1>3, <1>5, <1>6, <1>7 DEF Ledger

-------------------------------------------------------------------------------
(* What is owed                                                            *)

(* An answer owed remains on its way, comes out, or is not needed.         *)
LEMMA StillHeld ==
  ASSUME TypeOK, HeldInv, UNCHANGED frames, AnsweredFrames \subseteq AnsweredFrames',
         Quiet' /\ reader' \notin Ended => Quiet /\ reader \notin Ended,
         Quiet' /\ reader' \notin Ended =>
           \A n \in DOMAIN frames : Held(n) => Held(n)' \/ Expected(n) = {} \/ n \in AnsweredFrames'
  PROVE  HeldInv'
<1>1. \A n \in Owed' : n \in Owed /\ n \in DOMAIN frames /\ Expected(n) # {} /\ n \notin AnsweredFrames'
  BY ExpectedSame DEF Owed
<1> QED BY <1>1 DEF HeldInv

LEMMA StillSettled ==
  ASSUME TypeOK, EofInv, UNCHANGED frames, AnsweredFrames \subseteq AnsweredFrames',
         result' = "eof" /\ (Quiet' \/ reader' = "done") => result = "eof" /\ (Quiet \/ reader = "done")
  PROVE  EofInv'
<1>1. \A n \in Owed' : n \in Owed
  BY ExpectedSame DEF Owed
<1> QED BY <1>1 DEF EofInv

(* A step that gives no answer and lets none out; serve turns from the     *)
(* frame in hand only if the frame needs none, or if it gives up.          *)
LEMMA NothingGiven ==
  ASSUME TypeOK, Hands, Ledger, HeldInv, EofInv, UNCHANGED <<frames, pending, output, busyQueue>>,
         Undecided' => Undecided,
         reader' = "queueing" => \A n \in DOMAIN frames : n = Len(frames) => "busy" \in Expected(n),
         Quiet' /\ reader' \notin Ended =>
           /\ Quiet /\ reader \notin Ended
           /\ Undecided' \/ ~Undecided \/ \A n \in DOMAIN frames : n = Len(frames) => Expected(n) = {},
         result' = "eof" /\ (Quiet' \/ reader' = "done") => result = "eof" /\ (Quiet \/ reader = "done")
  PROVE  Ledger' /\ HeldInv' /\ EofInv'
<1>1. Ledger' /\ \A n : Held(n) => Held(n)' \/ (~Undecided' /\ n = Len(frames))
  BY NoAnswerGiven
<1>2. AnsweredFrames' = AnsweredFrames
  BY DEF AnsweredFrames
<1>3. ~Undecided => \A n : Held(n) => Held(n)'
  BY DEF Held
<1>4. HeldInv'
  BY <1>1, <1>2, <1>3, StillHeld
<1>5. EofInv'
  BY <1>2, StillSettled
<1> QED BY <1>1, <1>4, <1>5

(* A frame is read: nothing is known of it yet.                            *)
LEMMA Received ==
  ASSUME Control, Ledger, HeldInv, EofInv, NEW m \in Messages, Receive(m)
  PROVE  Ledger' /\ HeldInv' /\ EofInv'
<1>1. PICK n : n = Len(frames)
  OBVIOUS
<1>2. /\ n \in Nat /\ DOMAIN frames = 1 .. n /\ DOMAIN frames' = 1 .. n + 1 /\ Len(frames') = n + 1
      /\ \A k \in 1 .. n : frames'[k] = frames[k]
  <2>1. frames \in Seq(Messages) /\ frames' = Append(frames, m)
    BY DEF Receive, Control, TypeOK
  <2> QED BY <1>1, <2>1
<1>3. \A k \in DOMAIN frames : k \in DOMAIN frames' /\ Expected(k)' = Expected(k) /\ k # n + 1
  BY <1>2, PrefixKeeps
<1>4. /\ UNCHANGED <<pending, output, busyQueue, reader, result, fatal, terminalStopped>>
      /\ pump = "reading" /\ pump' = "offering" /\ offer' = "frame"
  BY DEF Receive
<1>5. /\ reader = "selecting" \/ reader \in Ended
      /\ ~Undecided /\ (reader = "selecting" => Undecided') /\ result # "eof"
  BY <1>4 DEF Control, TypeOK, Readers, Hands, Ended, InHand, Undecided, Behind
<1>6. Given' = Given /\ AnsweredFrames' = AnsweredFrames
  BY <1>4 DEF Given, AnsweredFrames
<1>7. AnswersInv'
  <2>1. \A a \in Given : a # NoAnswer => a.frame \in DOMAIN frames' /\ a.answer \in Expected(a.frame)'
    BY <1>3 DEF Ledger, AnswersInv
  <2>2. \A i \in DOMAIN output' : output'[i] # NoAnswer
    BY <1>4 DEF Ledger, AnswersInv
  <2> QED BY <1>4, <1>5, <1>6, <2>1, <2>2 DEF AnswersInv, Ended
<1>8. \A a \in Given : a.frame # n + 1
  <2>1. NoAnswer.frame # n + 1
    BY <1>2 DEF NoAnswer, Answer
  <2> QED BY <1>3, <2>1 DEF Ledger, AnswersInv
<1>9. PlacesInv'
  <2>1. /\ n + 1 \notin AnsweredFrames
        /\ \A w \in Writers : pending[w].frame # n + 1
        /\ \A i \in DOMAIN busyQueue : busyQueue[i].frame # n + 1
    BY <1>8 DEF Given, AnsweredFrames
  <2> QED BY <1>2, <1>4, <1>6, <2>1 DEF Ledger, PlacesInv
<1>10. HeldInv'
  <2> SUFFICES ASSUME Quiet', reader' \notin Ended, NEW k \in Owed' PROVE Held(k)'
    BY DEF HeldInv, Ended
  <2>1. Quiet /\ reader = "selecting" /\ Undecided'
    BY <1>4, <1>5 DEF Quiet
  <2>2. CASE k = n + 1
    BY <1>2, <2>1, <2>2 DEF Held
  <2>3. CASE k # n + 1
    <3>1. k \in DOMAIN frames /\ Expected(k)' # {} /\ k \notin AnsweredFrames
      BY <1>2, <1>6, <2>3 DEF Owed
    <3>2. Held(k)
      BY <1>3, <2>1, <3>1 DEF Owed, HeldInv, Ended
    <3> QED BY <1>4, <1>5, <3>2 DEF Held
  <2> QED BY <2>2, <2>3
<1>11. EofInv'
  BY <1>4, <1>5 DEF EofInv
<1> QED BY <1>7, <1>9, <1>10, <1>11 DEF Ledger

(* serve gives the frame in hand an answer.                                *)
LEMMA GivenToWriter ==
  ASSUME Control, Ledger, HeldInv, EofInv, NEW w \in Writers, NEW a, pending[w] = NoAnswer,
         reader = "handling", reader' \in {"writing", "writingLast", "acking"},
         a \in Expected(Len(frames)), pending' = [pending EXCEPT ![w] = Answer(Len(frames), a)],
         UNCHANGED <<frames, output, busyQueue, result, fatal, terminalStopped>>
  PROVE  Ledger' /\ HeldInv' /\ EofInv'
<1>1. TypeOK /\ frames # <<>> /\ Undecided /\ ~Undecided'
  BY DEF Control, Hands, InHand, Undecided, Behind
<1>2. Ledger' /\ \A n : Held(n) => Held(n)'
  BY <1>1, AnswerGiven
<1>3. AnsweredFrames' = AnsweredFrames
  BY DEF AnsweredFrames
<1>4. Quiet' => Quiet /\ reader \notin Ended
  BY DEF Quiet, Ended
<1>5. HeldInv'
  BY <1>1, <1>2, <1>3, <1>4, StillHeld
<1>6. result' # "eof"
  BY DEF Control, Hands, Ended
<1> QED BY <1>2, <1>5, <1>6 DEF EofInv

(* A write is over without its answer: serve is leaving.                   *)
LEMMA DroppedAtEnd ==
  ASSUME Control, Ledger, HeldInv, EofInv, NEW w \in Writers, WriteReturns(w, FALSE),
         pending[w] # NoAnswer, UNCHANGED <<pump, offer, frames, output, busyQueue, fatal>>,
         terminalStopped => terminalStopped',
         Quiet' => reader \in Ended
  PROVE  Ledger' /\ HeldInv' /\ EofInv'
<1>1. TypeOK /\ pending \in [Writers -> Answers]
  BY DEF Control, TypeOK
<1>2. /\ \A v \in Writers : pending'[v] = IF v = w THEN NoAnswer ELSE pending[v]
      /\ w # "reader" => UNCHANGED <<reader, result>>
      /\ w = "reader" => reader \in {"writing", "writingLast"} /\ reader' = "closing" /\ result' = "error"
  BY <1>1, WriteEffect, WriteReturned DEF Returns, Control, Hands
<1>3. (Undecided' => Undecided) /\ (reader' = "queueing" => reader = "queueing")
  BY <1>2 DEF Undecided, Behind
<1>4. Ledger'
  BY <1>1, <1>2, <1>3, AnswerDropped
<1>5. Quiet' => reader' \in Ended
  BY <1>2 DEF Ended
<1>6. AnsweredFrames' = AnsweredFrames
  BY DEF AnsweredFrames
<1>7. result' = "eof" /\ (Quiet' \/ reader' = "done") => result = "eof" /\ (Quiet \/ reader = "done")
  BY <1>2 DEF Quiet
<1>8. EofInv'
  BY <1>1, <1>6, <1>7, StillSettled
<1> QED BY <1>4, <1>5, <1>8 DEF HeldInv

(* An answer leaves.                                                       *)
LEMMA Written ==
  ASSUME Control, Ledger, HeldInv, EofInv, NEW w \in Writers, Write(w)
  PROVE  Ledger' /\ HeldInv' /\ EofInv'
<1>1. TypeOK /\ WriteReturns(w, TRUE) /\ pending \in [Writers -> Answers] /\ pending[w] # NoAnswer
  BY DEF Control, TypeOK, Hands, Write
<1>2. /\ \A v \in Writers : pending'[v] = IF v = w THEN NoAnswer ELSE pending[v]
      /\ w # "reader" => UNCHANGED <<reader, result>>
      /\ w = "reader" => /\ reader \in {"writing", "writingLast"} /\ reader' \in {"acking", "closing"}
                         /\ result' \in {result, "error", "nil"}
  BY <1>1, WriteEffect DEF Control, Hands
<1>3. /\ UNCHANGED <<frames, pump, offer, busyQueue, fatal, terminalStopped>>
      /\ output' = Append(output, pending[w])
  BY DEF Write
<1>4. (Undecided' <=> Undecided) /\ (reader' = "queueing" <=> reader = "queueing")
  BY <1>2, <1>3 DEF Undecided, Behind
<1>5. /\ Ledger' /\ AnsweredFrames' = AnsweredFrames \cup {pending[w].frame}
      /\ \A n : Held(n) => Held(n)' \/ n = pending[w].frame
  BY <1>1, <1>2, <1>3, <1>4, AnswerOut
<1>6. /\ Quiet' => Quiet
      /\ reader' \notin Ended => reader \notin Ended
      /\ result' = "eof" => result = "eof" /\ UNCHANGED reader
  BY <1>2, <1>3 DEF Quiet, Ended, Control, Hands
<1>7. HeldInv'
  BY <1>1, <1>3, <1>5, <1>6, StillHeld
<1>8. EofInv'
  BY <1>1, <1>3, <1>5, <1>6, StillSettled
<1> QED BY <1>5, <1>7, <1>8

(* finishEOF returns: the workers are through, so nothing is on its way.   *)
LEMMA DrainedOwesNothing ==
  ASSUME Control, HeldInv, Drained, result' = "eof"
  PROVE  Owed = {}
<1>1. /\ reader = "draining" /\ pending["worker"] = NoAnswer /\ busyWorker \in {"none", "ended"}
      /\ ~fatal /\ asyncError = "none"
  BY DEF Drained, Returns, Control, TypeOK
<1>2. Quiet /\ reader \notin Ended /\ ~Undecided
  BY <1>1 DEF Quiet, Control, Stopping, Ended, Undecided, Behind
<1>3. busyQueue = <<>> /\ \A w \in Writers : pending[w] = NoAnswer
  BY <1>1, <1>2 DEF Control, BusyInv, Hands, Writers
<1>4. \A n : ~Held(n)
  BY <1>2, <1>3 DEF Held
<1> QED BY <1>2, <1>4 DEF HeldInv

(* Each answer decided is in one place until it is out or the connection   *)
(* is stopped.                                                             *)
LEMMA NextLedger ==
  ASSUME Control, TableInv, Decided, Ledger, HeldInv, EofInv, [Next]_vars
  PROVE  Ledger' /\ HeldInv' /\ EofInv'
<1> DEFINE Plain ==
      /\ UNCHANGED <<frames, pending, output, busyQueue>>
      /\ Undecided' => Undecided
      /\ reader' = "queueing" => reader = "queueing"
      /\ Quiet' /\ reader' \notin Ended => Quiet /\ reader \notin Ended /\ (Undecided => Undecided')
      /\ result' = "eof" /\ (Quiet' \/ reader' = "done") => result = "eof" /\ (Quiet \/ reader = "done")
<1>0. Plain => Ledger' /\ HeldInv' /\ EofInv'
  <2> SUFFICES ASSUME Plain PROVE Ledger' /\ HeldInv' /\ EofInv'
    OBVIOUS
  <2>1. reader' = "queueing" => \A n \in DOMAIN frames : n = Len(frames) => "busy" \in Expected(n)
    BY DEF Ledger, AnswersInv
  <2> QED BY <2>1, NothingGiven DEF Control
<1> HIDE DEF Plain
<1>1. ASSUME NEW m \in Messages, Receive(m) PROVE Ledger' /\ HeldInv' /\ EofInv'
  BY <1>1, Received
<1>2. CASE InputEnds
  <2>1. Plain
    BY <1>2 DEF Plain, Quiet, Undecided, Behind, Ended, Control, Hands, InputEnds
  <2> QED BY <1>0, <2>1
<1>3. CASE PumpStops
  <2>1. Plain
    BY <1>3 DEF Plain, Quiet, Undecided, Behind, Ended, Control, Hands, PumpStops
  <2> QED BY <1>0, <2>1
<1>4. CASE TakeFrame
  <2>1. Plain
    BY <1>4 DEF Plain, Quiet, Undecided, Behind, Ended, Control, Hands, TakeFrame
  <2> QED BY <1>0, <2>1
<1>5. CASE TakeEnd
  <2>1. Plain
    BY <1>5 DEF Plain, Quiet, Undecided, Behind, Ended, Control, Hands, TakeEnd
  <2> QED BY <1>0, <2>1
<1>6. CASE TakeError
  <2>1. Plain
    BY <1>6 DEF Plain, Quiet, Undecided, Behind, Ended, Control, Hands, TakeError, Returns
  <2> QED BY <1>0, <2>1
<1>7. CASE SelectEnds
  <2>1. Plain
    BY <1>7 DEF Plain, Quiet, Undecided, Behind, Ended, Control, Hands, SelectEnds, Returns
  <2> QED BY <1>0, <2>1
<1>8. CASE HandleFatal
  <2>1. Plain
    BY <1>8 DEF Plain, Quiet, Undecided, Behind, Ended, Control, Hands, HandleFatal, Returns
  <2> QED BY <1>0, <2>1
<1>9. ASSUME NEW m \in Messages, HandleBroken(m) PROVE Ledger' /\ HeldInv' /\ EofInv'
  <2>1. Serving(m) /\ Classify(m) \in {"parseError", "invalidRequest"}
    BY <1>9 DEF HandleBroken, Serving, SlotsOK, Control, TypeOK, Hands, InHand, Places, Handling
  <2>2. "reader" \in Writers /\ pending["reader"] = NoAnswer /\ reader = "handling"
    BY <1>9 DEF HandleBroken, Handling, Control, Hands, Writers
  <2>3. Classify(m) \in Expected(Len(frames))
    BY <2>1, UnregisteredExpected
  <2>4. /\ pending' = [pending EXCEPT !["reader"] = Answer(Len(frames), Classify(m))] /\ reader' = "writing"
        /\ UNCHANGED <<frames, output, busyQueue, result, fatal, terminalStopped>>
    BY <1>9 DEF HandleBroken, AnswerSelf
  <2> QED BY <2>2, <2>3, <2>4, GivenToWriter
<1>10. ASSUME NEW m \in Messages, HandleUnanswered(m) PROVE Ledger' /\ HeldInv' /\ EofInv'
  <2>1. Serving(m) /\ Classify(m) \in {"response", "notification"}
    BY <1>10 DEF HandleUnanswered, Serving, SlotsOK, Control, TypeOK, Hands, InHand, Places, Handling
  <2>2. Expected(Len(frames)) = {}
    BY <2>1, UnregisteredExpected
  <2>3. /\ UNCHANGED <<frames, pending, output, busyQueue, result, fatal, terminalStopped>>
        /\ reader = "handling" /\ reader' = "acking" /\ ~Undecided' /\ TypeOK /\ Hands
    BY <1>10 DEF HandleUnanswered, Handling, Undecided, Behind, Control
  <2> QED BY <2>2, <2>3, NothingGiven DEF Quiet, Ended, Hands, Undecided, Behind
<1>11. ASSUME NEW m \in Messages, HandleRefusedId(m) PROVE Ledger' /\ HeldInv' /\ EofInv'
  <2>1. Serving(m) /\ Classify(m) = "request"
    BY <1>11 DEF HandleRefusedId, Serving, SlotsOK, Control, TypeOK, Hands, InHand, Places, Handling
  <2>2. "reader" \in Writers /\ pending["reader"] = NoAnswer /\ reader = "handling"
    BY <1>11 DEF HandleRefusedId, Handling, Control, Hands, Writers
  <2>3. PICK a : /\ a \in Expected(Len(frames)) /\ reader' \in {"writing", "writingLast"}
                 /\ pending' = [pending EXCEPT !["reader"] = Answer(Len(frames), a)]
    <3>1. CASE Register(m.id) = "duplicate" /\ AnswerSelf("invalidRequest", "writing")
      BY <2>1, <3>1, RefusedExpected DEF AnswerSelf
    <3>2. CASE Register(m.id) = "exhausted" /\ AnswerSelf("requestLimit", "writingLast")
      BY <2>1, <3>2, RefusedExpected DEF AnswerSelf
    <3> QED BY <1>11, <3>1, <3>2 DEF HandleRefusedId
  <2>4. UNCHANGED <<frames, output, busyQueue, result, fatal, terminalStopped>>
    BY <1>11 DEF HandleRefusedId
  <2> QED BY <2>2, <2>3, <2>4, GivenToWriter
<1>12. ASSUME NEW m \in Messages, HandleRequest(m) PROVE Ledger' /\ HeldInv' /\ EofInv'
  <2>1. Serving(m) /\ Classify(m) = "request" /\ Register(m.id) = "new"
    BY <1>12 DEF HandleRequest, Serving, SlotsOK, Control, TypeOK, Hands, InHand, Places, Handling
  <2>2. /\ "reader" \in Writers /\ "worker" \in Writers /\ pending["reader"] = NoAnswer
        /\ reader = "handling" /\ frames # <<>> /\ TypeOK /\ Hands
    BY <1>12 DEF HandleRequest, Handling, Control, Hands, InHand, Writers
  <2>3. UNCHANGED <<frames, output, busyQueue, result, fatal, terminalStopped>>
    BY <1>12 DEF HandleRequest
  <2>4. CASE Decision(m) = "initialize"
    <3>1. pending' = [pending EXCEPT !["reader"] = Answer(Len(frames), Decision(m))] /\ reader' = "writing"
      BY <1>12, <2>4 DEF HandleRequest, AnswerSelf
    <3>2. Decision(m) \in Expected(Len(frames))
      BY <2>1, <2>4, DecisionExpected
    <3> QED BY <2>2, <2>3, <3>1, <3>2, GivenToWriter
  <2>5. CASE Decision(m) = "call"
    <3>1. reader' = "acking" /\ UNCHANGED pending /\ ~Undecided'
      BY <1>12, <2>5 DEF HandleRequest, Undecided, Behind
    <3>2. Expected(Len(frames)) = {}
      BY <2>1, <2>5, DecisionExpected
    <3> QED BY <2>2, <2>3, <3>1, <3>2, NothingGiven DEF Quiet, Ended, Hands, Undecided, Behind
  <2>6. CASE Decision(m) \notin {"initialize", "call"}
    <3>1. {Decision(m), "busy"} \subseteq Expected(Len(frames))
      BY <2>1, <2>6, DecisionExpected
    <3>2. CASE pending["worker"] = NoAnswer
      <4>1. pending' = [pending EXCEPT !["worker"] = Answer(Len(frames), Decision(m))] /\ reader' = "acking"
        BY <1>12, <2>6, <3>2 DEF HandleRequest, Dispatch
      <4> QED BY <2>2, <2>3, <3>1, <3>2, <4>1, GivenToWriter
    <3>3. CASE pending["worker"] # NoAnswer
      <4>1. reader' = "queueing" /\ UNCHANGED pending
        BY <1>12, <2>6, <3>3 DEF HandleRequest, Dispatch
      <4> QED BY <2>2, <2>3, <3>1, <4>1, NothingGiven DEF Quiet, Ended, Hands, Undecided, Behind
    <3> QED BY <3>2, <3>3
  <2> QED BY <2>4, <2>5, <2>6
<1>13. CASE EnqueueBusy
  <2>1. Ledger' /\ \A n : Held(n) => Held(n)'
    BY <1>13, BusyGiven DEF Control
  <2>2. /\ UNCHANGED <<frames, output, result, fatal, terminalStopped>> /\ reader = "queueing"
        /\ AnsweredFrames' = AnsweredFrames /\ TypeOK
    BY <1>13 DEF EnqueueBusy, AnsweredFrames, Control
  <2>3. HeldInv'
    BY <2>1, <2>2, StillHeld DEF Quiet, Ended
  <2>4. result' # "eof"
    BY <2>2 DEF Control, Hands, Ended
  <2> QED BY <2>1, <2>3, <2>4 DEF EofInv
<1>14. CASE EnqueueFails
  <2>1. Plain
    BY <1>14 DEF Plain, Quiet, Undecided, Behind, Ended, Control, Hands, EnqueueFails, Returns
  <2> QED BY <1>0, <2>1
<1>15. CASE Acknowledge
  <2>1. Plain
    BY <1>15 DEF Plain, Quiet, Undecided, Behind, Ended, Control, Hands, Acknowledge
  <2> QED BY <1>0, <2>1
<1>16. CASE AcknowledgeFails
  <2>1. Plain
    BY <1>16 DEF Plain, Quiet, Undecided, Behind, Ended, Control, Hands, AcknowledgeFails, Returns
  <2> QED BY <1>0, <2>1
<1>17. CASE Drained
  <2>1. /\ UNCHANGED <<frames, pending, output, busyQueue>> /\ reader' = "closing" /\ ~Undecided'
        /\ TypeOK /\ AnsweredFrames' = AnsweredFrames
    BY <1>17 DEF Drained, Returns, Undecided, Behind, Control, AnsweredFrames
  <2>2. Ledger'
    BY <2>1, NoAnswerGiven
  <2>3. Owed' = Owed
    BY <2>1, ExpectedSame DEF Owed
  <2> QED BY <1>17, <2>1, <2>2, <2>3, DrainedOwesNothing DEF HeldInv, EofInv, Ended
<1>18. CASE StopAccepting
  <2>1. Plain
    BY <1>18 DEF Plain, Quiet, Undecided, Behind, Ended, Control, Hands, StopAccepting
  <2> QED BY <1>0, <2>1
<1>19. CASE ServeReturns
  <2>1. Plain
    <3>1. /\ UNCHANGED <<frames, pump, offer, pending, output, busyQueue, fatal, asyncError>>
          /\ reader = "waiting" /\ reader' = "done" /\ result' \in {result, "error"}
          /\ result' = "eof" => result = "eof" /\ ~fatal /\ asyncError = "none"
      BY <1>19 DEF ServeReturns
    <3>2. result' = "eof" => result = "eof" /\ Quiet
      BY <3>1 DEF Control, Stopping, Quiet
    <3> QED BY <3>1, <3>2 DEF Plain, Ended, Undecided, Behind
  <2> QED BY <1>0, <2>1
<1>20. ASSUME NEW w \in Writers, BeginWrite(w) PROVE Ledger' /\ HeldInv' /\ EofInv'
  <2>1. Plain
    BY <1>20 DEF Plain, BeginWrite, Quiet, Undecided, Behind
  <2> QED BY <1>0, <2>1
<1>21. ASSUME NEW w \in Writers, BeginRefused(w) PROVE Ledger' /\ HeldInv' /\ EofInv'
  <2>1. /\ WriteReturns(w, FALSE) /\ pending[w] # NoAnswer /\ gateStopped
        /\ UNCHANGED <<pump, offer, frames, output, busyQueue, fatal>>
    BY <1>21 DEF BeginRefused
  <2>2. terminalStopped => terminalStopped'
    BY <1>21 DEF BeginRefused, Stop
  <2>3. Quiet' => reader \in Ended
    BY <2>1, <2>2 DEF Quiet, Ended, Control, TypeOK, Stopping
  <2> QED BY <2>1, <2>2, <2>3, DroppedAtEnd
<1>22. ASSUME NEW w \in Writers, Write(w) PROVE Ledger' /\ HeldInv' /\ EofInv'
  BY <1>22, Written
<1>23. ASSUME NEW w \in Writers, WriteFails(w) PROVE Ledger' /\ HeldInv' /\ EofInv'
  <2>1. /\ WriteReturns(w, FALSE) /\ pending[w] # NoAnswer /\ terminalStopped' = TRUE
        /\ UNCHANGED <<pump, offer, frames, output, busyQueue, fatal>>
    BY <1>23 DEF WriteFails, Stop, Control, Hands
  <2> QED BY <2>1, DroppedAtEnd DEF Quiet
<1>24. CASE BusyTakes
  <2>1. Ledger' /\ \A n : n # 0 /\ Held(n) => Held(n)'
    BY <1>24, BusyTaken DEF Control
  <2>2. /\ UNCHANGED <<frames, output, reader, result, fatal, terminalStopped>>
        /\ AnsweredFrames' = AnsweredFrames /\ TypeOK
    BY <1>24 DEF BusyTakes, AnsweredFrames, Control
  <2>3. \A n \in DOMAIN frames : n # 0
    BY DEF Control, TypeOK
  <2>4. HeldInv'
    BY <2>1, <2>2, <2>3, StillHeld DEF Quiet
  <2>5. EofInv'
    BY <2>2, StillSettled DEF Quiet
  <2> QED BY <2>1, <2>4, <2>5
<1>25. CASE BusyEnds
  <2>1. Plain
    BY <1>25 DEF Plain, Quiet, Undecided, Behind, Ended, Control, Hands, BusyEnds, StoreAsyncError, Stop
  <2> QED BY <1>0, <2>1
<1>26. CASE CancelContext
  <2>1. Plain
    BY <1>26 DEF Plain, Quiet, Undecided, Behind, Ended, Control, Hands, CancelContext
  <2> QED BY <1>0, <2>1
<1>27. CASE FatalRaised
  <2>1. Plain
    BY <1>27 DEF Plain, Quiet, Undecided, Behind, Ended, Control, Hands, FatalRaised
  <2> QED BY <1>0, <2>1
<1>28. CASE ToolWriteFails
  <2>1. Plain
    BY <1>28 DEF Plain, Quiet, Undecided, Behind, Ended, Control, Hands, ToolWriteFails, StoreAsyncError, Stop
  <2> QED BY <1>0, <2>1
<1>29. CASE UNCHANGED vars
  <2>1. Plain
    BY <1>29 DEF Plain, Quiet, Undecided, Behind, Ended, Control, Hands, vars
  <2> QED BY <1>0, <2>1
<1> QED BY <1>1, <1>2, <1>3, <1>4, <1>5, <1>6, <1>7, <1>8, <1>9, <1>10, <1>11, <1>12, <1>13, <1>14, <1>15, <1>16, <1>17, <1>18, <1>19, <1>20, <1>21, <1>22, <1>23, <1>24, <1>25, <1>26, <1>27, <1>28, <1>29 DEF Next, Pump, Reader, Writer, Served

-------------------------------------------------------------------------------
(* The theorems                                                            *)

LEMMA InitIInv == Init => IInv
<1> SUFFICES ASSUME Init PROVE IInv
  OBVIOUS
<1> USE DEF Init
<1>1. TypeOK
  <2>1. /\ slots \in [0 .. TableSlots - 1 -> Ids \cup {Empty}] /\ pending \in [Writers -> Answers]
        /\ \A S : <<>> \in Seq(S)
    BY AnswerTypes
  <2> QED BY <2>1 DEF TypeOK, Pumps, Readers, InHand, Ended, Results
<1>2. Hands /\ Stopping /\ BusyInv
  BY DEF Hands, Stopping, BusyInv, InHand, Ended, Quiet, Writers
<1>3. Len(frames) = 0 /\ DOMAIN frames = {} /\ DOMAIN output = {} /\ DOMAIN busyQueue = {} /\ Len(output) = 0
  OBVIOUS
<1>4. Bound = 1 /\ ~Undecided
  BY <1>3 DEF Bound, Behind, Undecided
<1>5. TableInv /\ UsedIds = {}
  BY DEF TableInv, UsedIds
<1>6. Decided
  <2>1. EarlierIds(1) = {} /\ ~InitializedBefore(1) /\ ~ReadyBefore(1)
    BY NextExpectation
  <2> QED BY <1>4, <1>5, <2>1 DEF Decided
<1>7. AnsweredFrames = {} /\ Given = {NoAnswer}
  BY <1>3 DEF AnsweredFrames, Given, Writers
<1>8. AnswersInv
  BY <1>7 DEF AnswersInv
<1>9. PlacesInv
  <2>1. IsFiniteSet(AnsweredFrames) /\ Cardinality(AnsweredFrames) = 0
    BY <1>7, FS_EmptySet
  <2> QED BY <1>3, <1>4, <2>1 DEF PlacesInv
<1>10. Owed = {}
  BY <1>3 DEF Owed
<1>11. HeldInv /\ EofInv
  BY <1>10 DEF HeldInv, EofInv
<1> QED BY <1>1, <1>2, <1>5, <1>6, <1>8, <1>9, <1>11 DEF IInv

(* Whatever the interleaving of pump, serve, worker, busy worker and tool  *)
(* goroutines: used ids, lifecycle and the place of each answer agree with *)
(* the frames read.                                                        *)
THEOREM Invariance == Spec => []IInv
<1>1. IInv /\ [Next]_vars => IInv'
  <2> SUFFICES ASSUME IInv, [Next]_vars PROVE IInv'
    OBVIOUS
  <2>1. Control /\ TableInv /\ Decided /\ Ledger /\ HeldInv /\ EofInv
    BY DEF IInv, Control, Ledger
  <2>2. TypeOK' /\ Hands' /\ Stopping' /\ BusyInv'
    BY <2>1, NextTypeOK, NextControl DEF Control
  <2>3. TableInv' /\ Decided'
    BY <2>1, NextDecided
  <2>4. Ledger' /\ HeldInv' /\ EofInv'
    BY <2>1, NextLedger
  <2> QED BY <2>2, <2>3, <2>4 DEF IInv, Ledger
<1> QED BY <1>1, InitIInv, PTL DEF Spec

(* The variables of pump, serve, workers and lifecycle keep their types.   *)
THEOREM TypeCorrect == Spec => []TypeOK
<1>1. IInv => TypeOK
  BY DEF IInv
<1> QED BY <1>1, Invariance, PTL

(* What serve, the worker and the busy worker write is right: each frame   *)
(* gets at most one answer, and the one that the frames before it and the  *)
(* limits of usedIDRegistry make right (id_registry.go, lifecycle.go).     *)
THEOREM AnswersAreRight == Spec => []AnswersRight
<1>1. IInv => AnswersRight
  <2> SUFFICES ASSUME IInv PROVE AnswersRight
    OBVIOUS
  <2>1. Cardinality(AnsweredFrames) = Len(output)
    BY DEF IInv, PlacesInv
  <2>2. \A i \in DOMAIN output : output[i] \in Given /\ output[i] # NoAnswer
    BY DEF Given, IInv, AnswersInv
  <2> QED BY <2>1, <2>2 DEF AnswersRight, IInv, AnswersInv
<1> QED BY <1>1, Invariance, PTL

(* serve returns without an error at the end of the input only when        *)
(* finishEOF has seen every answer out (connection.go).                    *)
THEOREM EofAnswersEverything == Spec => []EofAnswersAll
<1>1. IInv => EofAnswersAll
  BY DEF IInv, EofInv, EofAnswersAll
<1> QED BY <1>1, Invariance, PTL

(* The pump reads on only when serve acknowledges the frame.               *)
LEMMA NextReading ==
  ASSUME Next, pump # "reading", pump' = "reading"
  PROVE  Acknowledge
<1> USE DEF Returns
<1>1. ~Pump /\ \A m \in Messages : ~Receive(m)
  BY DEF Pump, InputEnds, PumpStops, Receive
<1>2. CASE Reader
  <2>1. \A m \in Messages :
          ~HandleBroken(m) /\ ~HandleUnanswered(m) /\ ~HandleRefusedId(m) /\ ~HandleRequest(m)
    BY DEF HandleBroken, HandleUnanswered, HandleRefusedId, HandleRequest
  <2>2. ~TakeFrame /\ ~TakeEnd /\ ~TakeError /\ ~SelectEnds /\ ~HandleFatal
    BY DEF TakeFrame, TakeEnd, TakeError, SelectEnds, HandleFatal
  <2>3. ~EnqueueBusy /\ ~EnqueueFails /\ ~AcknowledgeFails /\ ~Drained /\ ~StopAccepting /\ ~ServeReturns
    BY DEF EnqueueBusy, EnqueueFails, AcknowledgeFails, Drained, StopAccepting, ServeReturns
  <2> QED BY <1>2, <2>1, <2>2, <2>3 DEF Reader
<1>3. \A w \in Writers : ~Writer(w)
  BY DEF Writer, BeginWrite, BeginRefused, Write, WriteFails
<1>4. ~BusyTakes /\ ~BusyEnds /\ ~CancelContext /\ ~FatalRaised /\ ~ToolWriteFails /\ ~Served
  BY DEF BusyTakes, BusyEnds, CancelContext, FatalRaised, ToolWriteFails, Served, vars
<1> QED BY <1>1, <1>2, <1>3, <1>4 DEF Next

(* acknowledgeFrame lets the pump read on only when every answer owed is   *)
(* with a worker or in the busy queue (connection.go, concurrency.go).     *)
THEOREM NeverReadsAhead == Spec => NoReadAhead
<1> DEFINE Handed(n) ==
      \/ \E w \in {"worker", "busy"} : pending[w].frame = n
      \/ \E i \in DOMAIN busyQueue : busyQueue[i].frame = n
<1>1. IInv /\ [Next]_vars =>
        [pump # "reading" /\ pump' = "reading" /\ ~terminalStopped => \A n \in Owed : Handed(n)]_vars
  <2> SUFFICES ASSUME IInv, Next, pump # "reading", pump' = "reading", ~terminalStopped,
                      NEW n \in Owed
               PROVE  Handed(n)
    BY DEF vars
  <2>1. Acknowledge
    BY NextReading
  <2>2. Quiet /\ reader = "acking" /\ reader \notin Ended /\ ~Undecided
    BY <2>1 DEF Acknowledge, Quiet, Ended, Undecided, Behind
  <2>3. Held(n) /\ pending["reader"] = NoAnswer
    BY <2>2 DEF IInv, HeldInv, Hands
  <2> QED BY <2>2, <2>3 DEF Held, Writers
<1> QED BY <1>1, Invariance, PTL DEF Spec, NoReadAhead
===============================================================================
