---------------------------- MODULE CursorRegistry ----------------------------
(***************************************************************************)
(* The memory of the cursor registry (internal/cursor: registry.go,        *)
(* successor.go, accounting.go): the lineages of one connection in their   *)
(* order of use, what each is charged, and the totals against the limits.  *)
(*                                                                         *)
(* Every admission first counts whether evicting idle lineages, the least  *)
(* recently used first, would make room, and then evicts them.  A lineage  *)
(* whose page is being computed is pinned: removing it only marks it, and  *)
(* the end of the last computation completes the removal.  Each action is  *)
(* one critical section of Registry.mu; who waits for a computation is     *)
(* CursorContinue's matter.                                                *)
(***************************************************************************)
EXTENDS Integers, Sequences, FiniteSets, FiniteSetsExt, SequencesExt

CONSTANTS
  Lineages,    \* the places of the lineage arena
  MaxEntries,  \* cfg.CursorMaxEntries
  MaxBytes,    \* cfg.CursorMaxTotalBytes less the bytes of the fixed containers
  MaxPages,    \* cfg.CursorMaxPages
  Sizes,       \* the footprints of states, and of states with the memo before
  Reservations, \* the bytes reserved with a lineage
  FixedBytes   \* of a lineage: a root handle, or the shared text of a read

ASSUME RegistryAssumption ==
  /\ MaxEntries \in Nat \ {0} /\ MaxBytes \in Nat \ {0} /\ MaxPages \in Nat \ {0}
  /\ Sizes \subseteq Nat /\ Reservations \subseteq Nat /\ FixedBytes \in Nat
  /\ IsFiniteSet(Lineages)
  /\ 2 * Cardinality(Lineages) > MaxEntries   \* a lineage takes two slots or more: one place is free

VARIABLES
  lineages,    \* the columns of the lineage arena with the entries of each lineage
  lru,         \* the occupied places, the most recently used first
  usedSlots, totalBytes,
  closed,
  released     \* releaseFixedLocked has run

vars == <<lineages, lru, usedSlots, totalBytes, closed, released>>

Live == {"publishing", "published"}

(* entries: the bytes charged with each entry, from page 0 on.  runtime:   *)
(* the entries whose page is being computed.                               *)
Free == [phase |-> "none", read |-> FALSE, entries |-> <<>>, runtime |-> {}, pins |-> 0,
         reservedSlots |-> 0, reservedBytes |-> 0, dynamicBytes |-> 0,
         age |-> "fresh", protected |-> FALSE]

Init ==
  /\ lineages = [l \in Lineages |-> Free] /\ lru = <<>>
  /\ usedSlots = 0 /\ totalBytes = 0 /\ closed = FALSE /\ released = FALSE

-------------------------------------------------------------------------------
(* Removal and eviction                                                    *)

SlotsOf(lineage) == Len(lineage.entries) + lineage.reservedSlots

Occupied(arena) == {l \in Lineages : arena[l].phase # "none"}
Slots(L) == FoldFunctionOnSet(+, 0, [l \in Lineages |-> SlotsOf(lineages[l])], L)
Bytes(L) == FoldFunctionOnSet(+, 0, [l \in Lineages |-> lineages[l].dynamicBytes], L)

(* The members of S in the line q, in its order.                           *)
Only(q, S) ==
  LET only[n \in 0 .. Len(q)] ==
        IF n = 0 THEN <<>> ELSE IF q[n] \in S THEN Append(only[n - 1], q[n]) ELSE only[n - 1]
  IN only[Len(q)]

Without(L) == Only(lru, Lineages \ L)

(* removeLineageLocked on the place l of an arena that is up to date       *)
RemoveLineage(l, arena) ==
  IF arena[l].pins # 0
  THEN /\ lineages' = [arena EXCEPT ![l].phase = "rollback"]
       /\ UNCHANGED <<lru, usedSlots, totalBytes, released>>
  ELSE /\ lineages' = [arena EXCEPT ![l] = Free]
       /\ lru' = Without({l})
       /\ usedSlots' = usedSlots - SlotsOf(arena[l])
       /\ totalBytes' = totalBytes - arena[l].dynamicBytes
       /\ released' = (closed /\ Occupied(arena) = {l})

Evictable(l) == lineages[l].phase = "published" /\ lineages[l].pins = 0 /\ ~lineages[l].protected

(* Mutated form: the lineage that was used last goes first.                *)
Idle_Newest(exclude) == Only(lru, {l \in Lineages \ {exclude} : Evictable(l)})

(* The lineages that may make room, in the order they are evicted.         *)
Idle(exclude) == Only(Reverse(lru), {l \in Lineages \ {exclude} : Evictable(l)})
First(n, exclude) == {Idle(exclude)[i] : i \in 1 .. n}

Fits(slots, bytes, n, exclude) ==
  /\ usedSlots - Slots(First(n, exclude)) + slots <= MaxEntries
  /\ totalBytes - Bytes(First(n, exclude)) + bytes <= MaxBytes

(* canAdmitWithEvictionLocked                                              *)
CanAdmit(slots, bytes, exclude) == \E n \in 0 .. Len(Idle(exclude)) : Fits(slots, bytes, n, exclude)

(* eligibleLRUTailLocked until fitsLocked.  A lineage whose publication is *)
(* not committed, or that is protected or pinned, is passed over.          *)
Victims(slots, bytes, exclude) ==
  First(Min({n \in 0 .. Len(Idle(exclude)) : Fits(slots, bytes, n, exclude)}), exclude)

Evicted(L) == [l \in Lineages |-> IF l \in L THEN Free ELSE lineages[l]]

-------------------------------------------------------------------------------
(* The initial page                                                        *)

(* CommitDynamicInitial and CommitReadInitial with commitInitial.  A read  *)
(* reserves all of its pages, another lineage the final summary.  The      *)
(* lease of a call that is marked meanwhile refuses the transfer: then the *)
(* room that was made stays free.                                          *)
CommitInitial(l, read, size, slots, bytes, transferred) ==
  LET charge == size + FixedBytes + bytes
      victims == Victims(slots + 1, charge, l)
  IN
  /\ ~closed /\ lineages[l].phase = "none" /\ MaxPages >= 2
  /\ IF read THEN slots + 1 <= MaxPages ELSE slots = 1
  /\ CanAdmit(slots + 1, charge, l)
  /\ IF transferred
     THEN /\ lineages' = [Evicted(victims) EXCEPT ![l] =
               [Free EXCEPT !.phase = "provisional", !.read = read, !.entries = <<size>>,
                            !.reservedSlots = slots, !.reservedBytes = bytes,
                            !.dynamicBytes = charge]]
          /\ lru' = <<l>> \o Without(victims)
          /\ usedSlots' = usedSlots - Slots(victims) + slots + 1
          /\ totalBytes' = totalBytes - Bytes(victims) + charge
     ELSE /\ lineages' = Evicted(victims) /\ lru' = Without(victims)
          /\ usedSlots' = usedSlots - Slots(victims)
          /\ totalBytes' = totalBytes - Bytes(victims)
  /\ UNCHANGED <<closed, released>>

Prepare(l) ==
  /\ ~closed /\ lineages[l].phase = "provisional"
  /\ lineages' = [lineages EXCEPT ![l].phase = "publishing", ![l].protected = TRUE]
  /\ UNCHANGED <<lru, usedSlots, totalBytes, closed, released>>

Commit(l) ==
  /\ ~closed /\ lineages[l].phase = "publishing"
  /\ lineages' = [lineages EXCEPT ![l].phase = "published"]
  /\ UNCHANGED <<lru, usedSlots, totalBytes, closed, released>>

(* The response was not delivered, or the lease of the call was marked.    *)
Rollback(l) ==
  /\ lineages[l].phase \in {"provisional", "publishing"}
  /\ RemoveLineage(l, lineages)
  /\ UNCHANGED closed

-------------------------------------------------------------------------------
(* Lookups and computations                                                *)

(* Protection and expiry are instants of their own: Prepare may come late. *)
TimePasses(l) ==
  /\ lineages[l].phase # "none"
  /\ \/ lineages[l].protected /\ lineages' = [lineages EXCEPT ![l].protected = FALSE]
     \/ lineages[l].age = "fresh" /\ lineages' = [lineages EXCEPT ![l].age = "stale"]
     \/ lineages[l].age = "stale" /\ lineages' = [lineages EXCEPT ![l].age = "over"]
  /\ UNCHANGED <<lru, usedSlots, totalBytes, closed, released>>

Expired(l) == lineages[l].age = "over" \/ (lineages[l].age = "stale" /\ ~lineages[l].protected)

Touched(l, order) == <<l>> \o Only(order, Lineages \ {l})

(* lookupLocked, for whichever page: resolveLocked and lruTouchLocked      *)
Lookup(l) ==
  /\ ~closed /\ lineages[l].phase \in Live
  /\ IF Expired(l)
     THEN RemoveLineage(l, lineages)
     ELSE /\ lru' = Touched(l, lru)
          /\ UNCHANGED <<lineages, usedSlots, totalBytes, released>>
  /\ UNCHANGED closed

(* Continue for the last page, which has no memo and nobody computes       *)
Start(l) ==
  LET n == Len(lineages[l].entries) IN
  /\ ~closed /\ lineages[l].phase \in Live /\ ~Expired(l) /\ n \notin lineages[l].runtime
  /\ lineages' = [lineages EXCEPT ![l].runtime = @ \cup {n}, ![l].pins = @ + 1]
  /\ lru' = Touched(l, lru)
  /\ UNCHANGED <<usedSlots, totalBytes, closed, released>>

(* The last waiter leaves, or the deadline passes.                         *)
Condemn(l) ==
  /\ lineages[l].runtime # {}
  /\ lineages' = [lineages EXCEPT ![l].phase = "rollback"]
  /\ UNCHANGED <<lru, usedSlots, totalBytes, closed, released>>

(* materializeSuccessor: the page of the last entry gets a child, unless   *)
(* the last reserved page, which must be the last (MustTerminalize for a   *)
(* summary, nothing left to plan for a read), has been made already ...    *)
MayExtend(l) ==
  LET n == Len(lineages[l].entries) IN
  /\ n \in lineages[l].runtime /\ n + 2 <= MaxPages
  /\ lineages[l].reservedSlots > 0
  /\ ~closed /\ lineages[l].phase \in Live /\ lineages[l].age = "fresh"

(* Mutated form: the rest is given back to the lineage, not to the total.  *)
MaterializeReserved_KeepsSlack(l, size) ==
  LET lineage == lineages[l]
      last == lineage.reservedSlots = 1
      slack == IF last /\ ~lineage.read THEN lineage.reservedBytes - size ELSE 0
  IN
  /\ MayExtend(l) /\ size <= lineage.reservedBytes
  /\ last /\ lineage.read => size = lineage.reservedBytes
  /\ lineages' = [lineages EXCEPT ![l].entries = Append(@, size),
                                  ![l].reservedSlots = @ - 1,
                                  ![l].reservedBytes = @ - size - slack,
                                  ![l].dynamicBytes = @ - slack,
                                  ![l].protected = TRUE]
  /\ lru' = Touched(l, lru)
  /\ UNCHANGED <<usedSlots, totalBytes, closed, released>>

(* ... paid by the reservation.  The last page of a read takes all that is *)
(* left, the summary of another lineage gives the rest back.               *)
MaterializeReserved(l, size) ==
  LET lineage == lineages[l]
      last == lineage.reservedSlots = 1
      slack == IF last /\ ~lineage.read THEN lineage.reservedBytes - size ELSE 0
  IN
  /\ MayExtend(l) /\ size <= lineage.reservedBytes
  /\ last /\ lineage.read => size = lineage.reservedBytes
  /\ lineages' = [lineages EXCEPT ![l].entries = Append(@, size),
                                  ![l].reservedSlots = @ - 1,
                                  ![l].reservedBytes = @ - size - slack,
                                  ![l].dynamicBytes = @ - slack,
                                  ![l].protected = TRUE]
  /\ totalBytes' = totalBytes - slack
  /\ lru' = Touched(l, lru)
  /\ UNCHANGED <<usedSlots, closed, released>>

(* ... or newly admitted, if it is not a read.  The lineage itself is not  *)
(* evicted for it.                                                         *)
MaterializeAdmitted(l, size) ==
  LET victims == Victims(1, size, l) IN
  /\ MayExtend(l) /\ ~lineages[l].read
  /\ CanAdmit(1, size, l)
  /\ lineages' = [Evicted(victims) EXCEPT ![l].entries = Append(@, size),
                                          ![l].dynamicBytes = @ + size,
                                          ![l].protected = TRUE]
  /\ usedSlots' = usedSlots - Slots(victims) + 1
  /\ totalBytes' = totalBytes - Bytes(victims) + size
  /\ lru' = Touched(l, Without(victims))
  /\ UNCHANGED <<closed, released>>

(* finishPartial, finishTerminal, finishDiscarded: the lineage lives on if *)
(* the page has a successor and nothing happened since.                    *)
Finish(l, i) ==
  LET lineage == lineages[l]
      unpinned == [lineages EXCEPT ![l].runtime = @ \ {i}, ![l].pins = @ - 1]
  IN
  /\ i \in lineage.runtime
  /\ IF i < Len(lineage.entries) /\ ~closed /\ lineage.phase \in Live
     THEN lineages' = unpinned /\ UNCHANGED <<lru, usedSlots, totalBytes, released>>
     ELSE RemoveLineage(l, unpinned)
  /\ UNCHANGED closed

Close ==
  /\ ~closed /\ closed' = TRUE
  /\ LET pinned == {l \in Lineages : lineages[l].pins # 0} IN
       /\ lineages' = [l \in Lineages |-> IF l \in pinned THEN [lineages[l] EXCEPT !.phase = "rollback"]
                                          ELSE Free]
       /\ lru' = Without(Lineages \ pinned)
       /\ usedSlots' = usedSlots - Slots(Lineages \ pinned)
       /\ totalBytes' = totalBytes - Bytes(Lineages \ pinned)
       /\ released' = (pinned = {})

-------------------------------------------------------------------------------
Step(l) ==
  \/ \E read, transferred \in BOOLEAN, size \in Sizes, slots \in 1 .. MaxPages, bytes \in Reservations :
       CommitInitial(l, read, size, slots, bytes, transferred)
  \/ Prepare(l) \/ Commit(l) \/ Rollback(l)
  \/ TimePasses(l) \/ Lookup(l) \/ Start(l) \/ Condemn(l)
  \/ \E size \in Sizes : MaterializeReserved(l, size) \/ MaterializeAdmitted(l, size)
  \/ \E i \in 1 .. MaxPages : Finish(l, i)

(* The connection has ended, and with it the last computation.             *)
Released == released /\ UNCHANGED vars

Next == (\E l \in Lineages : Step(l)) \/ Close \/ Released

Spec == Init /\ [][Next]_vars
-------------------------------------------------------------------------------
(* Properties                                                              *)

TypeOK ==
  /\ lineages \in [Lineages ->
       [phase : {"none", "provisional", "publishing", "published", "rollback"}, read : BOOLEAN,
        entries : Seq(Nat), runtime : SUBSET (1 .. MaxPages), pins : Nat,
        reservedSlots : Nat, reservedBytes : Nat, dynamicBytes : Nat,
        age : {"fresh", "stale", "over"}, protected : BOOLEAN]]
  /\ lru \in Seq(Lineages)
  /\ usedSlots \in Nat /\ totalBytes \in Nat /\ closed \in BOOLEAN /\ released \in BOOLEAN

SlotsExact == usedSlots = Slots(Occupied(lineages)) /\ usedSlots <= MaxEntries

BytesExact ==
  LET held == [l \in Lineages |->
                 FoldSeq(+, 0, lineages[l].entries) + FixedBytes + lineages[l].reservedBytes]
  IN totalBytes = FoldFunctionOnSet(+, 0, held, Occupied(lineages)) /\ totalBytes <= MaxBytes

OrderExact == IsInjective(lru) /\ ToSet(lru) = Occupied(lineages)

PinsExact == \A l \in Lineages : lineages[l].pins = Cardinality(lineages[l].runtime)

StorageReleased == released <=> closed /\ Occupied(lineages) = {}

(* A successor that is allowed finds a free place in the arena of the      *)
(* entries before anything is evicted for it: the code asks in this order. *)
PlaceFree ==
  \A l \in Lineages :
    MayExtend(l) =>
      FoldFunctionOnSet(+, 0, [k \in Lineages |-> Len(lineages[k].entries)], Lineages) < MaxEntries

(* The totals are what the entries, the fixed parts and the reservations   *)
(* of the occupied places add up to, and within the limits; the order of   *)
(* use names each occupied place once; and the fixed containers are given  *)
(* back when the registry is closed and the last computation has ended,    *)
(* not before; and a page that may have a successor has a place for it.    *)
(* Nothing leaks and nothing is given back twice, whatever was evicted,    *)
(* rolled back, refused or closed half way.                                *)
StorageExact ==
  /\ TypeOK /\ SlotsExact /\ BytesExact /\ OrderExact /\ PinsExact /\ StorageReleased
  /\ PlaceFree

(* A step admits for the lineages that grow; the others that end in it     *)
(* made the room.                                                          *)
Grown == {l \in Lineages : Len(lineages'[l].entries) > Len(lineages[l].entries)}
Gone == {l \in Lineages : lineages[l].phase # "none" /\ lineages'[l].phase = "none"}
At(l) == CHOOSE i \in DOMAIN lru : lru[i] = l

(* Nobody computes for v and its cursor had its time; whoever else may go  *)
(* was used after v; and the last of those that went was still in the way. *)
Spent(v) == lineages[v].phase = "published" /\ lineages[v].runtime = {} /\ ~lineages[v].protected
Oldest(v, l) == \A k \in Lineages \ (Gone \cup {l}) : Evictable(k) => At(k) < At(v)
Needed(v) == (\A w \in Gone : At(v) <= At(w)) =>
               \/ usedSlots' + SlotsOf(lineages[v]) > MaxEntries
               \/ totalBytes' + lineages[v].dynamicBytes > MaxBytes

(* To make room an admission removes only lineages that nobody computes    *)
(* for, whose cursor has been handed over and had its time, the least      *)
(* recently used first, and no more of them than it needs.                 *)
EvictsOldest ==
  [][\A l \in Grown, v \in Gone : Spent(v) /\ Oldest(v, l) /\ Needed(v)]_vars
===============================================================================
