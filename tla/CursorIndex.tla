----------------------------- MODULE CursorIndex -----------------------------
(***************************************************************************)
(* The fixed containers under the cursor registry (internal/cursor:        *)
(* storage.go, accounting.go): a hash index of the live tokens with open   *)
(* addressing, whose deletion moves entries back over the hole it leaves;  *)
(* the arena of the entries with its free list and the generations that    *)
(* make an old reference invalid; and the arithmetic of their sizes, which *)
(* must refuse what 64 bits cannot hold.  The index and the arena of the   *)
(* lineages are written the same way over lineage ids.                     *)
(*                                                                         *)
(* The registry installs a token with a claimed place and removes both     *)
(* together, always under its lock.                                        *)
(***************************************************************************)
EXTENDS Integers, Sequences, FiniteSets, FiniteSetsExt, SequencesExt

CONSTANTS
  Tokens,        \* keys: tokens, as random as they are distinct
  Homes,         \* the homes the keyed hash gives them
  Places,        \* the places of the arena, layout.MaxEntries of them, by number
  MaxGeneration, \* the last generation of a place: 2^32 - 1
  Width          \* the bits of a size: 64

WordBytes == 8

PowerOfTwo[n \in 0 .. Width + 2] == IF n = 0 THEN 1 ELSE 2 * PowerOfTwo[n - 1]

Top == PowerOfTwo[Width] - 1
MaxInt == PowerOfTwo[Width - 1] - 1

(* An operation on sizes gives Overflow for errAccountingOverflow, and an  *)
(* overflow stays one.                                                     *)
Overflow == -1

CheckedAdd(left, right) ==
  IF Overflow \in {left, right} \/ right > Top - left THEN Overflow ELSE left + right

CheckedMul(left, right) ==
  IF left # 0 /\ right > Top \div left THEN Overflow ELSE left * right

RoundUp(value, alignment) == ((value + alignment - 1) \div alignment) * alignment

(* bits.Len64: one more than the exponent of the highest bit.              *)
BitLength(value) ==
  CHOOSE n \in 0 .. Width : PowerOfTwo[n] > value /\ (n > 0 => PowerOfTwo[n - 1] <= value)

NextPowerOfTwo(value) ==
  IF value = 0 THEN Overflow
  ELSE IF \E n \in 0 .. Width : value = PowerOfTwo[n] THEN value
  ELSE IF BitLength(value) >= Width THEN Overflow
  ELSE PowerOfTwo[BitLength(value)]

(* Sizes are added up one after the other.                                 *)
AddedUp(parts) ==
  LET total[n \in 0 .. Len(parts)] == IF n = 0 THEN 0 ELSE CheckedAdd(total[n - 1], parts[n])
  IN  total[Len(parts)]

(* Two indexes of so many slots, two arenas of so many places.             *)
IndexSlots(maxEntries) ==
  IF maxEntries = 0 \/ maxEntries > Top \div 2 \/ maxEntries > MaxInt THEN Overflow
  ELSE LET slots == NextPowerOfTwo(maxEntries * 2)
       IN  IF slots > MaxInt THEN Overflow ELSE slots

IndexBytes == 25 + 17
ArenaBytes == (44 + 5 * WordBytes) + (107 + 3 * WordBytes)
FixedPart ==
  43 * 3 * WordBytes + 3 * RoundUp(4, WordBytes) + RoundUp(12, WordBytes)
    + RoundUp(8 + 20 * 8 + 3 * WordBytes + 32 + 4 * WordBytes + 10 * 8 + 3 * 8 + 1 + 8, WordBytes)

ContainerLayout(maxEntries) ==
  LET slots == IndexSlots(maxEntries)
      part(count, bytes) == CheckedMul(count, bytes)
  IN  IF slots = Overflow THEN Overflow
      ELSE AddedUp(<<part(slots, 25), part(slots, 17),
                     part(maxEntries, 44 + 5 * WordBytes), part(maxEntries, 107 + 3 * WordBytes),
                     43 * 3 * WordBytes, FixedPart - 43 * 3 * WordBytes>>)

(* What a lineage keeps.                                                   *)
LineageBytes(parts) == AddedUp(parts)

-------------------------------------------------------------------------------
VARIABLES
  home,    \* tokenHome: fixed by the registry's secret
  table,   \* the slots of the token index
  arena,   \* [free, occupied, generation] of the entries
  held,    \* history: the reference that was given out with each live token
  stale,   \* history: the references whose entry was removed
  figures  \* the sizes an accounting is asked for

indexVars == <<home, table, arena, held, stale, figures>>

TableSize == IndexSlots(Cardinality(Places))
TableSlots == 0 .. TableSize - 1
NoToken == "none"
NoPlace == 0
Vacant == [key |-> NoToken, home |-> 0, place |-> NoPlace]
NoRef == [place |-> NoPlace, generation |-> 0]

NewTable == [slot \in TableSlots |-> Vacant]

NewArena == [free |-> [i \in 1 .. Cardinality(Places) |-> i], occupied |-> {},
             generation |-> [p \in Places |-> 1]]

ASSUME IndexAssumption ==
  /\ Width \in Nat \ {0} /\ MaxGeneration \in Nat \ {0}
  /\ IsFiniteSet(Places) /\ Places = 1 .. Cardinality(Places)
  /\ IndexSlots(Cardinality(Places)) # Overflow   \* checked by NewRegistry
  /\ Homes \subseteq TableSlots /\ NoToken \notin Tokens

Slot(from, probe) == (from + probe) % TableSize
CyclicDistance(from, slot) == (slot - from) % TableSize

(* Where the probing for a key ends: at the key or at a vacant slot.       *)
Probed(key, from) ==
  Slot(from, Min({ probe \in TableSlots : table[Slot(from, probe)].key \in {key, NoToken} }))

LookupToken(key) ==
  IF \A slot \in TableSlots : table[slot].key \notin {key, NoToken} THEN NoPlace
  ELSE table[Probed(key, home[key])].place

Inserted(key, place) ==
  [table EXCEPT ![Probed(key, home[key])] = [key |-> key, home |-> home[key], place |-> place]]

(* Mutated form: the hole stays where it is.                               *)
Deleted_Hole(key, from) == [table EXCEPT ![Probed(key, from)] = Vacant]

(* The hole moves on: an entry after it that was pushed over it goes back. *)
(* The table is at most half full, so the scan ends at a vacant slot.      *)
Shift(start, last, probe) ==
  LET slot == Slot(start, probe)
      entry == last.table[slot]
  IN  IF last.over \/ entry = Vacant THEN [last EXCEPT !.over = TRUE]
      ELSE IF CyclicDistance(entry.home, last.hole) < CyclicDistance(entry.home, slot)
        THEN [table |-> [last.table EXCEPT ![last.hole] = entry, ![slot] = Vacant],
              hole |-> slot, over |-> FALSE]
      ELSE last

Deleted(key, from) ==
  LET start == Probed(key, from)
      scan[probe \in 0 .. TableSize - 1] ==
        IF probe = 0 THEN [table |-> [table EXCEPT ![start] = Vacant], hole |-> start, over |-> FALSE]
        ELSE Shift(start, scan[probe - 1], probe)
  IN  scan[TableSize - 1].table

Claimed == [arena EXCEPT !.free = Tail(@), !.occupied = @ \cup {Head(arena.free)}]

ValidRef(ref) ==
  ref.place \in arena.occupied /\ arena.generation[ref.place] = ref.generation

(* A place in its last generation is not given back.                       *)
ReleasedPlace(p) ==
  IF arena.generation[p] = MaxGeneration THEN arena
  ELSE [free |-> <<p>> \o arena.free, occupied |-> arena.occupied \ {p},
        generation |-> [arena.generation EXCEPT ![p] = @ + 1]]

Install(key) ==
  /\ LookupToken(key) = NoPlace
  /\ arena.free # <<>>
  /\ LET p == Head(arena.free)
     IN  /\ table' = Inserted(key, p)
         /\ held' = [held EXCEPT ![key] = [place |-> p, generation |-> arena.generation[p]]]
  /\ arena' = Claimed
  /\ UNCHANGED <<home, stale, figures>>

(* The token is found by its entry, tokenForEntryLocked.                   *)
RemoveEntry(key) ==
  /\ held[key] # NoRef
  /\ LET slots == { slot \in TableSlots : table[slot] # Vacant /\ table[slot].place = held[key].place }
     IN  IF slots = {} THEN UNCHANGED table
         ELSE table' = Deleted(table[Min(slots)].key, table[Min(slots)].home)
  /\ arena' = ReleasedPlace(held[key].place)
  /\ held' = [held EXCEPT ![key] = NoRef]
  /\ stale' = stale \cup {held[key]}
  /\ UNCHANGED <<home, figures>>

IndexInit ==
  /\ home \in [Tokens -> Homes]
  /\ table = NewTable /\ arena = NewArena
  /\ held = [key \in Tokens |-> NoRef] /\ stale = {}
  /\ figures = <<>>

IndexNext == \E key \in Tokens : Install(key) \/ RemoveEntry(key)

IndexSpec == IndexInit /\ [][IndexNext]_indexVars
-------------------------------------------------------------------------------
(* A live token is found and gives its own entry, another is not found;    *)
(* and the probing always meets a vacant slot.                             *)
TokensFound ==
  /\ \A key \in Tokens : LookupToken(key) = held[key].place
  /\ 2 * Cardinality({ slot \in TableSlots : table[slot] # Vacant }) <= TableSize

(* A reference is valid as long as its token is live, and never again.     *)
RefsExact ==
  /\ \A key \in Tokens : held[key] # NoRef => ValidRef(held[key])
  /\ \A ref \in stale : ValidRef(ref) => ref.generation = MaxGeneration
  /\ IsInjective(arena.free) /\ ToSet(arena.free) = Places \ arena.occupied

(* A size is refused exactly when the true number does not fit.            *)
FiguresExact ==
  LET sum == FoldSeq(+, 0, figures)
      entries == figures[1]
      slots == CHOOSE n \in { PowerOfTwo[k] : k \in 0 .. Width + 2 } : 2 * entries <= n /\ n < 4 * entries
      layout == slots * IndexBytes + entries * ArenaBytes + FixedPart
  IN  /\ LineageBytes(figures) = (IF sum > Top THEN Overflow ELSE sum)
      /\ entries = 0 => ContainerLayout(entries) = Overflow
      /\ entries > 0 => ContainerLayout(entries) = (IF layout > Top \/ slots > MaxInt
                                                      THEN Overflow ELSE layout)
===============================================================================
