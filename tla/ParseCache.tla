------------------------------ MODULE ParseCache ------------------------------
(***************************************************************************)
(* The cache of parse results (internal/codeparse/cache.go): a list of     *)
(* entries in the order of their last use, and the bytes they are charged. *)
(* An entry is known by its key; its result is immutable and is cloned on  *)
(* the way in and out.                                                     *)
(***************************************************************************)
EXTENDS Naturals, FiniteSets, SequencesExt, Loops

CONSTANTS
  Files,       \* cache keys: a path with the digest and language of its content
  Footprint,   \* cacheEntryFootprint of a key with its result
  MaxEntries,  \* Cache.maxEntries
  MaxBytes     \* Cache.maxBytes

ASSUME CacheAssumption ==   \* checked by NewCache
  /\ Footprint \in [Files -> Nat \ {0}]
  /\ MaxEntries \in Nat /\ MaxBytes \in Nat
  /\ MaxEntries = 0 <=> MaxBytes = 0

(* lru: the keys, most recently used first.                                *)
EmptyCache == [lru |-> <<>>, bytes |-> 0]

Cached(cache, f) == f \in ToSet(cache.lru)

(* An order without one of its entries.                                    *)
Without(order, f) ==
  IF f \in ToSet(order) THEN RemoveAt(order, CHOOSE i \in DOMAIN order : order[i] = f)
  ELSE order

(* The list element of a hit moves to the front.                           *)
Used(cache, f) == [lru |-> <<f>> \o Without(cache.lru, f), bytes |-> cache.bytes]

(* Mutated form: an entry that is replaced stays charged.                  *)
Removed_Charged(cache, f) == [lru |-> Without(cache.lru, f), bytes |-> cache.bytes]

Removed(cache, f) ==
  IF ~Cached(cache, f) THEN cache
  ELSE [lru   |-> Without(cache.lru, f),
        bytes |-> IF Footprint[f] > cache.bytes THEN 0 ELSE cache.bytes - Footprint[f]]

Pushed(cache, f) == [lru |-> <<f>> \o cache.lru, bytes |-> cache.bytes + Footprint[f]]

Full(cache) == Len(cache.lru) > MaxEntries \/ cache.bytes > MaxBytes

(* The back of the list goes until both limits hold.                       *)
Evicted(cache) ==
  Looped(LAMBDA c, k : IF Full(c) THEN Removed(c, Last(c.lru)) ELSE c, cache, Len(cache.lru))

Put(cache, f) ==
  IF MaxEntries = 0 \/ Footprint[f] > MaxBytes THEN cache
  ELSE Evicted(Pushed(Removed(cache, f), f))

(* A hit is used; a result that is put in is the one used last.            *)
Handled(cache, put, f) ==
  IF put THEN Put(cache, f) ELSE IF Cached(cache, f) THEN Used(cache, f) ELSE cache

-------------------------------------------------------------------------------
(* What the cache promises                                                 *)

After(uses) ==
  Looped(LAMBDA cache, k : Handled(cache, uses[k].put, uses[k].file), EmptyCache, Len(uses))

ChargeOf(L) == Looped(LAMBDA sum, k : sum + Footprint[L[k]], 0, Len(L))

Fitting(L) == Len(L) <= MaxEntries /\ ChargeOf(L) <= MaxBytes

(* Held so far, and then in use: what is in use is the newest, and the     *)
(* longest part of the order of use that fits is kept.                     *)
Kept(held, u) ==
  LET newest == <<u.file>> \o Without(held, u.file)
      fitting == { n \in 0 .. Len(newest) : Fitting(SubSeq(newest, 1, n)) }
  IN  IF IF u.put THEN ~Fitting(<<u.file>>) ELSE u.file \notin ToSet(held) THEN held
      ELSE SubSeq(newest, 1, CHOOSE n \in fitting : \A m \in fitting : m <= n)

CacheRight(uses) ==
  LET cache == After(uses)
  IN  /\ cache.lru = Looped(LAMBDA held, k : Kept(held, uses[k]), <<>>, Len(uses))
      /\ cache.bytes = ChargeOf(cache.lru)
      /\ Fitting(cache.lru)
===============================================================================
