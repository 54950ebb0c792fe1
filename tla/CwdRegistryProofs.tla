-------------------------- MODULE CwdRegistryProofs --------------------------
(***************************************************************************)
(* Proofs about CwdRegistry for every number of calls, directories, ids    *)
(* and computations.                                                       *)
(*                                                                         *)
(* HandlesExact, BorrowsEnclose and IdsStable are inductive together with  *)
(* what each part of the state says of the others: an id is registered for *)
(* one call, which was told it (Named); a lease lives while something      *)
(* borrows it (Leased); and whatever an operation works through is one of  *)
(* the borrows of its lease (Viewed).                                      *)
(***************************************************************************)
EXTENDS CwdRegistry, FiniteSetTheorems, TLAPS

(* The ids that are registered, told and leased mean what they meant.      *)
Named ==
  /\ \A id \in Ids : root[id] # None =>
       /\ id < next /\ told[root[id]] = id /\ known[asked[root[id]]] = id
  /\ \A d \in Dirs : known[d] # 0 => root[known[d]] # None /\ asked[root[known[d]]] = d
  /\ \A s \in Setters : told[s] < next /\ (setting[s] # "told" => told[s] = 0)
  /\ \A s, t \in Setters : told[s] # 0 /\ told[s] = told[t] => asked[s] = asked[t]
  /\ \A u \in Users : source[u] # None => told[source[u]] = wanted[u] /\ wanted[u] # 0
  /\ Cardinality(Live) <= MaxEntries

(* The roots: HandlesExact, and a call that has not opened one has none.   *)
Rooted ==
  \A s \in Setters :
    /\ rootOf[s] # "broken"
    /\ (rootOf[s] = "open") <=> (setting[s] = "opened" \/ \E id \in Ids : root[id] = s)
    /\ setting[s] = "idle" => rootOf[s] = "none"

(* The leases: HandlesExact, and they are borrowed only while they live.   *)
Leased ==
  \A u \in Users :
    /\ leaseOf[u] # "broken"
    /\ (leaseOf[u] = "open") <=> using[u] \in {"held", "closing"}
    /\ borrows[u] # {} => using[u] \in {"held", "closing"}
    /\ using[u] = "closing" => borrows[u] # {}
    /\ using[u] = "idle" => source[u] = None

(* A borrow at work is one of its lease's, and only it lets operations in. *)
Viewed ==
  /\ \A b \in Borrowers :
       /\ view[b] \in {"inside", "returning"} => of[b] \in Users /\ b \in borrows[of[b]]
       /\ begun[b] + opened[b] > 0 => view[b] \in {"inside", "returning"}
       /\ \A u \in Users : b \in borrows[u] => of[b] = u /\ view[b] \in {"inside", "returning"}
  /\ ~ denied

IInv == TypeOK /\ Named /\ Rooted /\ Leased /\ Viewed

----------------------------------------------------------------------------
(* What is left untouched stays right.                                     *)

LEMMA LeasesSame ==
  ASSUME Leased, Viewed, UNCHANGED <<leaseVars, viewVars>>
  PROVE  Leased' /\ Viewed'
BY DEF Leased, Viewed, leaseVars, viewVars

LEMMA RegistrySame ==
  ASSUME Named, Rooted, UNCHANGED <<asked, registryVars, setVars, source, wanted>>
  PROVE  Named' /\ Rooted'
BY DEF Named, Rooted, registryVars, setVars, Live

(* A directory taken out of the registry, or none put in: the rest counts  *)
(* no more than before.                                                    *)
LEMMA FewerLive ==
  ASSUME TypeOK, Cardinality(Live) <= MaxEntries, NEW S \in SUBSET Live
  PROVE  IsFiniteSet(S) /\ Cardinality(S) \in Nat /\ Cardinality(S) <= MaxEntries
<1>1. MaxId \in Nat /\ MaxEntries \in Nat
  BY CwdConstants
<1>2. IsFiniteSet(Ids)
  BY <1>1, FS_Interval DEF Ids
<1>3. IsFiniteSet(Live)
  BY <1>2, FS_Subset DEF Live
<1>4. IsFiniteSet(S) /\ Cardinality(S) <= Cardinality(Live)
  BY <1>3, FS_Subset
<1>5. Cardinality(S) \in Nat /\ Cardinality(Live) \in Nat
  BY <1>3, <1>4, FS_CardinalityType
<1> QED BY <1>1, <1>4, <1>5

(* What a sweep leaves: a part of what there was, with both tables in      *)
(* agreement, and every root that goes was open.                           *)
LEMMA Swept ==
  ASSUME TypeOK, Named, Rooted
  PROVE  /\ RootSwept \in [Ids -> Setters \cup {None}]
         /\ KnownSwept \in [Dirs -> 0 .. MaxId]
         /\ \A id \in Ids : RootSwept[id] # None => RootSwept[id] = root[id] /\ id \notin Expired
         /\ \A id \in Ids : id \notin Expired => RootSwept[id] = root[id]
         /\ \A d \in Dirs : KnownSwept[d] # 0 =>
              /\ KnownSwept[d] = known[d] /\ KnownSwept[d] \in Ids
              /\ RootSwept[KnownSwept[d]] # None /\ asked[RootSwept[KnownSwept[d]]] = d
         /\ \A id \in Ids : RootSwept[id] # None => KnownSwept[asked[RootSwept[id]]] = id
<1>1. /\ root \in [Ids -> Setters \cup {None}] /\ known \in [Dirs -> 0 .. MaxId]
      /\ asked \in [Setters -> Dirs] /\ None \notin Setters /\ MaxId \in Nat
  BY CwdConstants DEF TypeOK
<1>2. \A id \in Ids : root[id] # None => root[id] \in Setters /\ known[asked[root[id]]] = id
  BY <1>1 DEF Named
<1>3. \A d \in Dirs : known[d] # 0 =>
        known[d] \in Ids /\ root[known[d]] # None /\ asked[root[known[d]]] = d
  BY <1>1 DEF Named, Ids
<1>4. \A id \in Expired : id \in Ids /\ root[id] # None
  BY DEF Expired, Live
<1>5. RootSwept \in [Ids -> Setters \cup {None}]
  BY <1>1 DEF RootSwept
<1>6. \A id \in Ids : RootSwept[id] = IF id \in Expired THEN None ELSE root[id]
  BY DEF RootSwept
<1>7. \A d \in Dirs : KnownSwept[d] = IF known[d] \in Expired /\ asked[root[known[d]]] = d
                                        THEN 0 ELSE known[d]
  BY DEF KnownSwept
<1>8. KnownSwept \in [Dirs -> 0 .. MaxId]
  BY <1>1 DEF KnownSwept
<1>9. \A d \in Dirs : KnownSwept[d] # 0 =>
        KnownSwept[d] = known[d] /\ known[d] \notin Expired /\ known[d] \in Ids
  BY <1>3, <1>4, <1>7
<1>10. \A d \in Dirs : KnownSwept[d] # 0 =>
         RootSwept[KnownSwept[d]] # None /\ asked[RootSwept[KnownSwept[d]]] = d
  BY <1>3, <1>6, <1>9
<1>11. \A id \in Ids : RootSwept[id] # None => KnownSwept[asked[RootSwept[id]]] = id
  BY <1>1, <1>2, <1>6, <1>7
<1> QED BY <1>5, <1>6, <1>8, <1>9, <1>10, <1>11

(* Closing what a call or the registry answers for closes it once.         *)
LEMMA ClosedOnce ==
  ASSUME TypeOK, Named, Rooted, NEW gone \in SUBSET Live, NEW own \in SUBSET Setters,
         \A s \in own : setting[s] = "opened"
  PROVE  /\ Closing(gone, own) \in [Setters -> {"none", "open", "closed", "broken"}]
         /\ \A s \in Setters : Closing(gone, own)[s] =
              IF s \in own \/ \E id \in gone : root[id] = s THEN "closed" ELSE rootOf[s]
<1>1. rootOf \in [Setters -> {"none", "open", "closed", "broken"}]
  BY DEF TypeOK
<1>2. \A s \in Setters : s \in own \/ (\E id \in gone : root[id] = s) => rootOf[s] = "open"
  BY DEF Rooted, Live
<1> QED BY <1>1, <1>2 DEF Closing, Shut

(* A sweep alone, for a call that registers or looks up nothing new.       *)
LEMMA SweepKeepsNames ==
  ASSUME TypeOK, Named, Rooted, root' = RootSwept, known' = KnownSwept,
         UNCHANGED <<asked, next, told>>,
         \A u \in Users : source'[u] # None => told[source'[u]] = wanted'[u] /\ wanted'[u] # 0,
         \A s \in Setters : setting[s] = "told" => setting'[s] = "told"
  PROVE  Named'
<1>1. /\ \A id \in Ids : root'[id] # None => root'[id] = root[id] /\ known'[asked[root'[id]]] = id
      /\ \A d \in Dirs : known'[d] # 0 => root'[known'[d]] # None /\ asked[root'[known'[d]]] = d
  BY Swept
<1>2. Live' \subseteq Live
  BY <1>1 DEF Live, Ids
<1>3. Cardinality(Live') <= MaxEntries
  BY <1>2, FewerLive DEF Named
<1> QED BY <1>1, <1>3 DEF Named, Ids

(* The roots after a sweep in which a call gives up the root it opened, or *)
(* has none.                                                               *)
LEMMA SweepKeepsRoots ==
  ASSUME TypeOK, Named, Rooted, NEW own \in SUBSET Setters,
         root' = RootSwept, rootOf' = Closing(Expired, own),
         \A s \in own : setting[s] = "opened" /\ setting'[s] \in {"told", "failed"},
         \A s \in Setters \ own : setting'[s] = setting[s]
  PROVE  Rooted'
<1>1. Expired \subseteq Live
  BY DEF Expired
<1>2. \A s \in Setters : rootOf'[s] =
        IF s \in own \/ \E id \in Expired : root[id] = s THEN "closed" ELSE rootOf[s]
  BY <1>1, ClosedOnce
<1>3. /\ \A id \in Ids : root'[id] # None => root'[id] = root[id] /\ id \notin Expired
      /\ \A id \in Ids : id \notin Expired => root'[id] = root[id]
  BY Swept
<1>4. \A id \in Ids : root[id] # None => told[root[id]] = id /\ root[id] \in Setters
  BY DEF Named, TypeOK
<1>5. \A s \in Setters : setting[s] = "opened" => told[s] = 0
  BY DEF Named
<1>6. \A id \in Ids : id # 0
  BY DEF Ids
<1>7. None \notin Setters
  BY CwdConstants
<1> SUFFICES ASSUME NEW s \in Setters
             PROVE  /\ rootOf'[s] # "broken"
                    /\ (rootOf'[s] = "open") <=>
                         (setting'[s] = "opened" \/ \E id \in Ids : root'[id] = s)
                    /\ setting'[s] = "idle" => rootOf'[s] = "none"
  BY DEF Rooted
<1>8. CASE s \in own
  <2>1. \A id \in Ids : root[id] # s
    BY <1>4, <1>5, <1>6, <1>7, <1>8
  <2> QED BY <1>2, <1>3, <1>7, <1>8, <2>1
<1>9. CASE s \notin own /\ \E id \in Expired : root[id] = s
  <2>1. PICK id \in Ids : id \in Expired /\ root[id] = s
    BY <1>1, <1>9 DEF Live
  <2>2. told[s] = id /\ setting[s] # "opened" /\ setting[s] # "idle"
    BY <1>4, <1>6, <1>7, <2>1 DEF Named
  <2>3. \A other \in Ids : root'[other] # s
    BY <1>3, <1>4, <1>7, <2>1, <2>2
  <2> QED BY <1>2, <1>9, <2>2, <2>3
<1>10. CASE s \notin own /\ ~ \E id \in Expired : root[id] = s
  <2>1. \A id \in Ids : root'[id] = s <=> root[id] = s
    BY <1>3, <1>7, <1>10
  <2> QED BY <1>2, <1>10, <2>1 DEF Rooted
<1> QED BY <1>8, <1>9, <1>10

----------------------------------------------------------------------------
(* The steps.                                                              *)

LEMMA InitIInv ==
  ASSUME Init
  PROVE  IInv
<1>1. MaxEntries \in Nat /\ MaxId \in Nat
  BY CwdConstants
<1>2. TypeOK
  <2>1. next \in 1 .. MaxId + 1 /\ now \in Nat /\ 0 \in 0 .. MaxId
    BY <1>1 DEF Init
  <2>2. root \in [Ids -> Setters \cup {None}] /\ expires \in [Ids -> Nat]
        /\ known \in [Dirs -> 0 .. MaxId] /\ told \in [Setters -> 0 .. MaxId]
        /\ wanted \in [Users -> 0 .. MaxId]
    BY <2>1 DEF Init
  <2> QED BY <2>1, <2>2 DEF Init, TypeOK
<1>3. Cardinality(Live) <= MaxEntries
  <2>1. Live = {}
    BY DEF Init, Live
  <2> QED BY <1>1, <2>1, FS_EmptySet
<1>4. Named
  BY <1>3, CwdConstants DEF Init, Named, Ids
<1>5. Rooted
  BY CwdConstants DEF Init, Rooted
<1>6. Leased /\ Viewed
  BY DEF Init, Leased, Viewed
<1> QED BY <1>2, <1>4, <1>5, <1>6 DEF IInv

LEMMA OpenRootStep ==
  ASSUME IInv, NEW s \in Setters, OpenRoot(s)
  PROVE  IInv'
<1>1. TypeOK'
  BY DEF IInv, TypeOK, OpenRoot, registryVars, leaseVars, viewVars
<1>2. Leased' /\ Viewed'
  BY LeasesSame DEF IInv, OpenRoot
<1>3. Named'
  BY DEF IInv, Named, OpenRoot, registryVars, leaseVars, Live, TypeOK
<1>4. \A id \in Ids : root[id] # s
  BY DEF IInv, Rooted, OpenRoot
<1>5. Rooted'
  BY <1>4 DEF IInv, Rooted, OpenRoot, registryVars, TypeOK
<1> QED BY <1>1, <1>2, <1>3, <1>5 DEF IInv

LEMMA RegisterClosedStep ==
  ASSUME IInv, NEW s \in Setters, RegisterClosed(s)
  PROVE  IInv'
<1>1. \A t \in Setters : rootOf'[t] = IF t = s THEN "closed" ELSE rootOf[t]
  BY ClosedOnce DEF IInv, RegisterClosed
<1>2. rootOf' \in [Setters -> {"none", "open", "closed", "broken"}]
  BY ClosedOnce DEF IInv, RegisterClosed
<1>3. TypeOK'
  BY <1>2 DEF IInv, TypeOK, RegisterClosed, registryVars, leaseVars, viewVars
<1>4. Leased' /\ Viewed'
  BY LeasesSame DEF IInv, RegisterClosed
<1>5. Named'
  BY DEF IInv, Named, RegisterClosed, registryVars, leaseVars, Live, TypeOK
<1>6. \A id \in Ids : root[id] # s
  BY CwdConstants DEF IInv, Named, RegisterClosed, Ids
<1>7. \A t \in Setters : setting'[t] = IF t = s THEN "failed" ELSE setting[t]
  BY DEF IInv, TypeOK, RegisterClosed
<1>8. root' = root
  BY DEF RegisterClosed, registryVars
<1>9. Rooted'
  BY <1>1, <1>6, <1>7, <1>8 DEF IInv, Rooted
<1> QED BY <1>3, <1>4, <1>5, <1>9 DEF IInv

LEMMA RegisterKnownStep ==
  ASSUME IInv, NEW s \in Setters, RegisterKnown(s)
  PROVE  IInv'
<1> DEFINE id == KnownSwept[asked[s]]
<1>1. asked[s] \in Dirs /\ id # 0 /\ told[s] = 0 /\ setting[s] = "opened"
  BY DEF IInv, TypeOK, Named, RegisterKnown
<1>2. id \in Ids /\ id = known[asked[s]] /\ RootSwept[id] # None /\ RootSwept[id] = root[id]
      /\ asked[root[id]] = asked[s]
  BY <1>1, Swept DEF IInv
<1>3. root[id] \in Setters /\ told[root[id]] = id /\ id < next /\ root[id] # s
  BY <1>1, <1>2 DEF IInv, Named, TypeOK
<1> HIDE DEF id
<1>4. /\ told' = [told EXCEPT ![s] = id] /\ setting' = [setting EXCEPT ![s] = "told"]
      /\ root' = RootSwept /\ known' = KnownSwept /\ rootOf' = Closing(Expired, {s})
      /\ UNCHANGED <<asked, now, next, closed, expires, leaseVars, viewVars>>
  BY DEF RegisterKnown, id
<1>5. TypeOK'
  <2>1. rootOf' \in [Setters -> {"none", "open", "closed", "broken"}]
    BY <1>1, <1>4, ClosedOnce DEF IInv, Expired
  <2>2. root' \in [Ids -> Setters \cup {None}] /\ known' \in [Dirs -> 0 .. MaxId]
    BY <1>4, Swept DEF IInv
  <2>3. id \in 0 .. MaxId
    BY <1>2, CwdConstants DEF Ids
  <2> QED BY <1>4, <2>1, <2>2, <2>3 DEF IInv, TypeOK, leaseVars, viewVars
<1>6. Leased' /\ Viewed'
  BY <1>4, LeasesSame DEF IInv
<1>7. Rooted'
  BY <1>1, <1>4, SweepKeepsRoots DEF IInv, TypeOK
<1>8. Named'
  <2>1. \A t \in Setters : told'[t] = IF t = s THEN id ELSE told[t]
    BY <1>4 DEF IInv, TypeOK
  <2>2. \A i \in Ids : root'[i] # None =>
          root'[i] = root[i] /\ i < next /\ told[root[i]] = i /\ root[i] \in Setters /\ i # 0
          /\ known'[asked[root[i]]] = i
    BY <1>4, Swept DEF IInv, Named, TypeOK, Ids
  <2>3. \A i \in Ids : root'[i] # None => told'[root'[i]] = i /\ known'[asked'[root'[i]]] = i
    BY <1>1, <1>4, <2>1, <2>2
  <2>4. \A d \in Dirs : known'[d] # 0 => root'[known'[d]] # None /\ asked'[root'[known'[d]]] = d
    BY <1>4, Swept DEF IInv
  <2>5. \A t \in Setters : told'[t] < next' /\ (setting'[t] # "told" => told'[t] = 0)
    BY <1>3, <1>4, <2>1 DEF IInv, Named, TypeOK
  <2>6. \A t, r \in Setters : told'[t] # 0 /\ told'[t] = told'[r] => asked'[t] = asked'[r]
    <3>1. \A r \in Setters : told[r] = id => asked[r] = asked[s]
      BY <1>2, <1>3, <1>1 DEF IInv, Named, Ids
    <3> QED BY <1>4, <2>1, <3>1 DEF IInv, Named
  <2>7. \A u \in Users : source'[u] # None => told'[source'[u]] = wanted'[u] /\ wanted'[u] # 0
    BY <1>1, <1>4, <2>1 DEF IInv, Named, TypeOK, leaseVars
  <2>8. Cardinality(Live') <= MaxEntries
    <3>1. Live' \subseteq Live
      BY <2>2 DEF Live, Ids
    <3> QED BY <3>1, FewerLive DEF IInv, Named
  <2> QED BY <1>4, <2>2, <2>3, <2>4, <2>5, <2>6, <2>7, <2>8 DEF Named, Ids
<1> QED BY <1>5, <1>6, <1>7, <1>8 DEF IInv

LEMMA RegisterFullStep ==
  ASSUME IInv, NEW s \in Setters, RegisterFull(s)
  PROVE  IInv'
<1>1. TypeOK'
  <2>1. rootOf' = Closing(Expired, {s}) /\ setting[s] = "opened" /\ Expired \subseteq Live
    BY DEF RegisterFull, Expired
  <2>2. rootOf' \in [Setters -> {"none", "open", "closed", "broken"}]
    BY <2>1, ClosedOnce DEF IInv
  <2>3. root' \in [Ids -> Setters \cup {None}] /\ known' \in [Dirs -> 0 .. MaxId]
    BY Swept DEF IInv, RegisterFull
  <2> QED BY <2>2, <2>3 DEF IInv, TypeOK, RegisterFull, leaseVars, viewVars
<1>2. Leased' /\ Viewed'
  BY LeasesSame DEF IInv, RegisterFull
<1>3. Rooted'
  BY SweepKeepsRoots DEF IInv, TypeOK, RegisterFull
<1>4. Named'
  <2>1. UNCHANGED <<source, wanted>>
    BY DEF RegisterFull, leaseVars
  <2> QED BY <2>1, SweepKeepsNames DEF IInv, Named, TypeOK, RegisterFull
<1> QED BY <1>1, <1>2, <1>3, <1>4 DEF IInv

LEMMA RegisterNewStep ==
  ASSUME IInv, NEW s \in Setters, RegisterNew(s)
  PROVE  IInv'
<1> DEFINE d0 == asked[s]
           after == Live \ Expired
<1>1. /\ d0 \in Dirs /\ setting[s] = "opened" /\ told[s] = 0 /\ KnownSwept[d0] = 0
      /\ next \in Ids /\ next \in Nat /\ MaxId \in Nat /\ MaxEntries \in Nat /\ now + TTL \in Nat
      /\ ~ (Cardinality(after) >= MaxEntries)
  BY CwdConstants DEF IInv, TypeOK, Named, RegisterNew, Full, Ids
<1>2. /\ told' = [told EXCEPT ![s] = next] /\ setting' = [setting EXCEPT ![s] = "told"]
      /\ next' = next + 1 /\ root' = [RootSwept EXCEPT ![next] = s]
      /\ expires' = [expires EXCEPT ![next] = now + TTL]
      /\ known' = [KnownSwept EXCEPT ![d0] = next] /\ rootOf' = Closing(Expired, {})
      /\ UNCHANGED <<asked, now, closed, leaseVars, viewVars>>
  BY DEF RegisterNew
<1>3. /\ RootSwept \in [Ids -> Setters \cup {None}] /\ KnownSwept \in [Dirs -> 0 .. MaxId]
      /\ \A i \in Ids : root'[i] = IF i = next THEN s ELSE RootSwept[i]
      /\ \A d \in Dirs : known'[d] = IF d = d0 THEN next ELSE KnownSwept[d]
      /\ \A t \in Setters : told'[t] = IF t = s THEN next ELSE told[t]
      /\ \A t \in Setters : setting'[t] = IF t = s THEN "told" ELSE setting[t]
  BY <1>1, <1>2, Swept DEF IInv, TypeOK
<1>4. \A i \in Ids : RootSwept[i] # None =>
        /\ RootSwept[i] = root[i] /\ root[i] \in Setters /\ told[root[i]] = i /\ i < next /\ i # 0
        /\ i \notin Expired /\ root[i] # s /\ KnownSwept[asked[root[i]]] = i /\ asked[root[i]] # d0
  <2> SUFFICES ASSUME NEW i \in Ids, RootSwept[i] # None
               PROVE  /\ RootSwept[i] = root[i] /\ root[i] \in Setters /\ told[root[i]] = i
                      /\ i < next /\ i # 0 /\ i \notin Expired /\ root[i] # s
                      /\ KnownSwept[asked[root[i]]] = i /\ asked[root[i]] # d0
    OBVIOUS
  <2> HIDE DEF d0, after
  <2>1. RootSwept[i] = root[i] /\ i \notin Expired /\ KnownSwept[asked[RootSwept[i]]] = i /\ i # 0
    BY Swept DEF IInv, Ids
  <2>2. root[i] \in Setters /\ told[root[i]] = i /\ i < next
    BY <2>1 DEF IInv, Named, TypeOK
  <2> QED BY <1>1, <2>1, <2>2
<1>5. \A i \in Ids : i \notin Expired => RootSwept[i] = root[i]
  BY Swept DEF IInv
<1>6. RootSwept[next] = None /\ root[next] = None
  <2>1. root[next] = None
    BY <1>1 DEF IInv, Named
  <2> QED BY <1>1, <1>4, <2>1
<1>7. Expired \subseteq Live
  BY DEF Expired
<1>8. \A t \in Setters : rootOf'[t] =
        IF \E id \in Expired : root[id] = t THEN "closed" ELSE rootOf[t]
  <2>1. {} \in SUBSET Setters /\ \A t \in {} : setting[t] = "opened"
    OBVIOUS
  <2>2. \A t \in Setters : Closing(Expired, {})[t] =
          IF t \in {} \/ \E id \in Expired : root[id] = t THEN "closed" ELSE rootOf[t]
    BY <1>7, <2>1, ClosedOnce DEF IInv
  <2> QED BY <1>2, <2>2
<1> HIDE DEF d0, after
<1>9. TypeOK'
  <2>1. rootOf' \in [Setters -> {"none", "open", "closed", "broken"}]
    BY <1>2, <1>7, ClosedOnce DEF IInv
  <2>2. next \in 0 .. MaxId /\ next + 1 \in 1 .. MaxId + 1
    BY <1>1 DEF Ids
  <2>3. root' \in [Ids -> Setters \cup {None}] /\ known' \in [Dirs -> 0 .. MaxId]
    BY <1>2, <1>3, <2>2
  <2> QED BY <1>1, <1>2, <2>1, <2>2, <2>3 DEF IInv, TypeOK, leaseVars, viewVars
<1>10. Leased' /\ Viewed'
  BY <1>2, LeasesSame DEF IInv
<1>11. Rooted'
  <2> SUFFICES ASSUME NEW t \in Setters
               PROVE  /\ rootOf'[t] # "broken"
                      /\ (rootOf'[t] = "open") <=>
                           (setting'[t] = "opened" \/ \E id \in Ids : root'[id] = t)
                      /\ setting'[t] = "idle" => rootOf'[t] = "none"
    BY DEF Rooted
  <2>1. CASE t = s
    <3>1. \A i \in Ids : root[i] # s
      BY <1>1, CwdConstants DEF IInv, Named, Ids
    <3>2. rootOf'[s] = "open"
      BY <1>1, <1>7, <1>8, <3>1 DEF IInv, Rooted, Live
    <3> QED BY <1>1, <1>3, <2>1, <3>2
  <2>2. CASE t # s /\ \E id \in Expired : root[id] = t
    <3>1. PICK id \in Ids : id \in Expired /\ root[id] = t
      BY <1>7, <2>2 DEF Live
    <3>2. told[t] = id /\ id # 0 /\ setting[t] = "told"
      BY <3>1, CwdConstants DEF IInv, Named, Ids
    <3>3. \A i \in Ids : root'[i] # t
      BY <1>3, <1>4, <2>2, <3>1, <3>2, CwdConstants
    <3> QED BY <1>3, <1>8, <2>2, <3>2, <3>3
  <2>3. CASE t # s /\ ~ \E id \in Expired : root[id] = t
    <3>1. \A i \in Ids : root'[i] = t <=> root[i] = t
      BY <1>3, <1>4, <1>5, <1>6, <2>3, CwdConstants
    <3> QED BY <1>3, <1>8, <2>3, <3>1 DEF IInv, Rooted
  <2> QED BY <2>1, <2>2, <2>3
<1>12. Named'
  <2>1. \A i \in Ids : root'[i] # None =>
          i < next' /\ told'[root'[i]] = i /\ known'[asked'[root'[i]]] = i
    <3> SUFFICES ASSUME NEW i \in Ids, root'[i] # None
                 PROVE  i < next' /\ told'[root'[i]] = i /\ known'[asked'[root'[i]]] = i
      OBVIOUS
    <3>1. CASE i = next
      BY <1>1, <1>2, <1>3, <3>1 DEF d0
    <3>2. CASE i # next
      <4>1. root'[i] = root[i] /\ RootSwept[i] # None
        BY <1>3, <1>4, <3>2
      <4>2. asked[root[i]] \in Dirs
        BY <1>4, <4>1 DEF IInv, TypeOK
      <4> QED BY <1>1, <1>2, <1>3, <1>4, <4>1, <4>2 DEF Ids
    <3> QED BY <3>1, <3>2
  <2>2. \A d \in Dirs : known'[d] # 0 => root'[known'[d]] # None /\ asked'[root'[known'[d]]] = d
    <3> SUFFICES ASSUME NEW d \in Dirs, known'[d] # 0
                 PROVE  root'[known'[d]] # None /\ asked'[root'[known'[d]]] = d
      OBVIOUS
    <3>1. CASE d = d0
      BY <1>1, <1>2, <1>3, <3>1, CwdConstants DEF d0
    <3>2. CASE d # d0
      <4>1. known'[d] = KnownSwept[d] /\ KnownSwept[d] \in Ids
            /\ RootSwept[KnownSwept[d]] # None /\ asked[RootSwept[KnownSwept[d]]] = d
        BY <1>3, <3>2, Swept DEF IInv
      <4> QED BY <1>2, <1>3, <1>6, <4>1
    <3> QED BY <3>1, <3>2
  <2>3. \A t \in Setters : told'[t] < next' /\ (setting'[t] # "told" => told'[t] = 0)
    BY <1>1, <1>2, <1>3 DEF IInv, Named, TypeOK
  <2>4. \A t, r \in Setters : told'[t] # 0 /\ told'[t] = told'[r] => asked'[t] = asked'[r]
    BY <1>1, <1>2, <1>3 DEF IInv, Named, TypeOK
  <2>5. \A u \in Users : source'[u] # None => told'[source'[u]] = wanted'[u] /\ wanted'[u] # 0
    BY <1>1, <1>2, <1>3 DEF IInv, Named, TypeOK, leaseVars
  <2>6. Cardinality(Live') <= MaxEntries
    <3>1. Live' = after \cup {next}
      <4>1. \A i \in Ids : root'[i] # None <=> i = next \/ (root[i] # None /\ i \notin Expired)
        BY <1>3, <1>4, <1>5, CwdConstants
      <4>2. \A i : i \in Live' <=> i \in Ids /\ root'[i] # None
        BY DEF Live
      <4>3. \A i : i \in after <=> i \in Ids /\ root[i] # None /\ i \notin Expired
        BY DEF after, Live
      <4> QED BY <1>1, <4>1, <4>2, <4>3
    <3>2. IsFiniteSet(after) /\ Cardinality(after) \in Nat
      BY FewerLive DEF IInv, Named, after
    <3>3. Cardinality(Live') <= Cardinality(after) + 1
      BY <3>1, <3>2, FS_AddElement
    <3>4. Cardinality(Live') \in Nat
      BY <3>1, <3>2, FS_AddElement, FS_CardinalityType
    <3> QED BY <1>1, <3>2, <3>3, <3>4
  <2> QED BY <2>1, <2>2, <2>3, <2>4, <2>5, <2>6 DEF Named
<1> QED BY <1>9, <1>10, <1>11, <1>12 DEF IInv

(* The registry's part of a lookup.                                        *)
LEMMA SweepStep ==
  ASSUME IInv, Sweep, UNCHANGED <<asked, next, setting, told>>,
         \A u \in Users : source'[u] # None => told[source'[u]] = wanted'[u] /\ wanted'[u] # 0
  PROVE  /\ Named' /\ Rooted'
         /\ root' \in [Ids -> Setters \cup {None}] /\ known' \in [Dirs -> 0 .. MaxId]
         /\ rootOf' \in [Setters -> {"none", "open", "closed", "broken"}]
<1>1. CASE closed
  <2>1. UNCHANGED <<root, known, rootOf>>
    BY <1>1 DEF Sweep
  <2> QED BY <2>1 DEF IInv, TypeOK, Named, Rooted, Live
<1>2. CASE ~ closed
  <2>1. root' = RootSwept /\ known' = KnownSwept /\ rootOf' = Closing(Expired, {})
    BY <1>2 DEF Sweep
  <2>2. {} \in SUBSET Setters /\ Expired \in SUBSET Live /\ \A s \in {} : setting[s] = "opened"
    BY DEF Expired
  <2>3. Named'
    BY <2>1, SweepKeepsNames DEF IInv
  <2>4. Rooted'
    <3>1. \A s \in {} : setting[s] = "opened" /\ setting'[s] \in {"told", "failed"}
      OBVIOUS
    <3> QED BY <2>1, <2>2, <3>1, SweepKeepsRoots DEF IInv
  <2>5. rootOf' \in [Setters -> {"none", "open", "closed", "broken"}]
    BY <2>1, <2>2, ClosedOnce DEF IInv
  <2>6. root' \in [Ids -> Setters \cup {None}] /\ known' \in [Dirs -> 0 .. MaxId]
    BY <2>1, Swept DEF IInv
  <2> QED BY <2>3, <2>4, <2>5, <2>6
<1> QED BY <1>1, <1>2 DEF IInv, TypeOK

LEMMA LookupRefusedStep ==
  ASSUME IInv, NEW u \in Users, NEW id \in Ids, LookupRefused(u, id)
  PROVE  IInv'
<1>1. /\ using[u] = "idle" /\ Sweep
      /\ using' = [using EXCEPT ![u] = "refused"] /\ wanted' = [wanted EXCEPT ![u] = id]
      /\ UNCHANGED <<asked, now, next, closed, expires, setting, told, source, leaseOf, borrows, viewVars>>
  BY DEF LookupRefused
<1>2. \A w \in Users : source'[w] # None => told[source'[w]] = wanted'[w] /\ wanted'[w] # 0
  BY <1>1 DEF IInv, Named, Leased, TypeOK
<1>3. Named' /\ Rooted' /\ TypeOK'
  BY <1>1, <1>2, SweepStep, CwdConstants DEF IInv, TypeOK, viewVars, Ids
<1>4. Leased' /\ Viewed'
  BY <1>1 DEF IInv, Leased, Viewed, TypeOK, viewVars
<1> QED BY <1>3, <1>4 DEF IInv

LEMMA LookupLeasedStep ==
  ASSUME IInv, NEW u \in Users, NEW id \in Ids, LookupLeased(u, id)
  PROVE  IInv'
<1>1. /\ using[u] = "idle" /\ Sweep /\ root[id] # None
      /\ using' = [using EXCEPT ![u] = "held"] /\ wanted' = [wanted EXCEPT ![u] = id]
      /\ source' = [source EXCEPT ![u] = root[id]] /\ leaseOf' = [leaseOf EXCEPT ![u] = "open"]
      /\ UNCHANGED <<asked, now, next, closed, expires, setting, told, borrows, viewVars>>
  BY DEF LookupLeased, Live
<1>2. told[root[id]] = id /\ id # 0 /\ id \in 0 .. MaxId /\ root[id] \in Setters
  BY <1>1, CwdConstants DEF IInv, Named, TypeOK, Ids
<1>3. \A w \in Users : source'[w] # None => told[source'[w]] = wanted'[w] /\ wanted'[w] # 0
  BY <1>1, <1>2 DEF IInv, Named, TypeOK
<1>4. Named' /\ Rooted' /\ TypeOK'
  BY <1>1, <1>2, <1>3, SweepStep DEF IInv, TypeOK, viewVars
<1>5. Leased' /\ Viewed'
  BY <1>1 DEF IInv, Leased, Viewed, TypeOK, viewVars
<1> QED BY <1>4, <1>5 DEF IInv

LEMMA CloseRegistryStep ==
  ASSUME IInv, CloseRegistry
  PROVE  IInv'
<1>1. /\ closed' = TRUE /\ rootOf' = Closing(Live, {})
      /\ root' = [id \in Ids |-> None] /\ known' = [d \in Dirs |-> 0]
      /\ UNCHANGED <<asked, now, next, expires, setting, told, leaseVars, viewVars>>
  BY DEF CloseRegistry
<1>2. {} \in SUBSET Setters /\ Live \in SUBSET Live /\ \A s \in {} : setting[s] = "opened"
  OBVIOUS
<1>3. /\ rootOf' \in [Setters -> {"none", "open", "closed", "broken"}]
      /\ \A s \in Setters : rootOf'[s] =
           IF s \in {} \/ \E id \in Live : root[id] = s THEN "closed" ELSE rootOf[s]
  BY <1>1, <1>2, ClosedOnce DEF IInv
<1>4. TypeOK'
  BY <1>1, <1>3, CwdConstants DEF IInv, TypeOK, leaseVars, viewVars
<1>5. Leased' /\ Viewed'
  BY <1>1, LeasesSame DEF IInv
<1>6. Named'
  <2>1. Live' = {}
    BY <1>1 DEF Live
  <2>2. Cardinality(Live') <= MaxEntries
    BY <2>1, FS_EmptySet, CwdConstants
  <2> QED BY <1>1, <2>2 DEF IInv, Named, leaseVars
<1>7. Rooted'
  <2> SUFFICES ASSUME NEW s \in Setters
               PROVE  /\ rootOf'[s] # "broken"
                      /\ (rootOf'[s] = "open") <=>
                           (setting'[s] = "opened" \/ \E id \in Ids : root'[id] = s)
                      /\ setting'[s] = "idle" => rootOf'[s] = "none"
    BY DEF Rooted
  <2>1. ~ \E id \in Ids : root'[id] = s
    BY <1>1, CwdConstants
  <2>2. CASE \E id \in Live : root[id] = s
    <3>1. PICK id \in Ids : root[id] = s
      BY <2>2 DEF Live
    <3>2. setting[s] = "told"
      BY <3>1, CwdConstants DEF IInv, Named, Ids
    <3> QED BY <1>1, <1>3, <2>1, <2>2, <3>2
  <2>3. CASE ~ \E id \in Live : root[id] = s
    <3>1. ~ \E id \in Ids : root[id] = s
      BY <2>3, CwdConstants DEF Live
    <3> QED BY <1>1, <1>3, <2>1, <2>3, <3>1 DEF IInv, Rooted
  <2> QED BY <2>2, <2>3
<1> QED BY <1>4, <1>5, <1>6, <1>7 DEF IInv

LEMMA TimePassesStep ==
  ASSUME IInv, TimePasses
  PROVE  IInv'
<1>1. TypeOK'
  BY DEF IInv, TypeOK, TimePasses, registryVars, setVars, leaseVars, viewVars
<1> QED BY <1>1, LeasesSame, RegistrySame DEF IInv, TimePasses, leaseVars

LEMMA CloseLeaseStep ==
  ASSUME IInv, NEW u \in Users, CloseLease(u)
  PROVE  IInv'
<1>1. /\ using[u] = "held" /\ UNCHANGED <<asked, now, source, wanted, borrows>>
      /\ UNCHANGED <<registryVars, setVars, viewVars>>
  BY DEF CloseLease
<1>2. Named' /\ Rooted'
  BY <1>1, RegistrySame DEF IInv
<1>3. CASE borrows[u] # {} /\ using' = [using EXCEPT ![u] = "closing"] /\ UNCHANGED leaseOf
  <2>1. TypeOK'
    BY <1>1, <1>3 DEF IInv, TypeOK, registryVars, setVars, viewVars
  <2>2. Leased' /\ Viewed'
    BY <1>1, <1>3 DEF IInv, TypeOK, Leased, Viewed, viewVars
  <2> QED BY <1>2, <2>1, <2>2 DEF IInv
<1>4. CASE /\ borrows[u] = {} /\ using' = [using EXCEPT ![u] = "closed"]
           /\ leaseOf' = [leaseOf EXCEPT ![u] = Shut(@)]
  <2>1. leaseOf' = [leaseOf EXCEPT ![u] = "closed"]
    BY <1>1, <1>4 DEF IInv, Leased, TypeOK, Shut
  <2>2. TypeOK'
    BY <1>1, <1>4, <2>1 DEF IInv, TypeOK, registryVars, setVars, viewVars
  <2>3. Leased' /\ Viewed'
    BY <1>1, <1>4, <2>1 DEF IInv, TypeOK, Leased, Viewed, viewVars
  <2> QED BY <1>2, <2>2, <2>3 DEF IInv
<1> QED BY <1>3, <1>4 DEF CloseLease

LEMMA BeginBorrowStep ==
  ASSUME IInv, NEW b \in Borrowers, NEW u \in Users, BeginBorrow(b, u)
  PROVE  IInv'
<1>1. /\ view[b] = "idle" /\ of' = [of EXCEPT ![b] = u]
      /\ UNCHANGED <<asked, now, using, source, wanted, leaseOf, begun, opened, denied>>
      /\ UNCHANGED <<registryVars, setVars>>
  BY DEF BeginBorrow
<1>2. Named' /\ Rooted'
  BY <1>1, RegistrySame DEF IInv
<1>3. ~ (begun[b] + opened[b] > 0) /\ \A w \in Users : b \notin borrows[w]
  BY <1>1 DEF IInv, Viewed
<1>4. CASE /\ using[u] = "held" /\ view' = [view EXCEPT ![b] = "inside"]
           /\ borrows' = [borrows EXCEPT ![u] = @ \cup {b}]
  <2>1. TypeOK'
    BY <1>1, <1>4 DEF IInv, TypeOK, registryVars, setVars
  <2>2. Leased'
    BY <1>1, <1>4 DEF IInv, TypeOK, Leased
  <2>3. Viewed'
    BY <1>1, <1>3, <1>4 DEF IInv, TypeOK, Viewed
  <2> QED BY <1>2, <2>1, <2>2, <2>3 DEF IInv
<1>5. CASE view' = [view EXCEPT ![b] = "refused"] /\ UNCHANGED borrows
  <2>1. TypeOK'
    BY <1>1, <1>5 DEF IInv, TypeOK, registryVars, setVars
  <2>2. Leased' /\ Viewed'
    BY <1>1, <1>3, <1>5 DEF IInv, TypeOK, Leased, Viewed
  <2> QED BY <1>2, <2>1, <2>2 DEF IInv
<1> QED BY <1>4, <1>5 DEF BeginBorrow

LEMMA BeginOperationStep ==
  ASSUME IInv, NEW b \in Borrowers, BeginOperation(b)
  PROVE  IInv'
<1>1. /\ view[b] = "inside" /\ begun' = [begun EXCEPT ![b] = @ + 1]
      /\ UNCHANGED <<asked, now, registryVars, setVars, leaseVars, view, of, opened, denied>>
  BY DEF BeginOperation
<1>2. Named' /\ Rooted'
  BY <1>1, RegistrySame DEF IInv, leaseVars
<1>3. TypeOK'
  BY <1>1 DEF IInv, TypeOK, registryVars, setVars, leaseVars
<1>4. Leased' /\ Viewed'
  BY <1>1 DEF IInv, TypeOK, Leased, Viewed, leaseVars
<1> QED BY <1>2, <1>3, <1>4 DEF IInv

LEMMA OpenStep ==
  ASSUME IInv, NEW b \in Borrowers, Open(b)
  PROVE  IInv'
<1>1. /\ begun[b] > 0 /\ begun' = [begun EXCEPT ![b] = @ - 1]
      /\ opened' = [opened EXCEPT ![b] = @ + 1]
      /\ denied' = (denied \/ using[of[b]] = "closed" \/ b \notin borrows[of[b]]
                           \/ leaseOf[of[b]] # "open")
      /\ UNCHANGED <<asked, now, registryVars, setVars, leaseVars, view, of>>
  BY DEF Open
<1>2. Named' /\ Rooted'
  BY <1>1, RegistrySame DEF IInv, leaseVars
<1>3. begun[b] \in Nat /\ opened[b] \in Nat
  BY DEF IInv, TypeOK
<1>4. of[b] \in Users /\ b \in borrows[of[b]]
  BY <1>1, <1>3 DEF IInv, Viewed
<1>5. using[of[b]] \in {"held", "closing"} /\ leaseOf[of[b]] = "open"
  BY <1>4 DEF IInv, Leased
<1>6. denied' = FALSE
  BY <1>1, <1>4, <1>5 DEF IInv, Viewed
<1>7. TypeOK'
  BY <1>1, <1>3, <1>6 DEF IInv, TypeOK, registryVars, setVars, leaseVars
<1>8. Leased' /\ Viewed'
  BY <1>1, <1>3, <1>6 DEF IInv, TypeOK, Leased, Viewed, leaseVars
<1> QED BY <1>2, <1>7, <1>8 DEF IInv

LEMMA EndOperationStep ==
  ASSUME IInv, NEW b \in Borrowers, EndOperation(b)
  PROVE  IInv'
<1>1. /\ opened[b] > 0 /\ opened' = [opened EXCEPT ![b] = @ - 1]
      /\ UNCHANGED <<asked, now, registryVars, setVars, leaseVars, view, of, begun, denied>>
  BY DEF EndOperation
<1>2. Named' /\ Rooted'
  BY <1>1, RegistrySame DEF IInv, leaseVars
<1>3. TypeOK'
  BY <1>1 DEF IInv, TypeOK, registryVars, setVars, leaseVars
<1>4. Leased' /\ Viewed'
  BY <1>1 DEF IInv, TypeOK, Leased, Viewed, leaseVars
<1> QED BY <1>2, <1>3, <1>4 DEF IInv

LEMMA ReturnStep ==
  ASSUME IInv, NEW b \in Borrowers, Return(b)
  PROVE  IInv'
<1>1. /\ view[b] = "inside" /\ view' = [view EXCEPT ![b] = "returning"]
      /\ UNCHANGED <<asked, now, registryVars, setVars, leaseVars, of, begun, opened, denied>>
  BY DEF Return
<1>2. Named' /\ Rooted'
  BY <1>1, RegistrySame DEF IInv, leaseVars
<1>3. TypeOK'
  BY <1>1 DEF IInv, TypeOK, registryVars, setVars, leaseVars
<1>4. Leased' /\ Viewed'
  BY <1>1 DEF IInv, TypeOK, Leased, Viewed, leaseVars
<1> QED BY <1>2, <1>3, <1>4 DEF IInv

LEMMA EndBorrowStep ==
  ASSUME IInv, NEW b \in Borrowers, EndBorrow(b)
  PROVE  IInv'
<1> DEFINE u == of[b]
<1>1. /\ view[b] = "returning" /\ begun[b] + opened[b] = 0
      /\ view' = [view EXCEPT ![b] = "done"] /\ borrows' = [borrows EXCEPT ![u] = @ \ {b}]
      /\ UNCHANGED <<asked, now, source, wanted, registryVars, setVars, of, begun, opened, denied>>
  BY DEF EndBorrow
<1>2. Named' /\ Rooted'
  BY <1>1, RegistrySame DEF IInv
<1>3. u \in Users /\ b \in borrows[u] /\ using[u] \in {"held", "closing"} /\ leaseOf[u] = "open"
  BY <1>1 DEF IInv, Viewed, Leased
<1>4. Viewed'
  <2>1. \A c \in Borrowers \ {b} : \A w \in Users : c \in borrows'[w] <=> c \in borrows[w]
    BY <1>1, <1>3 DEF IInv, TypeOK
  <2>2. \A w \in Users : b \notin borrows'[w]
    BY <1>1, <1>3 DEF IInv, TypeOK, Viewed
  <2> QED BY <1>1, <2>1, <2>2 DEF IInv, TypeOK, Viewed
<1>5. CASE using[u] = "closing" /\ borrows[u] = {b}
  <2>1. using' = [using EXCEPT ![u] = "closed"] /\ leaseOf' = [leaseOf EXCEPT ![u] = "closed"]
    BY <1>3, <1>5 DEF EndBorrow, Shut
  <2>2. TypeOK'
    BY <1>1, <2>1 DEF IInv, TypeOK, registryVars, setVars
  <2>3. Leased'
    BY <1>1, <1>3, <1>5, <2>1 DEF IInv, TypeOK, Leased
  <2> QED BY <1>2, <1>4, <2>2, <2>3 DEF IInv
<1>6. CASE ~ (using[u] = "closing" /\ borrows[u] = {b})
  <2>1. UNCHANGED <<using, leaseOf>>
    BY <1>6 DEF EndBorrow
  <2>2. TypeOK'
    BY <1>1, <2>1 DEF IInv, TypeOK, registryVars, setVars
  <2>3. Leased'
    BY <1>1, <1>3, <1>6, <2>1 DEF IInv, TypeOK, Leased
  <2> QED BY <1>2, <1>4, <2>2, <2>3 DEF IInv
<1> QED BY <1>5, <1>6

----------------------------------------------------------------------------
LEMMA NextIInv ==
  ASSUME IInv, [Next]_cwdVars
  PROVE  IInv'
<1>1. CASE UNCHANGED cwdVars
  <2>1. UNCHANGED <<asked, now, registryVars, setVars, leaseVars, viewVars>>
    BY <1>1 DEF cwdVars, registryVars, setVars, leaseVars, viewVars
  <2>2. TypeOK'
    BY <2>1 DEF IInv, TypeOK, registryVars, setVars, leaseVars, viewVars
  <2> QED BY <2>1, <2>2, LeasesSame, RegistrySame DEF IInv, leaseVars
<1>2. CASE \E s \in Setters : \/ OpenRoot(s) \/ RegisterClosed(s) \/ RegisterKnown(s)
                              \/ RegisterFull(s) \/ RegisterNew(s)
  BY <1>2, OpenRootStep, RegisterClosedStep, RegisterKnownStep, RegisterFullStep, RegisterNewStep
<1>3. CASE \E u \in Users : \E id \in Ids : LookupRefused(u, id) \/ LookupLeased(u, id)
  BY <1>3, LookupRefusedStep, LookupLeasedStep
<1>4. CASE \E u \in Users : CloseLease(u)
  BY <1>4, CloseLeaseStep
<1>5. CASE \E b \in Borrowers : \E u \in Users : BeginBorrow(b, u)
  BY <1>5, BeginBorrowStep
<1>6. CASE \E b \in Borrowers : BeginOperation(b) \/ Open(b) \/ EndOperation(b) \/ Return(b) \/ EndBorrow(b)
  BY <1>6, BeginOperationStep, OpenStep, EndOperationStep, ReturnStep, EndBorrowStep
<1>7. CASE CloseRegistry
  BY <1>7, CloseRegistryStep
<1>8. CASE TimePasses
  BY <1>8, TimePassesStep
<1> QED BY <1>1, <1>2, <1>3, <1>4, <1>5, <1>6, <1>7, <1>8 DEF Next

(* The registry, the leases and the borrows agree in every state that a    *)
(* sequence of Register, Lookup, Close and borrows can reach.              *)
THEOREM Invariance == Spec => []IInv
<1>1. IInv /\ [Next]_cwdVars => IInv'
  BY NextIInv
<1> QED BY InitIInv, <1>1, PTL DEF Spec

(* The state of the registry and of the leases keeps its shape.            *)
THEOREM TypeCorrect == Spec => []TypeOK
<1>1. IInv => TypeOK
  BY DEF IInv
<1> QED BY <1>1, Invariance, PTL

(* A platform handle is open exactly while its call, the registry, the     *)
(* lease or a borrow answers for it, and none is closed twice              *)
(* (Root.Close, Lease.Close, endBorrow).                                   *)
THEOREM HandlesAreExact == Spec => []HandlesExact
<1>1. IInv => HandlesExact
  BY DEF IInv, Rooted, Leased, HandlesExact
<1> QED BY <1>1, Invariance, PTL

(* An operation that passed the view of its borrow finds the handle open,  *)
(* and none is at work once the borrow is over (operationAllowed,          *)
(* invalidate).                                                            *)
THEOREM BorrowsAreEnclosed == Spec => []BorrowsEnclose
<1>1. IInv => BorrowsEnclose
  BY DEF IInv, Leased, Viewed, BorrowsEnclose
<1> QED BY <1>1, Invariance, PTL

(* An id stands for one directory, whatever expired meanwhile: the leases  *)
(* looked up by it are of that directory, and the two tables of the        *)
(* registry agree (Register, Lookup, sweepExpiredLocked).                  *)
THEOREM IdsAreStable == Spec => []IdsStable
<1>1. IInv => IdsStable
  <2> SUFFICES ASSUME IInv PROVE IdsStable
    OBVIOUS
  <2>1. \A u \in Users : \A s \in Setters :
          source[u] # None /\ told[s] # 0 /\ told[s] = wanted[u] => asked[source[u]] = asked[s]
    BY DEF IInv, Named, TypeOK
  <2>2. \A id \in Ids : \A s \in Setters : root[id] = s => known[asked[s]] = id
    BY CwdConstants DEF IInv, Named
  <2> QED BY <2>1, <2>2 DEF IInv, Named, IdsStable
<1> QED BY <1>1, Invariance, PTL
=============================================================================
