----------------------------- MODULE CwdRegistry -----------------------------
(***************************************************************************)
(* The registry of working directories (internal/cwd) and the handles of   *)
(* their roots (internal/rootfs).                                          *)
(*                                                                         *)
(* A set_cwd call opens a root and registers it; the registry owns it from *)
(* then on, until its time is over or the registry is closed.  A later     *)
(* call looks the id up and gets a lease: a duplicate of the root's handle *)
(* that lives on its own.  The owner of a lease - the call, or the cursor  *)
(* lineage it was given to - closes it when it likes; computations that    *)
(* continue the lineage borrow it, and what they borrowed must serve them  *)
(* until they return: a close waits for the last of them.                  *)
(*                                                                         *)
(* Each mutex of the code makes one operation atomic: the registry's, the  *)
(* lease's, and the one of the view that a borrow gives its callback.  The *)
(* callback may share its view with other goroutines, which open entries   *)
(* and may still be at it when the callback returns.                       *)
(***************************************************************************)
EXTENDS Integers, FiniteSets

CONSTANTS Setters,    \* set_cwd calls
          Users,      \* calls that look an id up
          Borrowers,  \* computations that borrow a lease
          Dirs,       \* directories
          None,       \* no call
          MaxEntries, \* registered at a time
          MaxId,      \* the last id
          TTL,        \* how long an entry lives
          MaxTime,    \* bound on the clock
          MaxOps      \* bound on the operations at work on one view

ASSUME CwdConstants ==
  /\ None \notin Setters /\ None \notin Users
  /\ MaxEntries \in Nat /\ MaxId \in Nat /\ TTL \in Nat /\ MaxTime \in Nat /\ MaxOps \in Nat

Ids == 1 .. MaxId

VARIABLES asked,   \* asked[s]: the directory call s selects
          now,
          next,    \* the next id
          closed,  \* the registry is closed
          root,    \* root[id]: the call whose root is registered, or None: byID
          expires, \* expires[id]
          known,   \* known[d]: the id of a directory, or 0: byIdentity
          setting, \* setting[s]: "idle", "opened", "told" an id, or "failed"
          told,    \* told[s]: the id, 0 before
          rootOf,  \* rootOf[s]: the platform handle of the root s opened
          using,   \* using[u]: "idle", "refused", or its lease: "held", "closing", "closed"
          source,  \* source[u]: the call whose root u's lease duplicates
          wanted,  \* wanted[u]: the id u looked up
          leaseOf, \* leaseOf[u]: the platform handle of u's lease
          borrows, \* borrows[u]: the borrows at work on it: activeGenerations
          view,    \* view[b]: "idle", "refused", "inside" its callback, "returning", "done"
          of,      \* of[b]: whose lease b borrows
          begun,   \* begun[b]: operations that have passed the view
          opened,  \* opened[b]: and those of them that have opened an entry
          denied   \* history: an operation that passed its view was refused

registryVars == <<next, closed, root, expires, known>>
setVars == <<setting, told, rootOf>>
leaseVars == <<using, source, wanted, leaseOf, borrows>>
viewVars == <<view, of, begun, opened, denied>>
cwdVars == <<asked, now, next, closed, root, expires, known, setting, told, rootOf,
             using, source, wanted, leaseOf, borrows, view, of, begun, opened, denied>>

\* Closing a platform handle that is not open breaks it.
Shut(handle) == IF handle = "open" THEN "closed" ELSE "broken"

Init ==
  /\ asked \in [Setters -> Dirs]
  /\ now = 0 /\ next = 1 /\ closed = FALSE
  /\ root = [id \in Ids |-> None]
  /\ expires = [id \in Ids |-> 0]
  /\ known = [d \in Dirs |-> 0]
  /\ setting = [s \in Setters |-> "idle"]
  /\ told = [s \in Setters |-> 0]
  /\ rootOf = [s \in Setters |-> "none"]
  /\ using = [u \in Users |-> "idle"]
  /\ source = [u \in Users |-> None]
  /\ wanted = [u \in Users |-> 0]
  /\ leaseOf = [u \in Users |-> "none"]
  /\ borrows = [u \in Users |-> {}]
  /\ view = [b \in Borrowers |-> "idle"]
  /\ of = [b \in Borrowers |-> None]
  /\ begun = [b \in Borrowers |-> 0]
  /\ opened = [b \in Borrowers |-> 0]
  /\ denied = FALSE

----------------------------------------------------------------------------
(* The registry.                                                           *)

Live == { id \in Ids : root[id] # None }

Expired == { id \in Live : now >= expires[id] }

\* What a sweep leaves of byID and of byIdentity.
RootSwept == [id \in Ids |-> IF id \in Expired THEN None ELSE root[id]]

\* Mutated form: the identity of an entry that expired stays known.
KnownSwept_Stays == known

KnownSwept == [d \in Dirs |-> IF known[d] \in Expired /\ asked[root[known[d]]] = d
                                THEN 0 ELSE known[d]]

\* The roots that go with the entries `gone`, and those of `own`, are closed.
Closing(gone, own) ==
  [s \in Setters |-> IF s \in own \/ \E id \in gone : root[id] = s
                       THEN Shut(rootOf[s]) ELSE rootOf[s]]

OpenRoot(s) ==
  /\ setting[s] = "idle"
  /\ \/ /\ setting' = [setting EXCEPT ![s] = "opened"]
        /\ rootOf' = [rootOf EXCEPT ![s] = "open"]
     \/ /\ setting' = [setting EXCEPT ![s] = "failed"]
        /\ UNCHANGED rootOf
  /\ UNCHANGED <<asked, now, told, registryVars, leaseVars, viewVars>>

\* The registry is closed: the root is not kept.
RegisterClosed(s) ==
  /\ setting[s] = "opened" /\ closed
  /\ setting' = [setting EXCEPT ![s] = "failed"]
  /\ rootOf' = Closing({}, {s})
  /\ UNCHANGED <<asked, now, told, registryVars, leaseVars, viewVars>>

\* Mutated form: the root of a directory that is known is forgotten.
RegisterKnown_Leaks(s) ==
  /\ setting[s] = "opened" /\ ~ closed
  /\ KnownSwept[asked[s]] # 0
  /\ setting' = [setting EXCEPT ![s] = "told"]
  /\ told' = [told EXCEPT ![s] = KnownSwept[asked[s]]]
  /\ root' = RootSwept /\ known' = KnownSwept
  /\ rootOf' = Closing(Expired, {})
  /\ UNCHANGED <<asked, now, next, closed, expires, leaseVars, viewVars>>

\* The directory is registered: its id is told again, its time goes on.
RegisterKnown(s) ==
  /\ setting[s] = "opened" /\ ~ closed
  /\ KnownSwept[asked[s]] # 0
  /\ setting' = [setting EXCEPT ![s] = "told"]
  /\ told' = [told EXCEPT ![s] = KnownSwept[asked[s]]]
  /\ root' = RootSwept /\ known' = KnownSwept
  /\ rootOf' = Closing(Expired, {s})
  /\ UNCHANGED <<asked, now, next, closed, expires, leaseVars, viewVars>>

Full == Cardinality(Live \ Expired) >= MaxEntries \/ next > MaxId

RegisterFull(s) ==
  /\ setting[s] = "opened" /\ ~ closed
  /\ KnownSwept[asked[s]] = 0 /\ Full
  /\ setting' = [setting EXCEPT ![s] = "failed"]
  /\ root' = RootSwept /\ known' = KnownSwept
  /\ rootOf' = Closing(Expired, {s})
  /\ UNCHANGED <<asked, now, told, next, closed, expires, leaseVars, viewVars>>

RegisterNew(s) ==
  /\ setting[s] = "opened" /\ ~ closed
  /\ KnownSwept[asked[s]] = 0 /\ ~ Full
  /\ setting' = [setting EXCEPT ![s] = "told"]
  /\ told' = [told EXCEPT ![s] = next]
  /\ next' = next + 1
  /\ root' = [RootSwept EXCEPT ![next] = s]
  /\ expires' = [expires EXCEPT ![next] = now + TTL]
  /\ known' = [KnownSwept EXCEPT ![asked[s]] = next]
  /\ rootOf' = Closing(Expired, {})
  /\ UNCHANGED <<asked, now, closed, leaseVars, viewVars>>

Sweep ==
  IF closed THEN UNCHANGED <<root, known, rootOf>>
  ELSE root' = RootSwept /\ known' = KnownSwept /\ rootOf' = Closing(Expired, {})

\* The id is not known, or the system gives no second handle.
LookupRefused(u, id) ==
  /\ using[u] = "idle"
  /\ Sweep
  /\ using' = [using EXCEPT ![u] = "refused"]
  /\ wanted' = [wanted EXCEPT ![u] = id]
  /\ UNCHANGED <<asked, now, next, closed, expires, setting, told, source, leaseOf, borrows,
                 viewVars>>

\* The lease duplicates the root while the registry is locked.
LookupLeased(u, id) ==
  /\ using[u] = "idle" /\ ~ closed
  /\ id \in Live \ Expired
  /\ rootOf[root[id]] = "open"
  /\ Sweep
  /\ using' = [using EXCEPT ![u] = "held"]
  /\ wanted' = [wanted EXCEPT ![u] = id]
  /\ source' = [source EXCEPT ![u] = root[id]]
  /\ leaseOf' = [leaseOf EXCEPT ![u] = "open"]
  /\ UNCHANGED <<asked, now, next, closed, expires, setting, told, borrows, viewVars>>

\* The process ends: every root goes, the leases stay with their owners.
CloseRegistry ==
  /\ ~ closed
  /\ closed' = TRUE
  /\ rootOf' = Closing(Live, {})
  /\ root' = [id \in Ids |-> None]
  /\ known' = [d \in Dirs |-> 0]
  /\ UNCHANGED <<asked, now, next, expires, setting, told, leaseVars, viewVars>>

TimePasses ==
  /\ now < MaxTime
  /\ now' = now + 1
  /\ UNCHANGED <<asked, registryVars, setVars, leaseVars, viewVars>>

----------------------------------------------------------------------------
(* A lease, its owner and its borrows.                                     *)

\* Mutated form: the handle goes at once, whoever borrows it.
CloseLease_Now(u) ==
  /\ using[u] = "held"
  /\ using' = [using EXCEPT ![u] = "closed"]
  /\ leaseOf' = [leaseOf EXCEPT ![u] = Shut(@)]
  /\ UNCHANGED <<asked, now, source, wanted, borrows, registryVars, setVars, viewVars>>

\* The owner asks once; the last borrow closes the handle if there is one.
CloseLease(u) ==
  /\ using[u] = "held"
  /\ \/ /\ borrows[u] # {}
        /\ using' = [using EXCEPT ![u] = "closing"]
        /\ UNCHANGED leaseOf
     \/ /\ borrows[u] = {}
        /\ using' = [using EXCEPT ![u] = "closed"]
        /\ leaseOf' = [leaseOf EXCEPT ![u] = Shut(@)]
  /\ UNCHANGED <<asked, now, source, wanted, borrows, registryVars, setVars, viewVars>>

BeginBorrow(b, u) ==
  /\ view[b] = "idle" /\ using[u] \in {"held", "closing", "closed"}
  /\ \/ /\ using[u] = "held"
        /\ view' = [view EXCEPT ![b] = "inside"]
        /\ borrows' = [borrows EXCEPT ![u] = @ \cup {b}]
     \/ /\ using[u] # "held"
        /\ view' = [view EXCEPT ![b] = "refused"]
        /\ UNCHANGED borrows
  /\ of' = [of EXCEPT ![b] = u]
  /\ UNCHANGED <<asked, now, using, source, wanted, leaseOf, begun, opened, denied,
                 registryVars, setVars>>

\* An operation passes the view while the callback has not returned; the entry
\* is opened later, under the lease's own lock.
BeginOperation(b) ==
  /\ view[b] = "inside"
  /\ begun[b] + opened[b] < MaxOps
  /\ begun' = [begun EXCEPT ![b] = @ + 1]
  /\ UNCHANGED <<asked, now, registryVars, setVars, leaseVars, view, of, opened, denied>>

\* The lease serves the borrow that is at work, even when its close is asked
\* for; the handle it opens from is the platform's.
Open(b) ==
  /\ begun[b] > 0
  /\ begun' = [begun EXCEPT ![b] = @ - 1]
  /\ opened' = [opened EXCEPT ![b] = @ + 1]
  /\ denied' = (denied \/ using[of[b]] = "closed" \/ b \notin borrows[of[b]]
                       \/ leaseOf[of[b]] # "open")
  /\ UNCHANGED <<asked, now, registryVars, setVars, leaseVars, view, of>>

EndOperation(b) ==
  /\ opened[b] > 0
  /\ opened' = [opened EXCEPT ![b] = @ - 1]
  /\ UNCHANGED <<asked, now, registryVars, setVars, leaseVars, view, of, begun, denied>>

\* The callback returns, or panics: its view lets no operation pass any more.
Return(b) ==
  /\ view[b] = "inside"
  /\ view' = [view EXCEPT ![b] = "returning"]
  /\ UNCHANGED <<asked, now, registryVars, setVars, leaseVars, of, begun, opened, denied>>

\* Mutated form: a close that was asked for meanwhile is forgotten.
EndBorrow_Forgets(b) ==
  /\ view[b] = "returning"
  /\ begun[b] + opened[b] = 0
  /\ view' = [view EXCEPT ![b] = "done"]
  /\ borrows' = [borrows EXCEPT ![of[b]] = @ \ {b}]
  /\ UNCHANGED <<asked, now, using, leaseOf, source, wanted, registryVars, setVars, of, begun,
                 opened, denied>>

\* Once the operations are over the borrow ends, and with the last one a lease
\* whose close was asked for.
EndBorrow(b) ==
  LET u == of[b]
      last == using[u] = "closing" /\ borrows[u] = {b}
  IN  /\ view[b] = "returning"
      /\ begun[b] + opened[b] = 0
      /\ view' = [view EXCEPT ![b] = "done"]
      /\ borrows' = [borrows EXCEPT ![u] = @ \ {b}]
      /\ using' = IF last THEN [using EXCEPT ![u] = "closed"] ELSE using
      /\ leaseOf' = IF last THEN [leaseOf EXCEPT ![u] = Shut(@)] ELSE leaseOf
      /\ UNCHANGED <<asked, now, source, wanted, registryVars, setVars, of, begun, opened, denied>>

Next ==
  \/ \E s \in Setters : \/ OpenRoot(s) \/ RegisterClosed(s) \/ RegisterKnown(s)
                        \/ RegisterFull(s) \/ RegisterNew(s)
  \/ \E u \in Users : \E id \in Ids : LookupRefused(u, id) \/ LookupLeased(u, id)
  \/ \E u \in Users : CloseLease(u)
  \/ \E b \in Borrowers : \E u \in Users : BeginBorrow(b, u)
  \/ \E b \in Borrowers : BeginOperation(b) \/ Open(b) \/ EndOperation(b) \/ Return(b) \/ EndBorrow(b)
  \/ CloseRegistry
  \/ TimePasses

Spec == Init /\ [][Next]_cwdVars

\* A callback returns and an open answers: computations have deadlines, and the
\* opens never block. Nobody need call or close anything.
Fairness ==
  \A b \in Borrowers : /\ WF_cwdVars(Open(b)) /\ WF_cwdVars(EndOperation(b))
                       /\ WF_cwdVars(Return(b)) /\ WF_cwdVars(EndBorrow(b))

FairSpec == Spec /\ Fairness

----------------------------------------------------------------------------
TypeOK ==
  /\ asked \in [Setters -> Dirs]
  /\ now \in Nat /\ next \in 1 .. MaxId + 1 /\ closed \in BOOLEAN
  /\ root \in [Ids -> Setters \cup {None}]
  /\ expires \in [Ids -> Nat]
  /\ known \in [Dirs -> 0 .. MaxId]
  /\ setting \in [Setters -> {"idle", "opened", "told", "failed"}]
  /\ told \in [Setters -> 0 .. MaxId]
  /\ rootOf \in [Setters -> {"none", "open", "closed", "broken"}]
  /\ using \in [Users -> {"idle", "refused", "held", "closing", "closed"}]
  /\ source \in [Users -> Setters \cup {None}]
  /\ wanted \in [Users -> 0 .. MaxId]
  /\ leaseOf \in [Users -> {"none", "open", "closed", "broken"}]
  /\ borrows \in [Users -> SUBSET Borrowers]
  /\ view \in [Borrowers -> {"idle", "refused", "inside", "returning", "done"}]
  /\ of \in [Borrowers -> Users \cup {None}]
  /\ begun \in [Borrowers -> Nat] /\ opened \in [Borrowers -> Nat]
  /\ denied \in BOOLEAN

\* Every platform handle is open exactly as long as someone answers for it: a
\* root while its call or the registry has it, a lease until its close was asked
\* for and the last borrow is back. None is closed twice: the number could be
\* another file's by then (Root.Close, Lease.Close, endBorrow, Register).
HandlesExact ==
  /\ \A s \in Setters :
       /\ rootOf[s] # "broken"
       /\ (rootOf[s] = "open") <=> (setting[s] = "opened" \/ \E id \in Ids : root[id] = s)
  /\ \A u \in Users :
       /\ leaseOf[u] # "broken"
       /\ (leaseOf[u] = "open") <=>
            (using[u] = "held" \/ (using[u] = "closing" /\ borrows[u] # {}))

\* A borrow is not cut off from its root: an operation its view let pass finds
\* the handle open, whatever the owner asked for meanwhile, and no operation is
\* at work once the borrow is over (operationAllowed, invalidate).
BorrowsEnclose ==
  /\ ~ denied
  /\ \A b \in Borrowers :
       begun[b] + opened[b] > 0 =>
         view[b] \in {"inside", "returning"} /\ leaseOf[of[b]] = "open"

\* An id means one directory for ever: a lease that was looked up by an id is of
\* the directory each call was told that id for, and the two tables of the
\* registry agree (Register, Lookup, sweepExpiredLocked).
IdsStable ==
  /\ \A u \in Users : \A s \in Setters :
       source[u] # None /\ told[s] # 0 /\ told[s] = wanted[u] => asked[source[u]] = asked[s]
  /\ \A id \in Ids : \A s \in Setters : root[id] = s => known[asked[s]] = id
  /\ \A d \in Dirs : known[d] # 0 => root[known[d]] # None
  /\ Cardinality(Live) <= MaxEntries

\* A lease whose close was asked for is closed in the end: the borrows return
\* and the last one closes it.
LeasesReleased == \A u \in Users : (using[u] = "closing") ~> (leaseOf[u] = "closed")
=============================================================================
