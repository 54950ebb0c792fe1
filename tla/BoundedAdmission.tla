--------------------------- MODULE BoundedAdmission ---------------------------
(***************************************************************************)
(* What the admission coordinator of internal/runtime promises to one      *)
(* connection, without its locks, timers, channels and leases: at most     *)
(* MaxConcurrent requests hold a work slot, at most QueueMax wait for one  *)
(* in arrival order, a slot that becomes free goes to the oldest waiting   *)
(* request in the same step, and a request is refused only when every slot *)
(* and every place in the line is taken.                                   *)
(***************************************************************************)
EXTENDS Naturals, FiniteSets, SequencesExt

CONSTANTS
  Requests,       \* the request identifiers of one connection
  MaxConcurrent,  \* Limits.MaxConcurrent
  QueueMax        \* Limits.QueueMax

VARIABLES
  fate,  \* what became of each request
  line   \* the requests that wait for a slot, oldest first

avars == <<fate, line>>

Fates == {"absent", "waiting", "charged", "gone"}

Charged == {r \in Requests : fate[r] = "charged"}
SlotFree == Cardinality(Charged) < MaxConcurrent

AInit ==
  /\ fate = [r \in Requests |-> "absent"]
  /\ line = <<>>

(* The request gets a slot at once.                                        *)
Accept(r) ==
  /\ fate[r] = "absent"
  /\ SlotFree /\ line = <<>>
  /\ fate' = [fate EXCEPT ![r] = "charged"]
  /\ UNCHANGED line

(* Every slot is taken: the request joins the end of the line.             *)
Enqueue(r) ==
  /\ fate[r] = "absent"
  /\ ~SlotFree /\ Len(line) < QueueMax
  /\ fate' = [fate EXCEPT ![r] = "waiting"]
  /\ line' = Append(line, r)

(* Every slot and every place in the line is taken.                        *)
Refuse(r) ==
  /\ fate[r] = "absent"
  /\ ~SlotFree /\ Len(line) >= QueueMax
  /\ fate' = [fate EXCEPT ![r] = "gone"]
  /\ UNCHANGED line

(* A slot is given back and nobody waits for it.                           *)
Release(r) ==
  /\ fate[r] = "charged" /\ line = <<>>
  /\ fate' = [fate EXCEPT ![r] = "gone"]
  /\ UNCHANGED line

(* A slot is given back and passes to the oldest waiting request.          *)
HandOver(r) ==
  /\ fate[r] = "charged" /\ line # <<>>
  /\ fate' = [fate EXCEPT ![r] = "gone", ![Head(line)] = "charged"]
  /\ line' = Tail(line)

(* A waiting request is cancelled or has waited too long.                  *)
Withdraw(r) ==
  \E k \in DOMAIN line :
    /\ line[k] = r
    /\ line' = RemoveAt(line, k)
    /\ fate' = [fate EXCEPT ![r] = "gone"]

ANext ==
  \E r \in Requests :
    Accept(r) \/ Enqueue(r) \/ Refuse(r) \/ Release(r) \/ HandOver(r) \/ Withdraw(r)

ASpec == AInit /\ [][ANext]_avars
===============================================================================
