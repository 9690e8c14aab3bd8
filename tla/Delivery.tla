------------------------------- MODULE Delivery -------------------------------
(***************************************************************************)
(* What the consumers of domain events may count on: an event that was     *)
(* committed is handed to workers, perhaps several at once and perhaps     *)
(* again after one of them failed, but never again once it is recorded as  *)
(* processed.  Outbox implements it; Journey is built on it.               *)
(***************************************************************************)

CONSTANTS
  Events,
  Workers,
  None       \* no event

VARIABLES
  emitted,   \* events whose transaction committed
  hand,      \* the event each worker is carrying out
  recorded   \* events recorded as processed

deliveryVars == <<emitted, hand, recorded>>

DeliveryInit ==
  /\ emitted = {}
  /\ hand = [w \in Workers |-> None]
  /\ recorded = {}

-----------------------------------------------------------------------------
Emit(e) ==
  /\ e \notin emitted
  /\ emitted' = emitted \cup {e}
  /\ UNCHANGED <<hand, recorded>>

Deliver(w, e) ==
  /\ hand[w] = None
  /\ e \in emitted \ recorded
  /\ hand' = [hand EXCEPT ![w] = e]
  /\ UNCHANGED <<emitted, recorded>>

Complete(w) ==
  /\ hand[w] # None
  /\ recorded' = recorded \cup {hand[w]}
  /\ hand' = [hand EXCEPT ![w] = None]
  /\ UNCHANGED emitted

\* The worker fails or dies; what it did of the event stays done.
Drop(w) ==
  /\ hand[w] # None
  /\ hand' = [hand EXCEPT ![w] = None]
  /\ UNCHANGED <<emitted, recorded>>

DeliveryNext ==
  \/ \E e \in Events : Emit(e)
  \/ \E w \in Workers, e \in Events : Deliver(w, e)
  \/ \E w \in Workers : Complete(w) \/ Drop(w)

DeliverySpec == DeliveryInit /\ [][DeliveryNext]_deliveryVars

=============================================================================
