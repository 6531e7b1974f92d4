---------------------------- MODULE OutboxProps ----------------------------
(***************************************************************************)
(* What the outbox and its consumers guarantee.                           *)
(***************************************************************************)
EXTENDS Outbox

(***************************************************************************)
(* The marks are true, although several workers overwrite one another's    *)
(* and any statement may fail: no event is marked published that the bus   *)
(* never took, none is given up that the bus did not refuse MaxRetries     *)
(* times, and one that was is not offered any more; and what the inbox     *)
(* makes every consumer skip has been handled by one of them               *)
(* (consumer_runtime.rs: "After processing, it records the message").      *)
(***************************************************************************)
MarksAreTrue ==
  /\ \A e \in Events :
       /\ Bus = "nats" /\ event[e].status = "published" => sent[e] > 0
       /\ event[e].retry <= refused[e]
       /\ event[e].status = "failed" => event[e].retry >= MaxRetries
       /\ event[e].status = "pending" => event[e].retry < MaxRetries
  /\ \A m \in inbox : \E k \in Consumers : <<m, k>> \in handled

(***************************************************************************)
(* Delivery is at least once, but every duplicate has a cause: the workers *)
(* may each publish an event once for its commit and once for every fault. *)
(***************************************************************************)
BoundedDuplicates ==
  \A e \in Events : sent[e] <= Cardinality(Workers) * (1 + faults)

(***************************************************************************)
(* outbox_repository.rs: events are "polled and published by the outbox    *)
(* worker".  Every committed event ends up published or given up, and      *)
(* stays so, whatever the workers do to one another's marks.               *)
(***************************************************************************)
EventuallySettled == <>[](Pending = {})

(***************************************************************************)
(* From end to end: unless something fails, every committed event is       *)
(* handled by some consumer in the end.                                    *)
(***************************************************************************)
EventuallyHandled ==
  <>[](faults = 0 => \A e \in Events : event[e].status # "none" =>
                       \E x \in handled : x[1].event = e)
=============================================================================
