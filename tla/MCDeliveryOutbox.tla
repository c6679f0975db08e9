-------------------------- MODULE MCDeliveryOutbox --------------------------
(* One email, one webhook, or both of one contact's enrollment, for TLC.   *)
EXTENDS DeliveryOutbox, TLC

CONSTANTS email, webhook, enrolled, contact

Symmetry == Permutations(Leases) \cup Permutations(Procs)

TheEnrollment == [d \in Deliveries |-> enrolled]
TheContact == [d \in Deliveries |-> contact]
=============================================================================
