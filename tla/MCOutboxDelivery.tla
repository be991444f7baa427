-------------------------- MODULE MCOutboxDelivery --------------------------
(* Instances of OutboxDelivery in which all events belong to one stream: only *)
(* there does the order of deliveries matter.                                 *)
EXTENDS OutboxDelivery

OneStream == [e \in Events |-> "stream"]
=============================================================================
