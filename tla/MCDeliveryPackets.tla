-------------------------- MODULE MCDeliveryPackets --------------------------
(* The packets of delivery, for the run about a process that dies while it *)
(* publishes one again.                                                    *)
EXTENDS DeliveryPackets
=============================================================================
