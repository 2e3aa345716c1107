-------------------------- MODULE MCDeliveryOutbox --------------------------
(* Instances of DeliveryOutbox for TLC; the bounds are in the .cfg files.  *)
EXTENDS DeliveryOutbox
=============================================================================
