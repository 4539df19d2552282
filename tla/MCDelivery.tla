----------------------------- MODULE MCDelivery -----------------------------
(* Small instances of Delivery for TLC: every bound is in the .cfg files.   *)
EXTENDS Delivery
=============================================================================
