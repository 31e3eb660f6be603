--------------------------- MODULE MCFulfillment ---------------------------
(* Fulfillment on a small instance, with its fairness assumptions. *)
EXTENDS Fulfillment
=============================================================================
