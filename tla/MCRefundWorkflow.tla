-------------------------- MODULE MCRefundWorkflow --------------------------
(* RefundWorkflow on a small instance. *)
EXTENDS RefundWorkflow, TLC

AdminSymmetry == Permutations(Admins)
=============================================================================
