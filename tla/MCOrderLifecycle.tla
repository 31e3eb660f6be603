-------------------------- MODULE MCOrderLifecycle --------------------------
(* OrderLifecycle on a small instance. *)
EXTENDS OrderLifecycle, TLC

WorkerSymmetry == Permutations(Workers)
=============================================================================
