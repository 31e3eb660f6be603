----------------------------- MODULE MCCreative -----------------------------
(* CreativeRun for TLC. *)
EXTENDS CreativeRun, TLC

CONSTANTS w1, w2, r1

WorkerSymmetry == Permutations(Workers)
=============================================================================
