--------------------------- MODULE MCIdempotency ---------------------------
(* IdempotencyCoordinator with three equal commands and one other. *)
EXTENDS IdempotencyCoordinator, TLC

CONSTANTS r1, r2, r3, r4, p1, p2

TwoPayloads == [r \in Requests |-> IF r = r4 THEN p2 ELSE p1]

(* Requests with the same payload are interchangeable. *)
EqualCommands == Permutations({r1, r2, r3})
=============================================================================
