--------------------------- MODULE MCMagicCache ---------------------------
(* MagicCache on small instances for TLC. *)
EXTENDS MagicCache, TLC

CONSTANTS r1, r2

MCTwoRequests == {r1, r2}
MCAllFaults == {"error", "slow", "malformed"}
MCNoFaults == {}

(* Requests are interchangeable; only used where no liveness is checked. *)
Symmetry == Permutations(Request)

=============================================================================
