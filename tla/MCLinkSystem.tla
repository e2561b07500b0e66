---------------------------- MODULE MCLinkSystem ----------------------------
(* Small instances of LinkSystem for TLC. *)
EXTENDS LinkSystem, TLC

(* Events are interchangeable; no liveness is checked here. *)
Symmetry == Permutations(Event)

=============================================================================
