---------------------------- MODULE MCKeepalive ----------------------------
(* Keepalive on small instances for TLC. *)
EXTENDS KeepaliveHistory

CONSTANTS e1, e2

MCTwoEvents == {e1, e2}
MCAllReplies == {"full", "lost", "no_access", "no_refresh"}
MCOmittedReplies == {"full", "no_refresh"}

=============================================================================
