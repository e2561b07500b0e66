----------------------------- MODULE TokenChain -----------------------------
(***************************************************************************)
(* What the keepalive promises of the App Review token, whatever the calls *)
(* it makes: the refresh token SSM stores is the one Twitch accepts, is    *)
(* being replaced, or is lost; a lost chain is only mended by a person who *)
(* mints a new token; and the cron monitor shows "ok" only for a kept one. *)
(***************************************************************************)

VARIABLES chain,  \* "kept", "moving" (rotated, not yet stored) or "lost"
          report  \* the last status the cron monitor was sent

vars == <<chain, report>>

Init == chain \in {"kept", "lost"} /\ report = "none"

Begin == report' = "in_progress" /\ UNCHANGED chain

Rotate == /\ chain = "kept" /\ report = "in_progress"
          /\ chain' = "moving"
          /\ UNCHANGED report

Persist == /\ chain = "moving"
           /\ chain' = "kept"
           /\ report' \in {report, "error"}

Lose == /\ chain # "lost" /\ report = "in_progress"
        /\ chain' = "lost"
        /\ report' \in {report, "error"}

CloseOk == /\ chain = "kept" /\ report = "in_progress"
           /\ report' = "ok"
           /\ UNCHANGED chain

CloseError == /\ report = "in_progress"
              /\ report' = "error"
              /\ UNCHANGED chain

(* A person mints a new token and overwrites the parameter. *)
Mint == chain' = "kept" /\ UNCHANGED report

Next == Begin \/ Rotate \/ Persist \/ Lose \/ CloseOk \/ CloseError \/ Mint

Spec == Init /\ [][Next]_vars

TypeOK == /\ chain \in {"kept", "moving", "lost"}
          /\ report \in {"none", "in_progress", "ok", "error"}

(* The monitor never shows "ok" over a token Twitch no longer accepts: the *)
(* check-in of cmd/magic-keepalive/main.go surfaces every dead token.      *)
OkMeansKept == report = "ok" => chain = "kept"

=============================================================================
