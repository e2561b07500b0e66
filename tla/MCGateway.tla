----------------------------- MODULE MCGateway ------------------------------
(***************************************************************************)
(* Small instances of Gateway for TLC.                                     *)
(***************************************************************************)
EXTENDS Gateway

(* A route of every kind, the protected one with and without its token. *)
MixedTraffic == {"POST /api/refresh-token", "GET /api/magic",
                 "HEAD /api/healthcheck", "other"}

Env(twitch, param, aws, blob, key) ==
    [twitch |-> twitch, param |-> param, aws |-> aws, blob |-> blob,
     key |-> key]

(* As terraform/lambda.tf deploys it with the magic link on, and the same  *)
(* without Twitch's credentials.                                           *)
Deployments == {Env(TRUE, TRUE, TRUE, FALSE, TRUE),
                Env(FALSE, TRUE, TRUE, FALSE, TRUE)}

=============================================================================
