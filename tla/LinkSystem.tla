----------------------------- MODULE LinkSystem -----------------------------
(***************************************************************************)
(* Who holds a refresh token that Twitch accepts: the proxy's cache        *)
(* (MagicCache) and the keepalive (Keepalive) around the SSM parameter     *)
(* they share, and an app that was given the blob by /api/magic and        *)
(* redeems its refresh token through /api/refresh-token, which rotates it  *)
(* like the keepalive does.                                                *)
(*                                                                         *)
(* MagicCache knows the parameter as a version, Keepalive as the token it  *)
(* holds; tokenOf relates them.                                            *)
(***************************************************************************)
EXTENDS MagicCache

CONSTANTS Event, MaxDeliveries, PutAttempts, Replies, Crashes, MaxMinted,
          MaxRedeemed  \* bound: the app redeems only below this token

VARIABLES enabled, live, issued, stored, monitor, kpc, tries, token,
          puts       \* the keepalive's

VARIABLES
    tokenOf,  \* the refresh token in each version of the blob
    held,     \* the refresh token the app has, NoToken if none
    redeemed, \* history: the tokens the app has used up
    login,    \* history: the mint each token descends from
    minted,   \* history: the last token an operator wrote by hand
    quiet     \* history: no invocation held a token at that moment

K == INSTANCE Keepalive WITH pc <- kpc, Overlap <- FALSE

keepalive == <<enabled, live, issued, stored, monitor, kpc, tries, token,
               puts>>
lineage == <<login, minted, quiet>>
linkVars == <<vars, keepalive, tokenOf, held, redeemed, lineage>>

ASSUME LinkAssumption == /\ MaxDeliveries \in Nat \ {0}
                         /\ PutAttempts \in Nat \ {0}
                         /\ MaxMinted \in Nat
                         /\ MaxRedeemed \in Nat

NoToken == K!NoToken
Seed == 1  \* the token of the first mint

(* In production the proxy has a parameter and no blob of its own.         *)
LinkInit == /\ K!Init /\ Init
            /\ config = [source |-> TRUE, env |-> NoLink]
            /\ garbled = (stored = NoToken)
            /\ tokenOf = [v \in FirstVersion .. MaxVersion |->
                             IF v = FirstVersion THEN stored ELSE NoToken]
            /\ held = NoToken
            /\ redeemed = {}
            /\ login = [t \in {Seed} |-> Seed]
            /\ minted = Seed
            /\ quiet = TRUE

-----------------------------------------------------------------------------
(* The keepalive and the operator *)

(* Between reading the blob and storing its successor. *)
Holding == \E e \in Event : kpc[e] \in {"twitch", "put"}

(* A token that was rotated descends from the login it replaces; one that  *)
(* replaces none is a new login, minted by hand.                           *)
Descend ==
    LET mint == issued' # issued /\ live \subseteq live'
        old == CHOOSE t \in live : t \notin live'
    IN /\ login' = [t \in 1 .. issued' |->
                       IF t \in DOMAIN login THEN login[t]
                       ELSE IF mint THEN t ELSE login[old]]
       /\ minted' = IF mint THEN issued' ELSE minted
       /\ quiet' = IF mint THEN ~Holding ELSE quiet

(* Mutant of Share: the cache is configured with another parameter. *)
ShareElsewhere == UNCHANGED <<vars, tokenOf>>

(* A blob the keepalive or the operator writes is the next version the     *)
(* cache may read; writing the same blob again makes no difference to it.  *)
Share == IF stored' = stored THEN UNCHANGED <<vars, tokenOf>>
         ELSE /\ WriteParam /\ ~garbled'
              /\ tokenOf' = [tokenOf EXCEPT ![param'] = stored']

KeepaliveStep == /\ \/ \E e \in Event : K!Fire(e) \/ K!Step(e) \/ K!Crash(e)
                    \/ K!Mint
                 /\ Share
                 /\ Descend
                 /\ UNCHANGED <<held, redeemed>>

-----------------------------------------------------------------------------
(* The proxy and the app *)

CacheStep == /\ \/ \E r \in Request : \/ Arrive(r) \/ StoreAnswer(r)
                                       \/ Cancel(r) \/ Step(r)
                \/ Tick
             /\ UNCHANGED <<keepalive, tokenOf, held, redeemed, lineage>>

(* handleMagic answers with the blob that Resolve has returned. *)
SignIn(r) == /\ pc[r] = "idle" /\ val[r] >= FirstVersion
             /\ held' = tokenOf[val[r]]
             /\ UNCHANGED <<vars, keepalive, tokenOf, redeemed, lineage>>

(* handleRefreshToken passes the app's token to Twitch, which rotates it;  *)
(* the successor goes to the app and nowhere else.                         *)
Redeem == /\ held \in live /\ issued < MaxRedeemed
          /\ live' = (live \ {held}) \cup {issued + 1}
          /\ issued' = issued + 1
          /\ held' = issued + 1
          /\ redeemed' = redeemed \cup {held}
          /\ Descend
          /\ UNCHANGED <<vars, enabled, stored, monitor, kpc, tries, token,
                         puts, tokenOf>>

LinkNext == \/ KeepaliveStep
            \/ CacheStep
            \/ \E r \in Request : SignIn(r)
            \/ Redeem

LinkSpec == LinkInit /\ [][LinkNext]_linkVars

-----------------------------------------------------------------------------
(* Properties *)

(* The cache and the keepalive agree about the parameter, and every        *)
(* variable of the composition has its type.                               *)
LinkTypeOK == /\ TypeOK /\ K!TypeOK
              /\ stored = IF garbled THEN NoToken ELSE tokenOf[param]
              /\ tokenOf \in [FirstVersion .. MaxVersion -> 0 .. issued]
              /\ held \in 0 .. issued
              /\ redeemed \in SUBSET (1 .. issued)
              /\ login \in [1 .. issued -> 1 .. issued]
              /\ minted \in 1 .. issued
              /\ quiet \in BOOLEAN

(* When a fresh, undegraded cache serves a token Twitch no longer accepts, *)
(* the app has redeemed it, or its successor was written less than a TTL   *)
(* and a fetch ago, or the cron monitor does not show "ok".  Nothing else  *)
(* keeps the reviewer out, whatever the three parties do meanwhile.        *)
DeadServedExplained ==
    Fresh /\ ~degraded /\ cached # NoLink /\ tokenOf[cached] \notin live
       => \/ tokenOf[cached] \in redeemed
          \/ /\ cached < param
             /\ now < writtenAt[cached + 1] + TTL + FetchTimeout
          \/ cached = param /\ monitor # "ok"

(* A monitor that shows "ok" means that SSM's token is good unless the app *)
(* has used it since: nothing but router.go:130 undoes what the keepalive  *)
(* reported.                                                               *)
OkUnlessRedeemed == monitor = "ok" => stored \in live \cup redeemed

(* A manual update (lambda.tf:26) made while no invocation held a token is *)
(* not undone: SSM's token goes on descending from it.                     *)
MintSurvives == quiet /\ stored # NoToken => login[stored] = minted

(* SSM's token is refused, and no invocation has a good one to store. *)
Lost == /\ stored \notin live
        /\ \A e \in Event : kpc[e] = "put" => token[e] \notin live

(* A login that was lost, because the app used it up or the keepalive did  *)
(* not store it, is mended by a new mint and by nothing the keepalive, the *)
(* cache or the app do, unless a login was minted under an invocation that *)
(* still held the one before it.                                           *)
OnlyMintMends == [][quiet /\ Lost => Lost' \/ minted' # minted]_linkVars

=============================================================================
