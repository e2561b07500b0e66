----------------------------- MODULE Keepalive ------------------------------
(***************************************************************************)
(* The magic-keepalive Lambda: cmd/magic-keepalive/main.go (handle),       *)
(* internal/magickeepalive/refresher.go (Refresh) and the retries of       *)
(* internal/magiclink/store.go (Get, Put), with what they talk to: the     *)
(* EventBridge schedule, Lambda's asynchronous retries, Twitch and SSM.    *)
(*                                                                         *)
(* Refresh tokens are numbered in the order Twitch issues them.  Twitch    *)
(* accepts the tokens in live; refreshing one replaces it, which is what   *)
(* "already rotated" means in the code.                                    *)
(***************************************************************************)
EXTENDS Integers, FiniteSets

CONSTANTS Event,         \* scheduled events, each delivered until it settles
          MaxDeliveries, \* Lambda's asynchronous attempts: 1 and 2 retries
          PutAttempts,   \* retryAttempts of the store
          Replies,       \* what Twitch's answer to a rotation may look like
          Overlap,       \* may two events be in flight at once?
          Crashes,       \* may Lambda kill an invocation at its timeout?
          MaxMinted      \* bound: a person mints only below this token

NoToken == 0  \* the stored blob does not parse

ASSUME DeliveryAssumption == MaxDeliveries \in Nat \ {0}
ASSUME PutAssumption == PutAttempts \in Nat \ {0}
ASSUME ReplyAssumption == Replies \subseteq {"full", "lost", "no_access",
                                             "no_refresh"}
ASSUME SwitchAssumption == Overlap \in BOOLEAN /\ Crashes \in BOOLEAN
ASSUME MintAssumption == MaxMinted \in Nat

VARIABLES
    enabled,  \* REVIEWER_ACCOUNT_REFRESH_ENABLED of the deployed function
    live,     \* refresh tokens Twitch accepts
    issued,   \* number of refresh tokens Twitch has issued
    stored,   \* the refresh token in SSM, NoToken if the blob is malformed
    monitor,  \* the last status sent to the Sentry cron monitor
    pc,       \* where each event is
    tries,    \* deliveries of the event so far
    token,    \* Refresh's current.RefreshToken, then next.RefreshToken
    puts      \* PutParameter attempts of this Put

twitch == <<live, issued>>
local == <<token, puts>>
vars == <<enabled, twitch, stored, monitor, pc, tries, local>>

CheckedIn == {"get", "twitch", "put", "saved"}  \* the check-in is open
Running == CheckedIn \cup {"closed"}             \* handle has not returned
Location == {"unfired", "queued", "settled"} \cup Running

Active(e) == pc[e] \in Running
InFlight(e) == pc[e] \in Running \cup {"queued"}

-----------------------------------------------------------------------------

Init == /\ enabled = TRUE
        /\ live = {1} /\ issued = 1
        /\ stored \in {NoToken, 1}
        /\ monitor = "none"
        /\ pc = [e \in Event |-> "unfired"]
        /\ tries = [e \in Event |-> 0]
        /\ token = [e \in Event |-> NoToken]
        /\ puts = [e \in Event |-> 0]

Goto(e, l) == pc' = [pc EXCEPT ![e] = l]

(* The invocation is over, and its stack with it. *)
End(e, l) == /\ Goto(e, l)
             /\ token' = [token EXCEPT ![e] = NoToken]
             /\ puts' = [puts EXCEPT ![e] = 0]

(* Lambda's answer to an invocation that failed: retry it or give up. *)
Redeliver(e) == End(e, IF tries[e] < MaxDeliveries THEN "queued" ELSE "settled")

(* Mutant of Fail: handle tries again itself. *)
FailInPlace(e) == monitor' = "error" /\ End(e, "get")

(* handle closes the check-in as an error and returns the error; a kill    *)
(* before it has returned would fail the attempt all the same.             *)
Fail(e) == monitor' = "error" /\ Redeliver(e)

-----------------------------------------------------------------------------
(* The schedule and Lambda *)

Fire(e) == /\ pc[e] = "unfired"
           /\ Overlap \/ \A f \in Event : ~InFlight(f)
           /\ Goto(e, "queued")
           /\ UNCHANGED <<enabled, twitch, stored, monitor, tries, local>>

(* handle starts and opens the check-in. *)
Deliver(e) == /\ pc[e] = "queued" /\ enabled
              /\ tries' = [tries EXCEPT ![e] = @ + 1]
              /\ monitor' = "in_progress"
              /\ Goto(e, "get")
              /\ UNCHANGED <<enabled, twitch, stored, local>>

(* handle is a no-op when the feature is off: no check-in, no error. *)
DeliverDisabled(e) == /\ pc[e] = "queued" /\ ~enabled
                      /\ Goto(e, "settled")
                      /\ UNCHANGED <<enabled, twitch, stored, monitor, tries,
                                     local>>

(* The function's timeout, wherever handle is: the attempt has failed, and *)
(* the check-in stays as it is.  A kill that overtakes Twitch's answer is  *)
(* RefreshOk and then a kill.                                              *)
Crash(e) == /\ Crashes /\ Active(e)
            /\ Redeliver(e)
            /\ UNCHANGED <<enabled, twitch, stored, monitor, tries>>

-----------------------------------------------------------------------------
(* Refresh: read the blob *)

(* Mutant of GetBlob: the blob the function was deployed with is used. *)
GetBlobSeed(e) == /\ pc[e] = "get" /\ stored # NoToken
                  /\ token' = [token EXCEPT ![e] = 1]
                  /\ Goto(e, "twitch")
                  /\ UNCHANGED <<enabled, twitch, stored, monitor, tries,
                                 puts>>

GetBlob(e) == /\ pc[e] = "get" /\ stored # NoToken
              /\ token' = [token EXCEPT ![e] = stored]
              /\ Goto(e, "twitch")
              /\ UNCHANGED <<enabled, twitch, stored, monitor, tries, puts>>

(* A missing variable, three failed reads, or a blob without tokens. *)
GetBlobFails(e) == /\ pc[e] = "get"
                   /\ Fail(e)
                   /\ UNCHANGED <<enabled, twitch, stored, tries>>

-----------------------------------------------------------------------------
(* Refresh: rotate it at Twitch *)

Rotate(e) == /\ token[e] \in live
             /\ issued' = issued + 1
             /\ live' = (live \ {token[e]}) \cup {issued + 1}

RefreshOk(e) == /\ pc[e] = "twitch" /\ "full" \in Replies
                /\ Rotate(e)
                /\ token' = [token EXCEPT ![e] = issued + 1]
                /\ puts' = [puts EXCEPT ![e] = 1]
                /\ Goto(e, "put")
                /\ UNCHANGED <<enabled, stored, monitor, tries>>

(* Mutant of RefreshUnusable: an omitted refresh token is carried over. *)
RefreshCarriedOver(e) == /\ pc[e] = "twitch" /\ Replies \ {"full"} # {}
                         /\ Rotate(e)
                         /\ puts' = [puts EXCEPT ![e] = 1]
                         /\ Goto(e, "put")
                         /\ UNCHANGED <<enabled, stored, monitor, tries, token>>

(* Twitch rotated, but the answer was lost on the way or lacks a token:    *)
(* Refresh returns an error that is not ErrTokenRotated.                   *)
RefreshUnusable(e) == /\ pc[e] = "twitch" /\ Replies \ {"full"} # {}
                      /\ Rotate(e)
                      /\ Fail(e)
                      /\ UNCHANGED <<enabled, stored, tries>>

(* The request never reached Twitch, or Twitch refused the token. *)
RefreshFails(e) == /\ pc[e] = "twitch"
                   /\ Fail(e)
                   /\ UNCHANGED <<enabled, twitch, stored, tries>>

-----------------------------------------------------------------------------
(* Refresh: store the rotated blob, with the store's own retries *)

(* PutParameter overwrites the parameter. *)
Write(e) == stored' = token[e]

(* A PutParameter that failed as the client sees it. *)
MaybeWrite(e) == Write(e) \/ UNCHANGED stored

PutOk(e) == /\ pc[e] = "put"
            /\ Write(e)
            /\ End(e, "saved")
            /\ UNCHANGED <<enabled, twitch, monitor, tries>>

(* Mutant of PutRetry: one attempt too many. *)
PutRetryOffByOne(e) == /\ pc[e] = "put" /\ puts[e] <= PutAttempts
                       /\ MaybeWrite(e)
                       /\ puts' = [puts EXCEPT ![e] = @ + 1]
                       /\ UNCHANGED <<enabled, twitch, monitor, pc, tries, token>>

(* A retryable error: the next attempt writes the same blob again. *)
PutRetry(e) == /\ pc[e] = "put" /\ puts[e] < PutAttempts
               /\ MaybeWrite(e)
               /\ puts' = [puts EXCEPT ![e] = @ + 1]
               /\ UNCHANGED <<enabled, twitch, monitor, pc, tries, token>>

(* Mutant of PutGiveUp: handle returns every error. *)
PutGiveUpRetried(e) == /\ pc[e] = "put"
                       /\ MaybeWrite(e)
                       /\ Fail(e)
                       /\ UNCHANGED <<enabled, twitch, tries>>

(* Mutant of PutGiveUp: a failed write is logged and swallowed. *)
PutGiveUpSilently(e) == /\ pc[e] = "put"
                        /\ MaybeWrite(e)
                        /\ End(e, "saved")
                        /\ UNCHANGED <<enabled, twitch, monitor, tries>>

(* Attempts used up, a permanent error or the deadline: ErrTokenRotated.   *)
(* handle closes the check-in as an error, and will return nil.            *)
PutGiveUp(e) == /\ pc[e] = "put"
                /\ MaybeWrite(e)
                /\ monitor' = "error"
                /\ End(e, "closed")
                /\ UNCHANGED <<enabled, twitch, tries>>

(* Refresh returned nil: the check-in is closed as ok. *)
Finish(e) == /\ pc[e] = "saved"
             /\ monitor' = "ok"
             /\ Goto(e, "closed")
             /\ UNCHANGED <<enabled, twitch, stored, tries, local>>

(* Sentry is flushed, for up to two seconds, and handle returns nil. *)
Return(e) == /\ pc[e] = "closed"
             /\ Goto(e, "settled")
             /\ UNCHANGED <<enabled, twitch, stored, monitor, tries, local>>

-----------------------------------------------------------------------------
(* The operator *)

(* A new login is minted and the parameter overwritten by hand. *)
Mint == /\ issued < MaxMinted
        /\ issued' = issued + 1
        /\ live' = live \cup {issued + 1}
        /\ stored' = issued + 1
        /\ UNCHANGED <<enabled, monitor, pc, tries, local>>

(* A deployment with the feature flag flipped. *)
Toggle == /\ enabled' = ~enabled
          /\ UNCHANGED <<twitch, stored, monitor, pc, tries, local>>

Step(e) == \/ Deliver(e) \/ DeliverDisabled(e)
           \/ GetBlob(e) \/ GetBlobFails(e)
           \/ RefreshOk(e) \/ RefreshUnusable(e) \/ RefreshFails(e)
           \/ PutOk(e) \/ PutRetry(e) \/ PutGiveUp(e)
           \/ Finish(e) \/ Return(e)

Next == \/ \E e \in Event : Fire(e) \/ Step(e) \/ Crash(e)
        \/ Mint
        \/ Toggle

Spec == Init /\ [][Next]_vars

(* Lambda delivers what is queued, and an invocation runs to its end. *)
Fairness == \A e \in Event : WF_vars(Step(e))

FairSpec == Spec /\ Fairness

-----------------------------------------------------------------------------
(* Properties *)

(* Every variable stays in its range. *)
TypeOK == /\ enabled \in BOOLEAN
          /\ issued \in Nat \ {0}
          /\ live \in SUBSET (1 .. issued)
          /\ stored \in 0 .. issued
          /\ monitor \in {"none", "in_progress", "ok", "error"}
          /\ pc \in [Event -> Location]
          /\ tries \in [Event -> 0 .. MaxDeliveries]
          /\ token \in [Event -> 0 .. issued]
          /\ puts \in [Event -> 0 .. PutAttempts]

(* Between invocations, a monitor that shows "ok" means SSM holds a token  *)
(* Twitch accepts, whatever was lost, refused, retried or killed before:   *)
(* the error check-in surfaces the dead-token state (main.go:64-66).       *)
DeadTokenSurfaced ==
    monitor = "ok" /\ (\A e \in Event : ~Active(e)) => stored \in live

(* A write never replaces a token Twitch accepts by one it does not.       *)
NeverClobbersLive ==
    [][stored' # stored /\ stored \in live => stored' \in live']_vars

(* How far a delivery has come: what it does next is always further.       *)
Progress(l) == CASE l = "unfired" -> 0
                 [] l = "get"     -> 1
                 [] l = "twitch"  -> 2
                 [] l = "put"     -> 3
                 [] l = "saved"   -> 4
                 [] l = "closed"  -> 5
                 [] l = "queued"  -> 6
                 [] l = "settled" -> 7

Further(e) == \/ tries'[e] > tries[e]
              \/ /\ tries'[e] = tries[e]
                 /\ \/ Progress(pc'[e]) > Progress(pc[e])
                    \/ pc'[e] = pc[e] /\ puts'[e] > puts[e]

(* An event never does anything twice: each of its steps, and each kill,   *)
(* uses up a delivery, a part of one, or an attempt to write, and nobody   *)
(* gives those back.  They are bounded, so no event goes round for ever.   *)
EventAdvances ==
    [][\A e \in Event : \/ UNCHANGED <<pc[e], tries[e], puts[e]>>
                        \/ Further(e)]_vars

(* Every scheduled event is done with after finitely many attempts.        *)
EventSettles == \A e \in Event : pc[e] = "queued" ~> pc[e] = "settled"

-----------------------------------------------------------------------------
(* The keepalive implements TokenChain when events do not overlap. *)

Chain == IF stored \in live THEN "kept"
         ELSE IF \E e \in Event : pc[e] = "put" /\ token[e] \in live
              THEN "moving" ELSE "lost"

TC == INSTANCE TokenChain WITH chain <- Chain, report <- monitor

(* The abstract specification of the token's chain of custody.             *)
ImplementsTokenChain == TC!Spec

=============================================================================
