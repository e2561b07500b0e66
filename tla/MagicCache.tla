----------------------------- MODULE MagicCache -----------------------------
(***************************************************************************)
(* The proxy's magic-link cache, internal/proxy/magiclinkcache.go: callers *)
(* of Resolve share one cached token blob read from SSM Parameter Store.   *)
(* A goroutine between two lock operations of Resolve, fresh and load is   *)
(* one control state; the mutex-protected bodies are single actions, and   *)
(* singleflight's Do is split where goroutines can interleave: joining a   *)
(* flight, the double-check, the SSM read, the cache update, the landing.  *)
(*                                                                         *)
(* Blobs are numbered by age.  NoLink is the nil pointer, EnvLink the blob *)
(* of the env var, and FirstVersion, FirstVersion+1, ... the values SSM    *)
(* has held; a larger number is a newer blob.                              *)
(***************************************************************************)
EXTENDS Integers

CONSTANTS Request,      \* goroutines that may be inside Resolve at once
          NoRequest,    \* "no flight is up"
          TTL,          \* magicCacheTTL
          ErrorTTL,     \* magicCacheErrorTTL
          FetchTimeout, \* magicFetchTimeout
          Faults,       \* what SSM may do: "error", "slow", "malformed"
          MaxTime,      \* bound: no request arrives at or after this instant
          MaxVersion    \* bound: newest blob ever written to SSM

Unread == -1
NoLink == 0
EnvLink == 1
FirstVersion == 2

ASSUME NoRequestAssumption == NoRequest \notin Request
ASSUME TimingAssumption == /\ TTL \in Nat \ {0}
                           /\ ErrorTTL \in Nat \ {0}
                           /\ FetchTimeout \in Nat
ASSUME BoundAssumption == /\ MaxTime \in Nat
                          /\ MaxVersion \in Nat
                          /\ MaxVersion >= FirstVersion
ASSUME FaultAssumption == Faults \subseteq {"error", "slow", "malformed"}

VARIABLES
    config,     \* [source, env]: is a store configured, and the env blob
    now,        \* the clock; instant 0 is Go's zero time
    param,      \* the version SSM holds
    garbled,    \* the blob SSM holds does not parse
    cached,     \* magicLinkCache.cached
    exp,        \* magicLinkCache.exp
    leader,     \* whose flight singleflight holds under the key "magic"
    pc,         \* where each request is in Resolve
    val,        \* the blob each request has in hand
    answer,     \* what SSM sent the request's fetch
    start,      \* when the request's fetch began
    cancelled,  \* the request's ctx is done
    writtenAt,  \* history: when each version was written
    newest,     \* history: newest blob any caller was given
    floor,      \* history: newest when the request arrived
    degraded    \* history: the last load that set exp had failed

store == <<param, garbled, writtenAt>>
cache == <<cached, exp, degraded>>
vars == <<config, now, store, cache, leader, pc, val, answer, start,
          cancelled, newest, floor>>

Location == {"idle", "resolve", "join", "recheck", "fetch", "land",
             "wait", "wake"}
Link == NoLink .. MaxVersion

-----------------------------------------------------------------------------

Newer(a, b) == IF a >= b THEN a ELSE b

(* The blob a caller gets when SSM gives none: the cached one, else env. *)
Fallback == IF cached # NoLink THEN cached ELSE config.env

(* Mutant of Fresh: a cached blob is never read again. *)
FreshForever == exp # 0 /\ (cached # NoLink \/ now < exp)

(* fresh(): exp is not the zero time and now is before it. *)
Fresh == exp # 0 /\ now < exp

Goto(r, l) == pc' = [pc EXCEPT ![r] = l]

(* Resolve returns link to the caller. *)
Return(r, link) == /\ Goto(r, "idle")
                   /\ val' = [val EXCEPT ![r] = link]
                   /\ newest' = Newer(newest, link)

Init == /\ config \in [source : BOOLEAN, env : {NoLink, EnvLink}]
        /\ now = 1
        /\ param = FirstVersion
        /\ garbled \in IF "malformed" \in Faults THEN BOOLEAN ELSE {FALSE}
        /\ writtenAt = [v \in FirstVersion .. MaxVersion |-> 0]
        /\ cached = NoLink /\ exp = 0 /\ degraded = FALSE
        /\ leader = NoRequest
        /\ pc = [r \in Request |-> "idle"]
        /\ val = [r \in Request |-> Unread]
        /\ answer = [r \in Request |-> Unread]
        /\ start = [r \in Request |-> 0]
        /\ cancelled = [r \in Request |-> FALSE]
        /\ newest = NoLink
        /\ floor = [r \in Request |-> NoLink]

-----------------------------------------------------------------------------
(* Resolve *)

(* A goroutine calls Resolve with a live ctx. *)
Arrive(r) == /\ pc[r] = "idle" /\ now < MaxTime
             /\ Goto(r, "resolve")
             /\ val' = [val EXCEPT ![r] = Unread]
             /\ cancelled' = [cancelled EXCEPT ![r] = FALSE]
             /\ floor' = [floor EXCEPT ![r] = newest]
             /\ UNCHANGED <<config, now, store, cache, leader, answer, start,
                            newest>>

ResolveEnv(r) == /\ pc[r] = "resolve" /\ ~config.source
                 /\ Return(r, config.env)
                 /\ UNCHANGED <<config, now, store, cache, leader, answer,
                                start, cancelled, floor>>

ResolveHit(r) == /\ pc[r] = "resolve" /\ config.source /\ Fresh
                 /\ Return(r, Fallback)
                 /\ UNCHANGED <<config, now, store, cache, leader, answer,
                                start, cancelled, floor>>

ResolveMiss(r) == /\ pc[r] = "resolve" /\ config.source /\ ~Fresh
                  /\ Goto(r, "join")
                  /\ UNCHANGED <<config, now, store, cache, leader, val,
                                 answer, start, cancelled, newest, floor>>

-----------------------------------------------------------------------------
(* singleflight.Group.Do *)

(* Mutant of LeadFlight: every caller that missed reads SSM itself. *)
LeadFlightUncoalesced(r) == /\ pc[r] = "join"
                            /\ leader' = r
                            /\ Goto(r, "recheck")
                            /\ UNCHANGED <<config, now, store, cache, val,
                                           answer, start, cancelled, newest,
                                           floor>>

LeadFlight(r) == /\ pc[r] = "join" /\ leader = NoRequest
                 /\ leader' = r
                 /\ Goto(r, "recheck")
                 /\ UNCHANGED <<config, now, store, cache, val, answer, start,
                                cancelled, newest, floor>>

JoinFlight(r) == /\ pc[r] = "join" /\ leader # NoRequest
                 /\ Goto(r, "wait")
                 /\ UNCHANGED <<config, now, store, cache, leader, val, answer,
                                start, cancelled, newest, floor>>

(* The second fresh(), under the flight: another flight filled the cache. *)
RecheckHit(r) == /\ pc[r] = "recheck" /\ Fresh
                 /\ Goto(r, "land")
                 /\ val' = [val EXCEPT ![r] = Fallback]
                 /\ UNCHANGED <<config, now, store, cache, leader, answer,
                                start, cancelled, newest, floor>>

(* Mutant of StartFetch: the flight skips the second fresh(). *)
StartFetchUnchecked(r) == /\ pc[r] = "recheck"
                          /\ Goto(r, "fetch")
                          /\ start' = [start EXCEPT ![r] = now]
                          /\ answer' = [answer EXCEPT ![r] = Unread]
                          /\ UNCHANGED <<config, now, store, cache, leader,
                                         val, cancelled, newest, floor>>

(* load: the deadline starts to run and the SSM read is sent. *)
StartFetch(r) == /\ pc[r] = "recheck" /\ ~Fresh
                 /\ Goto(r, "fetch")
                 /\ start' = [start EXCEPT ![r] = now]
                 /\ answer' = [answer EXCEPT ![r] = Unread]
                 /\ UNCHANGED <<config, now, store, cache, leader, val,
                                cancelled, newest, floor>>

(* SSM reads the parameter; the value is on its way to the fetch. *)
StoreAnswer(r) == /\ pc[r] = "fetch" /\ answer[r] = Unread
                  /\ answer' = [answer EXCEPT ![r] =
                                    IF garbled THEN NoLink ELSE param]
                  /\ UNCHANGED <<config, now, store, cache, leader, pc, val,
                                 start, cancelled, newest, floor>>

-----------------------------------------------------------------------------
(* load: what Get returned, handled under the mutex *)

(* Mutant of FetchCtxDone: load passes the caller's ctx on as it is. *)
FetchCtxCancelled(r) == cancelled[r]

(* fetchCtx is done: with the caller's ctx, or at its own deadline. *)
FetchCtxDone(r) == \/ cancelled[r]
                   \/ "slow" \in Faults /\ now >= start[r] + FetchTimeout

(* Get returns an error: its context is done, or SSM has failed it. *)
GetFails(r) == FetchCtxDone(r) \/ "error" \in Faults

(* load returns link; the fetch's own state is gone with its stack frame. *)
EndLoad(r, link) == /\ Goto(r, "land")
                    /\ val' = [val EXCEPT ![r] = link]
                    /\ answer' = [answer EXCEPT ![r] = Unread]
                    /\ start' = [start EXCEPT ![r] = 0]
                    /\ UNCHANGED <<config, now, store, leader, cancelled,
                                   newest, floor>>

(* Mutant of LoadOk: the value is used before the error is looked at. *)
LoadOkUnchecked(r) == /\ pc[r] = "fetch"
                      /\ cached' = answer[r]
                      /\ exp' = now + TTL
                      /\ degraded' = FALSE
                      /\ EndLoad(r, answer[r])

LoadOk(r) == /\ pc[r] = "fetch" /\ answer[r] >= FirstVersion
             /\ cached' = answer[r]
             /\ exp' = now + TTL
             /\ degraded' = FALSE
             /\ EndLoad(r, answer[r])

LoadMalformed(r) == /\ pc[r] = "fetch" /\ answer[r] = NoLink
                    /\ exp' = now + ErrorTTL
                    /\ degraded' = TRUE
                    /\ EndLoad(r, Fallback)
                    /\ UNCHANGED cached

(* Mutant of LoadError: an error falls back to the env blob at once. *)
LoadErrorToEnv(r) == /\ pc[r] = "fetch" /\ GetFails(r) /\ ~cancelled[r]
                     /\ exp' = now + ErrorTTL
                     /\ degraded' = TRUE
                     /\ EndLoad(r, config.env)
                     /\ UNCHANGED cached

LoadError(r) == /\ pc[r] = "fetch" /\ GetFails(r) /\ ~cancelled[r]
                /\ exp' = now + ErrorTTL
                /\ degraded' = TRUE
                /\ EndLoad(r, Fallback)
                /\ UNCHANGED cached

(* Mutant of LoadCancelled: a cancellation is cached like an error. *)
LoadCancelledCached(r) == /\ pc[r] = "fetch" /\ GetFails(r) /\ cancelled[r]
                          /\ exp' = now + ErrorTTL
                          /\ EndLoad(r, Fallback)
                          /\ UNCHANGED <<cached, degraded>>

(* The request's own ctx is done: the cache is left as it is. *)
LoadCancelled(r) == /\ pc[r] = "fetch" /\ GetFails(r) /\ cancelled[r]
                    /\ EndLoad(r, Fallback)
                    /\ UNCHANGED cache

(* Mutant of LandFlight: a cancelled leader returns without landing. *)
LandFlightAbandoned(r) == /\ pc[r] = "land"
                          /\ leader' = IF cancelled[r] THEN r ELSE NoRequest
                          /\ pc' = [q \in Request |->
                                IF q = r THEN "idle"
                                ELSE IF pc[q] = "wait" /\ ~cancelled[r]
                                THEN "wake" ELSE pc[q]]
                          /\ val' = [q \in Request |->
                                IF pc[q] = "wait" THEN val[r] ELSE val[q]]
                          /\ newest' = Newer(newest, val[r])
                          /\ UNCHANGED <<config, now, store, cache, answer,
                                         start, cancelled, floor>>

(* The flight is over: the key is dropped, every waiter gets its value. *)
LandFlight(r) == /\ pc[r] = "land"
                 /\ leader' = NoRequest
                 /\ pc' = [q \in Request |->
                             IF q = r THEN "idle"
                             ELSE IF pc[q] = "wait" THEN "wake" ELSE pc[q]]
                 /\ val' = [q \in Request |->
                             IF pc[q] = "wait" THEN val[r] ELSE val[q]]
                 /\ newest' = Newer(newest, val[r])
                 /\ UNCHANGED <<config, now, store, cache, answer, start,
                                cancelled, floor>>

Wake(r) == /\ pc[r] = "wake"
           /\ Return(r, val[r])
           /\ UNCHANGED <<config, now, store, cache, leader, answer, start,
                          cancelled, floor>>

-----------------------------------------------------------------------------
(* The environment *)

(* The caller's ctx is cancelled while it is inside Resolve. *)
Cancel(r) == /\ pc[r] # "idle" /\ ~cancelled[r]
             /\ cancelled' = [cancelled EXCEPT ![r] = TRUE]
             /\ UNCHANGED <<config, now, store, cache, leader, pc, val, answer,
                            start, newest, floor>>

(* The keepalive Lambda, or an operator, overwrites the parameter. *)
WriteParam == /\ param < MaxVersion
              /\ param' = param + 1
              /\ garbled' \in IF "malformed" \in Faults
                              THEN BOOLEAN ELSE {FALSE}
              /\ writtenAt' = [writtenAt EXCEPT ![param + 1] = now]
              /\ UNCHANGED <<config, now, cache, leader, pc, val, answer,
                             start, cancelled, newest, floor>>

(* A fetch never outlives its deadline, so time waits for it there. *)
Tick == /\ now < MaxTime \/ \E r \in Request : pc[r] = "fetch"
        /\ \A r \in Request :
              pc[r] = "fetch" => now < start[r] + FetchTimeout
        /\ now' = now + 1
        /\ UNCHANGED <<config, store, cache, leader, pc, val, answer, start,
                       cancelled, newest, floor>>

(* What a request's goroutine does next, its caller and SSM apart. *)
Step(r) == \/ ResolveEnv(r) \/ ResolveHit(r) \/ ResolveMiss(r)
           \/ LeadFlight(r) \/ JoinFlight(r)
           \/ RecheckHit(r) \/ StartFetch(r)
           \/ LoadOk(r) \/ LoadMalformed(r)
           \/ LoadError(r) \/ LoadCancelled(r)
           \/ LandFlight(r) \/ Wake(r)

Next == \/ \E r \in Request : Arrive(r) \/ StoreAnswer(r) \/ Cancel(r)
                              \/ Step(r)
        \/ WriteParam
        \/ Tick

Spec == Init /\ [][Next]_vars

(* What happens of itself: a goroutine in a fetch waits, and only the end  *)
(* of its context is certain to wake it.                                   *)
Prompt(r) == (pc[r] = "fetch" => FetchCtxDone(r)) /\ Step(r)

(* Goroutines are scheduled and time passes; nothing makes SSM answer or   *)
(* fail, nor a caller cancel.                                              *)
Fairness == WF_vars(Tick) /\ \A r \in Request : WF_vars(Prompt(r))

FairSpec == Spec /\ Fairness

-----------------------------------------------------------------------------
(* Properties *)

(* Every variable stays in its range. *)
TypeOK == /\ config \in [source : BOOLEAN, env : {NoLink, EnvLink}]
          /\ now \in Nat \ {0}
          /\ param \in FirstVersion .. MaxVersion
          /\ garbled \in BOOLEAN
          /\ writtenAt \in [FirstVersion .. MaxVersion -> Nat]
          /\ cached \in {NoLink} \cup FirstVersion .. MaxVersion
          /\ exp \in Nat
          /\ degraded \in BOOLEAN
          /\ leader \in Request \cup {NoRequest}
          /\ pc \in [Request -> Location]
          /\ val \in [Request -> {Unread} \cup Link]
          /\ answer \in [Request -> {Unread, NoLink}
                                      \cup FirstVersion .. MaxVersion]
          /\ start \in [Request -> Nat]
          /\ cancelled \in [Request -> BOOLEAN]
          /\ newest \in Link
          /\ floor \in [Request -> Link]

(* However many callers miss at once, at most one of them reads SSM: the   *)
(* promise singleflight is in Resolve for.                                 *)
OneFetch == \A r, q \in Request :
               pc[r] = "fetch" /\ pc[q] = "fetch" => r = q

(* SSM is never read while the cache is fresh.  A caller that missed and   *)
(* was then overtaken by a whole flight must find that out at the second   *)
(* fresh() and not read again.                                             *)
NoFetchWhileFresh == \A r \in Request : pc[r] = "fetch" => exp <= start[r]

(* The cached blob never goes back to an older one: a slow read cannot     *)
(* overwrite what a later read cached.                                     *)
CachedNeverRegresses == [][cached' >= cached]_cached

(* A caller is never given a blob older than one some caller already had   *)
(* when it arrived, whether it hit, led a flight, joined one, or fell back *)
(* after an error, a bad blob or a cancellation.                           *)
MonotonicReads == \A r \in Request :
                     pc[r] = "idle" /\ val[r] # Unread => val[r] >= floor[r]

(* Unless the last read failed, a replaced blob is served no longer than   *)
(* the TTL and one fetch after its replacement was written: the window in  *)
(* which the app may be given a token the keepalive has already rotated.   *)
StaleServeBounded ==
    Fresh /\ ~degraded /\ cached # NoLink /\ cached < param
       => now < writtenAt[cached + 1] + TTL + FetchTimeout

(* Unless the last read failed, a fresh cache holds a blob of the store:    *)
(* no number of cancelled callers leaves it serving the env blob.          *)
CancelNeverPoisons == Fresh /\ ~degraded => cached # NoLink

(* Whoever waits for a flight waits for one that is in the air: no error,  *)
(* cancellation or landing leaves singleflight's key to nobody, or drops   *)
(* it under a waiter.                                                      *)
NobodyStranded ==
    \A r \in Request : pc[r] = "wait" =>
       \E q \in Request : leader = q /\ pc[q] \in {"recheck", "fetch", "land"}

(* Every call of Resolve returns, even if SSM neither answers nor fails,   *)
(* the leader of its flight is cancelled or new requests keep coming: the  *)
(* deadline of magiclinkcache.go:76 ends the read.                         *)
ResolveReturns == \A r \in Request : pc[r] # "idle" ~> pc[r] = "idle"

(* What the comment on Resolve says of a store that is configured and      *)
(* answers: a caller whose own ctx is live gets the store's blob.          *)
LiveRequestServedFromStore ==
    \A r \in Request :
       pc[r] = "idle" /\ val[r] # Unread /\ ~cancelled[r] /\ config.source
          => val[r] >= FirstVersion

-----------------------------------------------------------------------------
(* The cache implements LinkFeed. *)

Offered == IF config.source THEN param ELSE config.env
Inside == {r \in Request : pc[r] # "idle"}
Given == [r \in Request |-> IF pc[r] = "idle" THEN val[r] ELSE Unread]

LF == INSTANCE LinkFeed WITH Caller <- Request, offered <- Offered,
                             served <- newest, inside <- Inside,
                             least <- floor, given <- Given

(* Hits, flights, double-checks, errors and cancellations together look to *)
(* the callers like one blob that only moves forward, and never past what  *)
(* the store (or, without one, the environment) has held.                  *)
ImplementsLinkFeed == LF!Spec

=============================================================================
