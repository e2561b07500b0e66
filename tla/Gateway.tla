------------------------------ MODULE Gateway -------------------------------
(***************************************************************************)
(* A request through API Gateway (terraform/gateway.tf, authorizer.tf):    *)
(* the routes, the api-key authorizer (internal/authorizer) with the       *)
(* gateway's cache of its answers, and the proxy Lambda                    *)
(* (internal/proxy: HandleRequest, Handle and the handlers) with its calls *)
(* of Twitch and of the magic-link cache.                                  *)
(*                                                                         *)
(* Lambda serves every request from an environment of its own, so requests *)
(* meet only in the gateway's cache and in the deployed API_KEY.  A        *)
(* request is at a place where it waits for someone, or where the gateway  *)
(* or a handler has yet to decide; time stands still for the latter.       *)
(***************************************************************************)
EXTENDS Integers

CONSTANTS Request,       \* the requests clients send, each once
          Key,           \* values of the x-api-key header
          NoKey,         \* no header; or API_KEY unset
          Traffic,       \* bound: the routes clients call
          Deployed,      \* bound: the environments the proxy is deployed with
          AuthTTL,       \* authorizer_result_ttl_in_seconds
          AuthTimeout,   \* timeout of the authorizer Lambda
          TwitchTimeout, \* TwitchTimeout of the Proxy config
          FetchTimeout,  \* magicFetchTimeout
          FlushTimeout,  \* sentryFlushTimeout
          LambdaTimeout, \* timeout of the proxy Lambda
          MaxTime        \* bound: no request arrives at or after this instant

Protected == {"GET /api/token", "POST /api/refresh-token"}
Page == {"GET /api/proxy", "GET /api/pending", "GET /api/healthcheck",
         "HEAD /api/healthcheck", "GET /api/version"}
Route == Protected \cup Page \cup {"GET /api/magic"}

(* The ?key of /api/magic, or the ?token of /api/refresh-token. *)
Param == {"none", "wrong", "right"}

Call == [route : Route \cup {"other"}, key : Key \cup {NoKey}, param : Param]

(* The calls that differ in what the gateway or their handler looks at. *)
Calls == {c \in Call :
            /\ c.route \in Traffic
            /\ c.route \notin Protected => c.key = NoKey
            /\ c.route = "POST /api/refresh-token" => c.param # "wrong"
            /\ c.route \notin {"GET /api/magic", "POST /api/refresh-token"}
                 => c.param = "none"}

(* Whether TWITCH_CLIENT_ID and _SECRET, MAGIC_LINK_SSM_PARAM,             *)
(* MAGIC_LINK_BLOB and MAGIC_LINK_API_KEY are set (the blob, to one that   *)
(* parses), and whether the AWS configuration loads.                       *)
Environment == [twitch : BOOLEAN, param : BOOLEAN, aws : BOOLEAN,
                blob : BOOLEAN, key : BOOLEAN]

ASSUME DeployedAssumption == Deployed \subseteq Environment
ASSUME KeyAssumption == NoKey \notin Key
ASSUME AuthAssumption == AuthTTL \in Nat \ {0} /\ AuthTimeout \in Nat
ASSUME TimeoutAssumption == /\ TwitchTimeout \in Nat
                            /\ FetchTimeout \in Nat
                            /\ FlushTimeout \in Nat
                            /\ LambdaTimeout \in Nat
ASSUME MaxTimeAssumption == MaxTime \in Nat

VARIABLES
    config,    \* [ready, gate, source, env] of the deployed proxy
    apiKey,    \* API_KEY of the deployed authorizer, NoKey if unset
    authCache, \* the gateway's [allow, exp] for each key
    now,       \* the clock
    pc,        \* where each request is
    call,      \* what each request asks for
    seen,      \* API_KEY of the authorizer invocation the request waits for
    start,     \* when the request's proxy invocation began
    timer,     \* when the request's present wait began
    status,    \* status of the response, 0 before there is one
    changedAt  \* history: when a key last became or ceased to be API_KEY

deployed == <<config, apiKey, changedAt>>
request == <<pc, call, seen, start, timer, status>>
vars == <<deployed, authCache, now, request>>

Deciding == {"authorize", "denied", "admitted"}
Running == {"twitch", "resolve", "flush"}
Location == {"unsent", "authorizing", "done"} \cup Deciding \cup Running

NoEntry == [allow |-> FALSE, exp |-> 0]
Unsent == [route |-> "other", key |-> NoKey, param |-> "none"]

-----------------------------------------------------------------------------

(* LoadEnv and NewHandler, for the environment e of a cold start. *)
NewHandler(e) ==
    [ready  |-> e.twitch /\ (e.param /\ ~e.aws => e.blob),
     gate   |-> e.key,
     source |-> e.param /\ e.aws,
     env    |-> e.blob]

Init == /\ config \in {NewHandler(e) : e \in Deployed}
        /\ apiKey \in Key \cup {NoKey}
        /\ authCache = [k \in Key |-> NoEntry]
        /\ now = 0
        /\ pc = [r \in Request |-> "unsent"]
        /\ call = [r \in Request |-> Unsent]
        /\ seen = [r \in Request |-> NoKey]
        /\ start = [r \in Request |-> 0]
        /\ timer = [r \in Request |-> 0]
        /\ status = [r \in Request |-> 0]
        /\ changedAt = [k \in Key |-> 0]

(* The request moves on; l is where it waits or decides next. *)
Goto(r, l) == pc' = [pc EXCEPT ![r] = l] /\ timer' = [timer EXCEPT ![r] = now]

(* The client gets status s; the rest of the request is forgotten. *)
Answer(r, s) == /\ pc' = [pc EXCEPT ![r] = "done"]
                /\ status' = [status EXCEPT ![r] = s]
                /\ call' = [call EXCEPT ![r] = Unsent]
                /\ seen' = [seen EXCEPT ![r] = NoKey]
                /\ start' = [start EXCEPT ![r] = 0]
                /\ timer' = [timer EXCEPT ![r] = 0]

-----------------------------------------------------------------------------
(* The gateway and its authorizer. *)

(* A route without an authorizer is admitted at once. *)
Arrive(r, c) ==
    /\ pc[r] = "unsent"
    /\ now < MaxTime
    /\ Goto(r, IF c.route \in Protected THEN "authorize" ELSE "admitted")
    /\ call' = [call EXCEPT ![r] = c]
    /\ UNCHANGED <<deployed, authCache, now, seen, start, status>>

(* The gateway has no such route. *)
NoRoute(r) ==
    /\ pc[r] = "admitted" /\ call[r].route = "other"
    /\ Answer(r, 404)
    /\ UNCHANGED <<deployed, authCache, now>>

(* identity_sources: without the header the authorizer is not asked. *)
MissingKey(r) ==
    /\ pc[r] = "authorize" /\ call[r].key = NoKey
    /\ Answer(r, 401)
    /\ UNCHANGED <<deployed, authCache, now>>

Cached(k) == k \in Key /\ now < authCache[k].exp

CachedAnswer(r) ==
    /\ pc[r] = "authorize" /\ Cached(call[r].key)
    /\ Goto(r, IF authCache[call[r].key].allow THEN "admitted" ELSE "denied")
    /\ UNCHANGED <<deployed, authCache, now, call, seen, start, status>>

InvokeAuthorizer(r) ==
    /\ pc[r] = "authorize" /\ call[r].key # NoKey /\ ~Cached(call[r].key)
    /\ Goto(r, "authorizing")
    /\ seen' = [seen EXCEPT ![r] = apiKey]
    /\ UNCHANGED <<deployed, authCache, now, call, start, status>>

(* Mutant of Allows: hasKey is forgotten, an unset key compares nothing. *)
AllowsWhenUnset(expected, provided) == expected \in {NoKey, provided}

(* HandleRequest of an authorizer deployed with API_KEY = expected. *)
Allows(expected, provided) == expected # NoKey /\ provided = expected

AuthorizerAnswers(r) ==
    LET k == call[r].key
        allow == Allows(seen[r], k)
    IN /\ pc[r] = "authorizing"
       /\ authCache' =
              [authCache EXCEPT ![k] = [allow |-> allow, exp |-> now + AuthTTL]]
       /\ Goto(r, IF allow THEN "admitted" ELSE "denied")
       /\ UNCHANGED <<deployed, now, call, seen, start, status>>

(* Killed, timed out or throttled: no answer, so nothing to cache. *)
AuthorizerFails(r) ==
    /\ pc[r] = "authorizing"
    /\ Answer(r, 500)
    /\ UNCHANGED <<deployed, authCache, now>>

(* Mutant of Forbid: a denial sends the request to the authorizer again. *)
ForbidAsksAgain(r) ==
    /\ pc[r] = "denied"
    /\ Goto(r, "authorize")
    /\ UNCHANGED <<deployed, authCache, now, call, seen, start, status>>

Forbid(r) ==
    /\ pc[r] = "denied"
    /\ Answer(r, 403)
    /\ UNCHANGED <<deployed, authCache, now>>

-----------------------------------------------------------------------------
(* The proxy. *)

(* NewHandler failed and the process has exited. *)
ColdStartFails(r) ==
    /\ pc[r] = "admitted" /\ call[r].route # "other" /\ ~config.ready
    /\ Answer(r, 500)
    /\ UNCHANGED <<deployed, authCache, now>>

(* HandleRequest calls Handle: l is the first wait of the handler. *)
Begin(r, l) ==
    /\ pc[r] = "admitted" /\ call[r].route # "other" /\ config.ready
    /\ Goto(r, l)
    /\ start' = [start EXCEPT ![r] = now]

(* The Response is made; the deferred Flush is the last wait. *)
Respond(r, s) == status' = [status EXCEPT ![r] = s]

(* The key gate of handleMagic. *)
GateOpen(c) == config.gate /\ c.param = "right"

(* handlePending, handleProxy, handleHealth and handleVersion; a refresh   *)
(* without a token; the gate of handleMagic shut.                          *)
Immediate(c) ==
    {s \in {200, 400, 404} :
        \/ s = 200 /\ c.route \in Page
        \/ s = 400 /\ c.route = "POST /api/refresh-token" /\ c.param = "none"
        \/ s = 404 /\ c.route = "GET /api/magic" /\ ~GateOpen(c)}

RespondAtOnce(r) ==
    /\ Begin(r, "flush")
    /\ \E s \in Immediate(call[r]) : Respond(r, s)
    /\ UNCHANGED <<deployed, authCache, now, call, seen>>

(* DefaultToken, RefreshToken. *)
CallTwitch(r) ==
    /\ call[r].route \in Protected /\ Immediate(call[r]) = {}
    /\ Begin(r, "twitch")
    /\ UNCHANGED <<deployed, authCache, now, call, seen, status>>

TwitchAnswers(r) ==
    /\ pc[r] = "twitch"
    /\ Goto(r, "flush") /\ Respond(r, 200)
    /\ UNCHANGED <<deployed, authCache, now, call, seen, start>>

(* Any error of postForm, its client's timeout included: one attempt. *)
TwitchFails(r) ==
    /\ pc[r] = "twitch"
    /\ Goto(r, "flush") /\ Respond(r, 502)
    /\ UNCHANGED <<deployed, authCache, now, call, seen, start>>

ResolveMagic(r) ==
    /\ call[r].route = "GET /api/magic" /\ GateOpen(call[r])
    /\ Begin(r, "resolve")
    /\ UNCHANGED <<deployed, authCache, now, call, seen, status>>

(* Mutant of MagicResolved: nil is answered with a Response not filled in. *)
MagicResolvedUnset(r) ==
    /\ pc[r] = "resolve"
    /\ Goto(r, "flush")
    /\ status' = [status EXCEPT ![r] = IF config.env THEN 200 ELSE 204]
    /\ UNCHANGED <<deployed, authCache, now, call, seen, start>>

(* Resolve returns nil only if there is no env blob to fall back to. *)
MagicResolved(r) ==
    /\ pc[r] = "resolve"
    /\ Goto(r, "flush")
    /\ \/ (config.source \/ config.env) /\ Respond(r, 200)
       \/ ~config.env /\ Respond(r, 404)
    /\ UNCHANGED <<deployed, authCache, now, call, seen, start>>

(* The response leaves once Sentry is flushed. *)
Flushed(r) ==
    /\ pc[r] = "flush"
    /\ Answer(r, status[r])
    /\ UNCHANGED <<deployed, authCache, now>>

(* A panic, or Lambda stopping the invocation. *)
InvocationFails(r) ==
    /\ pc[r] \in Running
    /\ Answer(r, 500)
    /\ UNCHANGED <<deployed, authCache, now>>

-----------------------------------------------------------------------------

(* A deploy replaces API_KEY, and with it the authorizer's processes. *)
RotateKey(k) ==
    /\ now < MaxTime
    /\ k # apiKey
    /\ apiKey' = k
    /\ changedAt' = [x \in Key |->
                       IF x \in {k, apiKey} THEN now ELSE changedAt[x]]
    /\ UNCHANGED <<config, authCache, now, request>>

(* Mutant of Limit: Sentry is flushed for the two seconds magic-keepalive  *)
(* allows itself.                                                          *)
LimitTwoSecondFlush(l) == CASE l = "authorizing" -> AuthTimeout
                            [] l = "twitch" -> TwitchTimeout
                            [] l = "resolve" -> FetchTimeout
                            [] l = "flush" -> 2 * FlushTimeout

(* How long each wait may last. *)
Limit(l) == CASE l = "authorizing" -> AuthTimeout
              [] l = "twitch" -> TwitchTimeout
              [] l = "resolve" -> FetchTimeout
              [] l = "flush" -> FlushTimeout

Waiting(r) == pc[r] \in Running \cup {"authorizing"}

(* Time passes while no limit is reached; the gateway drops what expires. *)
Tick ==
    /\ \A r \in Request :
            /\ pc[r] \notin Deciding
            /\ Waiting(r) => now < timer[r] + Limit(pc[r])
    /\ now < MaxTime \/ \E r \in Request : Waiting(r)
    /\ now' = now + 1
    /\ authCache' = [k \in Key |->
                       IF now + 1 < authCache[k].exp THEN authCache[k]
                       ELSE NoEntry]
    /\ UNCHANGED <<deployed, request>>

Decide(r) == \/ NoRoute(r)
             \/ MissingKey(r)
             \/ CachedAnswer(r)
             \/ InvokeAuthorizer(r)
             \/ AuthorizerAnswers(r)
             \/ AuthorizerFails(r)
             \/ Forbid(r)

Serve(r) == \/ ColdStartFails(r)
            \/ RespondAtOnce(r)
            \/ CallTwitch(r)
            \/ TwitchAnswers(r)
            \/ TwitchFails(r)
            \/ ResolveMagic(r)
            \/ MagicResolved(r)
            \/ Flushed(r)
            \/ InvocationFails(r)

Next == \/ \E r \in Request : \/ \E c \in Calls : Arrive(r, c)
                             \/ Decide(r)
                             \/ Serve(r)
        \/ \E k \in Key \cup {NoKey} : RotateKey(k)
        \/ Tick

Spec == Init /\ [][Next]_vars

(* The gateway goes on with every request; every wait has a limit.  Time   *)
(* need not be fair: whoever is waited for may answer at any instant, and  *)
(* at the limit must.                                                      *)
Fairness == \A r \in Request : WF_vars(Decide(r) \/ Serve(r))

FairSpec == Spec /\ Fairness

-----------------------------------------------------------------------------

(* Every variable has its type; a response has one of the statuses the     *)
(* gateway and the handlers answer with.                                   *)
TypeOK == /\ config \in [ready : BOOLEAN, gate : BOOLEAN, source : BOOLEAN,
                          env : BOOLEAN]
          /\ apiKey \in Key \cup {NoKey}
          /\ authCache \in [Key -> [allow : BOOLEAN, exp : Nat]]
          /\ now \in Nat
          /\ pc \in [Request -> Location]
          /\ call \in [Request -> Call]
          /\ seen \in [Request -> Key \cup {NoKey}]
          /\ start \in [Request -> Nat]
          /\ timer \in [Request -> Nat]
          /\ status \in [Request -> {0, 200, 400, 401, 403, 404, 500, 502}]
          /\ changedAt \in [Key -> Nat]

(* Whoever passes or fails the authorizer does so by the API_KEY that is   *)
(* deployed, except within one authorizer run and one                      *)
(* authorizer_result_ttl_in_seconds of a change of that key: a revoked key *)
(* admits nobody, and a new key is refused nobody, for longer than that,   *)
(* though answers are cached by key across routes and requests.            *)
DecisionFollowsKey ==
    \A r \in Request :
        pc[r] \in {"admitted", "denied"} /\ call[r].route \in Protected =>
            \/ pc[r] = "admitted" <=> call[r].key = apiKey
            \/ now < changedAt[call[r].key] + AuthTimeout + AuthTTL

(* "under the lambda's 10s timeout" (config.go:14): with the durations of  *)
(* the code, which the .cfg gives in seconds, an invocation's waits, one   *)
(* after the other, end before Lambda would stop it, so a slow Twitch is   *)
(* answered with a 502 and its report is flushed.                          *)
AnsweredInTime ==
    \A r \in Request : pc[r] \in Running => now < start[r] + LambdaTimeout

(* Every request is answered, though the authorizer, Twitch or SSM may     *)
(* not answer, invocations may die and keys may be rotated meanwhile: time *)
(* and again nobody is kept waiting (a request is sent once, so for the    *)
(* finitely many there are this says that each is answered).               *)
EveryCallAnswered ==
    []<>(\A r \in Request : pc[r] \in {"unsent", "done"})

=============================================================================
