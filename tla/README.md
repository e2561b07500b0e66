# foam-proxy in TLA+

foam-proxy is a small Go service on AWS: an API Gateway in front of a proxy
Lambda that exchanges Twitch tokens for a mobile app, and three smaller Lambdas
around it. Its one piece of durable state is the *magic-link blob*, a pair of
Twitch tokens in one SSM parameter with which Apple's App Review signs in. A
Twitch refresh token can be used once, so whoever uses it must store its
successor. Most of what is hard in this code is about that.

This directory holds TLA+ models of the service, the configurations with which
TLC checks them, and proofs that TLAPS checks.

    tlc -workers 2 -config MagicCache.cfg MCMagicCache.tla
    tlapm MagicCacheProofs.tla

## The system

| Component | Code | State | Operations |
|---|---|---|---|
| Magic-link cache | `internal/proxy/magiclinkcache.go` | per process: cached blob, its expiry, the singleflight in progress | `Resolve`, `fresh`, `load` |
| Blob store | `internal/magiclink/store.go` | the SSM parameter | `Get`, `Put`, each with three attempts |
| Magic-link keepalive | `cmd/magic-keepalive`, `internal/magickeepalive` | none of its own; the blob in SSM, the token at Twitch, the Sentry cron monitor | `handle`, `Refresh` |
| Proxy | `cmd/proxy`, `internal/proxy` | the configuration and the cache above | `HandleRequest`, `Handle`, one handler per route |
| Twitch client | `internal/proxy/services/twitch.go` | none | `DefaultToken`, `RefreshToken`, one attempt of at most 8 s |
| Authorizer | `cmd/authorizer`, `internal/authorizer`, `terraform/authorizer.tf` | `API_KEY`; the gateway's cache of its answers | `HandleRequest` |
| Alarm notifier | `cmd/alarm-notifier`, `internal/alarmnotifier` | none; Lambda's retries | `HandleSNS`, `Notify`, one goroutine per channel |
| Rollout | `terraform/`, `.github/workflows/deploy-production.yml`, `scripts/setup-magic-link.sh` | the deployed resources, the GitHub secret, the flag | push, dispatch, plan, apply, mint, teardown |
| Observability | `internal/config`, Sentry and CloudWatch | none that the service reads | captures, check-ins, flush |

How they interact:

- Clients call the gateway; `/api/token` and `/api/refresh-token` go through
  the authorizer, whose answer the gateway caches by key for 30 s.
- The proxy calls Twitch, or the cache; the cache reads SSM.
- EventBridge fires the keepalive (every 3 hours); it reads SSM, rotates at
  Twitch, writes SSM. It and the proxy share nothing but the parameter, and the
  refresh token in it: `/api/magic` hands it to the app, and the app may use it
  up through `/api/refresh-token`.
- CloudWatch alarms reach the notifier through SNS, which posts to Discord and
  Telegram.
- A deploy switches the parameter, the policies, the keepalive's schedule and
  its guard, and replaces the proxy's processes.

What is hard:

- *Concurrency*: goroutines that miss the cache at once share one read under
  the first one's context; the notifier's goroutines; the authorizer's cache
  shared by all requests; a deploy while the keepalive runs.
- *Failure between two steps*: the token is rotated at Twitch and then stored;
  Lambda may stop the invocation between, and retries what failed.
- *Ambiguous failure*: a `PutParameter`, a POST or a refresh that failed for
  the client may have been applied.
- *Staleness*: cached blobs, cached authorizer answers, a secret that is the
  token as it once was.
- *Timeouts* inside one another: Twitch 8 s, SSM 1.5 s, flush 250 ms, Lambda 10 s.

`PROJECT.json` lists each hazard with its line and the properties about it.

What makes each component correct:

- *Cache*: one read for many misses, none while fresh; no caller sees the blob
  go back; staleness is bounded; a caller that leaves does not change what the
  others get later; every call returns.
- *Store*: a `Get` returns what the parameter held during the call; a `Put`
  that returns nil has written, and none writes after it has returned; a call
  whose context is done ends.
- *Keepalive*: a green monitor means a live token; an event rotates a login
  once, unless an invocation was killed after its rotation and before its
  return; no write replaces a live token by a dead one; every event settles.
- *Keepalive, cache and app together*: a dead token is served only for a reason
  the monitor, the clock or the app can name; a manual update is not undone.
- *Gateway, authorizer, proxy*: a decision follows the deployed key within a
  bound; every call is answered; no invocation is still waiting when Lambda
  would stop it.
- *Notifier*: a success means every alarm was delivered; a record or a channel
  that fails costs the others nothing; a partial failure is not sent again.
- *Rollout*: pushes keep the link on; off means SSM is left alone; no deploy
  reverts a rotated token; a removed link stays removed.

## The modules

    Register    <-- refined by --  Store        MCStore          StoreProofs
    TokenChain  <-- refined by --  Keepalive                     TokenChainProofs
                                       |  EXTENDS
                                       +-- KeepaliveHistory
                                       |        MCKeepalive      KeepaliveProofs
                                       |  INSTANCE
                                   LinkSystem   MCLinkSystem     LinkSystemProofs
                                       |  EXTENDS
    LinkFeed    <-- refined by --  MagicCache   MCMagicCache     MagicCacheProofs
    Courier     <-- refined by --  AlarmNotifier MCAlarmNotifier AlarmNotifierProofs
                                   Gateway      MCGateway        GatewayProofs
                                   Rollout      MCRollout        RolloutProofs

A component's module has its variables, one action per step, its specification
and its properties, and the mutants of its actions, each just before the
definition it is a mutant of: what a plausible bug in that code would be. `MC`
modules name the small sets of an instance. `map` in `PROJECT.json` gives the
lines of code of every definition.

### MagicCache and LinkFeed

One proxy process and the goroutines inside `Resolve`. A goroutine is at a
place between two lock operations: `resolve` (about to test `fresh`), `join`
(about to enter singleflight's `Do`), `recheck` (leading, about to test `fresh`
again), `fetch` (SSM has been asked), `land` (about to return from the flight),
`wait` and `wake` (a follower). The bodies under the mutex are single actions.

`StoreAnswer` is SSM reading the parameter and `LoadOk` the client getting the
answer, so that a blob can be rotated while it is on its way. `GetFails` says
when `Get` may return an error: the leader's context is done, the 1.5 s deadline
has passed, or SSM failed three times. Blobs are numbered by age: 0 is `nil`, 1
the env blob, 2 and up what SSM has held. Time is a counter; 0 is Go's zero
time, which `fresh` tests for.

`LinkFeed` is what the callers may rely on without knowing of caches or flights:
a call returns a blob that SSM (or, without a store, the environment) had by
then, and none older than what any call had returned when it began. `MagicCache`
implements it: `Offer` is `WriteParam`, `Call` is `Arrive`, `Give` is a call's
`Return`, and everything between is invisible.

### Store and Register

Two or more callers of `Get` and `Put`. A client is `idle`, has an attempt
under way (`sent`), or is between two (`wait`, in `waitBackoff`; `again`, when
the delay drawn was zero and the context is not looked at). `ServeGet` and
`ServePut` are SSM dealing with the request; `AttemptOk` and `AttemptFails` are
the client learning of it or not, so an attempt may have been applied and still
fail. `GivesUp` is the order of tests in `withRetry`: not retryable, or the last
attempt, or `ctx.Err()`. `Cancel` may come at any step; `Delete` is Terraform.

`Register` is what a caller may rely on without knowing of attempts: a `Put`
takes effect any number of times during the call (up to the limit), at least
once when it succeeds; a `Get` returns what the register held during the call.
`Store` implements it.

In `MagicCache` and `Keepalive` the store's calls are coarser: each keeps of the
retries what its own properties depend on (how a read ends, how often a write
may land).

### Keepalive and TokenChain

Scheduled events, their deliveries by Lambda (up to three), and each
invocation's three calls: `Get`, Twitch, `Put`. `RefreshOk` and
`RefreshUnusable` differ in whether an answer with both tokens comes back after
Twitch has rotated; `RefreshFails` is a refusal, or a request that did not
arrive. `PutRetry` and `PutGiveUp` may or may not have written. `Finish` and
`PutGiveUp` close the check-in, and only `Return`, after the flush of up to two
seconds, tells Lambda that the event is done. `Crash` is Lambda's timeout, at
any place of an invocation, that flush included: the event goes back to Lambda
whatever the invocation had done. `Mint` is the operator overwriting the
parameter and `Toggle` a deploy with the flag flipped.

`TokenChain` is what the keepalive promises, in terms of one chain of custody
(`kept`, `moving`, `lost`) and the monitor's last status. `Keepalive`
implements it under the mapping in `Chain` when events do not overlap.

`KeepaliveHistory` records beside `Keepalive`'s steps which login a token
descends from, which logins an event has rotated (`spent`), and which of those
an invocation had rotated that was then killed (`killed`). It states what the
code's `ErrTokenRotated` is for: an event does not rotate a login twice
(`RotatesOnce`). The kills are in the statement and not in the model: an
invocation killed during its last write, or between its check-in and its return,
has its event delivered again, and if the write had landed the retry rotates the
same login once more: no token is lost by it, but a rotated token alone does not
stop the retries, as `main.go:64-66` might be read.

### LinkSystem

`MagicCache` and `Keepalive` around the one parameter, and the app. The cache
knows the parameter as a version, the keepalive as a refresh token; `tokenOf`
relates them, and `Share` makes every write of the keepalive or the operator the
cache's next version. `SignIn` is `/api/magic` handing the app the blob that
`Resolve` returned; `Redeem` is the app using its token through
`/api/refresh-token`, which rotates it at Twitch and tells only the app.
`login`, `minted` and `quiet` record which manual login a token descends from.
The flag stays on (what `Toggle` does is in `Keepalive`), events do not overlap,
and the proxy has no blob in its environment, as Terraform deploys it
(`lambda.tf:117`).

### AlarmNotifier and Courier

One SNS event: its records, Lambda's attempts, the loop of `HandleSNS`, a
goroutine per configured channel in `Notify`, the join at `wg.Wait`. A POST may
be acknowledged, fail, or arrive without its acknowledgement. `Kill` is the
30 s timeout. `acked`, `tried`, `heard` and `kills` are history: what was
acknowledged ever and in this invocation, what was tried, and how many
invocations were killed.

`Courier` is the event seen from outside. It goes round at most as often as
Lambda delivers it; a round that is not cut short ends well exactly when every
alarm was heard in that round and every record could be read, and otherwise goes
back or is given up; no address has more copies of an alarm than there were
rounds. `AlarmNotifier` implements it, with `Return` as the verdict. It says at
once why a partial failure must not fail the invocation and why a record's
failure must. `SuccessMeansDelivered` follows from it, so it is proved and has
no place in a run of its own.

### Gateway

Requests from arrival to answer: route, authorizer (or the gateway's cache of
it), cold start, handler, wait for Twitch or for the cache, deferred flush. A
Lambda environment serves one request at a time, so requests share only the
gateway's cache and the deployed `API_KEY`. The proxy's call of `Resolve` is
one wait of at most `magicFetchTimeout`; `MagicCache` is what happens in it.

### Rollout

The production workflow. `Deploy` evaluates the flag, checks the precondition
of the plan and computes what is to change; then `SeedParam`, `DestroyParam`,
`ApplyGated` and `ReplaceProxy` apply the resources one by one, in any order,
and `Abort` stops an apply wherever it is. Meanwhile the keepalive runs, its
steps those of `Keepalive` with only what matters here (a policy it needs, a
guard it reads, a token it holds), the operator stores or deletes the secret or
runs `teardown`, and requests fill a proxy's cache. A token is its mint and how
often it has been rotated since.

## The runs

| Run | Instance | Shows |
|---|---|---|
| `cache` | 2 callers, all faults, 3 versions, TTL 2, error TTL 1, fetch 1, time to 4 | the cache's safety properties, that it implements `LinkFeed`, and that every `Resolve` returns |
| `cache_follower` | 2 callers, a faultless SSM | **violation**: a follower gets the cancelled leader's fallback |
| `keepalive_serial` | 2 events, 3 deliveries, 3 writes, kills, re-mints, toggles | the keepalive's properties, and that it implements `TokenChain` |
| `keepalive_omitted` | an answer without a refresh token | **violation**: the event is delivered again after a rotation |
| `store` | 2 clients, 2 blobs, 3 attempts, contexts done at any step | the store's bounds, that it implements `Register`, and that cancelled calls return |
| `link_system` | 2 events of one delivery and one write each, kills, tokens to 3, 1 reader, TTL 1, time to 3 | why a dead token may be served, that "ok" is honest, that a manual update lasts, and that only a mint mends a lost login |
| `alarm_delivery` | up to 2 records of each kind, 2 channels, 3 attempts, kills | the notifier's properties, and that it implements `Courier` |
| `alarm_resend` | the same, without kills | **violation**: an acknowledged alarm is sent again |
| `gateway` | 2 requests, 2 keys, a route of each kind, authorizer 1, TTL 1; in seconds Twitch 8, fetch 2, flush 1, Lambda 10; arrivals and rotations before 3 | decisions follow the key, invocations end in time, every call is answered |
| `rollout` | 2 mints, 2 rotations, 3 deploys | the rollout's properties |
| `rollout_reseed` | the same | **violation**: a re-deploy leaves the old mint's token in SSM |
| `rollout_teardown` | the same | **violation**: a blob is left in SSM after a deploy with the flag off |

Why the bounds are enough. Two callers that call again and again take every
part there is in turn: a leader with a follower of its flight, and a caller
that a whole flight of the other overtakes between `fresh` and `Do`; the
theorems hold for any number. Three versions allow a blob that has been
replaced while it is read. Two events are the fewest that can follow or
overtake one another, and the third delivery and the third write are the code's
own limits. Two records are the fewest in which one can drag the other into a
retry; the two channels are all there are. Two requests are the fewest of which
one can leave a cached answer for the other; the two keys are the old and the
new one. Three deploys allow on, off and on again, and two mints an old and a
new login. The cache's durations keep the order the code gives them (error TTL
< TTL), and its theorems hold for all. The waits of an invocation in `gateway`
are the code's in whole seconds, the fetch's 1.5 s and the flush's 250 ms
rounded up, so that a longer one breaks `AnsweredInTime`; the authorizer's
timeout and its TTL (10 s and 30 s) are one unit each, as `DecisionFollowsKey`
compares them with nothing else. Two clients are the fewest whose writes and
reads can interleave in the store, and three attempts the code's own. In
`link_system` two events give a rotation before and after a redemption or a
mint, three tokens the seed and two successors; retries within a delivery or a
write, which `keepalive_serial` exercises, are cut there to keep the product
small, and its theorems do not have that bound.

Symmetry is used for callers and for events in runs without liveness.
`CHECK_DEADLOCK FALSE` stands where the instance stops: the clock at `MaxTime`
(cache, gateway), an event that has settled (notifier), no mints and deploys
left (rollout), clock and tokens at their bounds (`link_system`). The
keepalive's runs check deadlock: `Toggle` is always possible there, and what
must not stop is `EventSettles`.

### Disagreements between the code and its documentation

- `cache_follower`: a live request that joins the flight of a leader whose
  context is cancelled is given the leader's fallback, the env blob or `nil`,
  although SSM answers. The next call reads SSM again.
- `keepalive_omitted`: `main.go:64-66` means a rotated token never to be
  refreshed again; an answer that omits the refresh token has rotated it and is
  an error that Lambda retries.
- `alarm_resend`: a partial failure is swallowed so as not to send an alarm
  twice (`notify.go:89-90`), but in an event of two records the failure of one
  sends both again. SNS puts one record into an event today.
- `rollout_reseed`: `README.md:68` of the repository says to overwrite the
  secret and re-deploy; the parameter ignores the secret while it exists.
- `rollout_teardown`: the repository says that with the flag off the blob is
  torn down (`variables.tf:102`, `README.md:70`). An invocation that has rotated
  the token writes it after Terraform has destroyed the parameter and before it
  has removed the keepalive's policy; `Put` creates what is not there. The blob
  stays, with a live token, where Terraform does not know of it.

A limit that no document denies, and that the theorems therefore assume away:
`PutParameter` is retried after a failure that may have been applied, so when
two events are in flight a delayed retry replaces what the other one wrote. With
`Overlap = TRUE` TLC finds `NeverClobbersLive` violated in a few steps. Nothing
reserves the function's concurrency, and Lambda may hold an event for up to six
hours, where the next fires after three.

## Fairness

- *Cache* (`ResolveReturns`): weak fairness of the clock and of each
  goroutine's own next step, which while it reads SSM is fair only once its
  context is done (`Prompt`): cancelled, or past the deadline of `load`. SSM
  need neither answer nor fail, though it may do both; what ends a read is
  `magicFetchTimeout`. With the deadline taken out of `FetchCtxDone` the
  property is violated, and that is its mutant.
- *Keepalive* (`EventSettles`): weak fairness of each event's next step,
  `Return` among them. Lambda delivers what it has queued, and every call in an
  invocation ends by an answer, an error or its own timeout; each of these is a
  step, so no answer is favoured. `Crash`, `Mint`, `Toggle` and `Fire` are not
  fair.
- *Store* (`CancelledReturns`): weak fairness of `Retry`, a backoff's timer or
  its context, and of the end of an attempt whose context is done, as the SDK
  abandons its request. Nothing makes SSM answer a call that is not cancelled,
  and the property does not ask it.
- *Notifier* (`EventSettles`): weak fairness of the next step; a POST ends
  within 5 s. `Kill` is not fair.
- *Gateway* (`EveryCallAnswered`): weak fairness of each request's next step.
  A wait is over by an answer or by its limit; time itself need not be fair.

## What is proved

Every theorem is for any number of callers, events, records, requests, keys,
mints and deploys, and for any durations, within the assumptions below. None of
the safety invariants is inductive as it stands; what each needs:

- **MagicCacheProofs** (`Coalescing`, `FetchOnlyWhenStale`, `Monotonic`,
  `BoundedStaleness`, `NeverPoisoned`, `NoRegress`, `TypeCorrect`). The
  invariant says that the flight's key is held by exactly the goroutine that
  runs it (`FlightOK`), so that while it fetches nobody else writes the cache;
  then that its answer is between the cached blob and SSM's and no older than
  the fetch (`FetchOK`), that an expiry a successful load set is within a TTL
  and a fetch of the blob's replacement (`StaleOK`), and that what anyone holds
  is at most the fallback (`MonoOK`). Two more results rest on it.
  `WaitersHaveAFlight`: while anybody waits there is a key (`WaitOK`), and by
  `FlightOK` the one who has it flies. `FeedRefinement`: a step of `Resolve`
  that answers is a `Give`, because `MonoOK` puts the answer at or above what
  the call must return and the cached blob is never ahead of SSM's; all other
  steps of a goroutine leave `LinkFeed` unchanged.
- **KeepaliveProofs** (`LoginRotatedOnce`, `HistoryAddsNothing`,
  `NoEndlessEvent` and `TypeCorrect` unconditionally; `DeadTokenIsSurfaced`,
  `LiveTokenIsKept` and `Refinement` under `~Overlap`). `LoginRotatedOnce`
  rests on two facts: of each login Twitch accepts one token at most
  (`OneLive`), and the live token of a login that an event has rotated, with no
  kill to excuse it, is neither in SSM nor in the hands of any invocation while
  that event may still rotate (`SpentOK`). An event that could come by it has
  returned. `HistoryAddsNothing` carries the invariants of `Keepalive` over.
  For the theorems under `~Overlap` the invariant says that at most one event
  is in flight, that its check-in is open while it runs (`SerialOK`), and that
  SSM's token is live until it is rotated, the rotated one is live until it is
  stored, and the stored one until the check-in is closed (`CustodyOK`). The
  assumption is needed (see above). `NoEndlessEvent` is what can be proved here
  of `EventSettles`: each step increases the event's deliveries, or its place
  in one, or its writes, and `TypeCorrect` bounds all three (`EventAdvances`,
  which no run repeats: `EventSettles` fails where it does).
- **StoreProofs** (`TypeCorrect`, `LateAttemptBounded`, `Refinement`). A client
  that waits with its context done has begun no late attempt yet, and the one
  it may begin ends the call; writes are at most the attempts begun, and an
  answer `done` means there was one (`IInv`). The refinement maps each step to
  one of `Register`'s or to none.
- **LinkSystemProofs** (`LinkTypeCorrect`, `OkIsHonest`, `MintIsKept`,
  `DeadIsExplained`, `MintIsNeeded`, `SystemFeed`). `CacheImplemented` shows
  that the composition's steps are steps of `MagicCache` or leave it alone, so
  that module's invariant holds here without being proved again. To it come
  five parts: the keepalive's types and that one event runs at a time
  (`KeepaliveOK`), what the app can hold (`HistoryOK`), that version and token
  agree (`SharedOK`), that "ok" and every token an invocation holds are live or
  redeemed (`CustodyOK`), and that SSM's and the invocation's tokens descend
  from the last manual login unless one was made under a running invocation
  (`LineageOK`). `MintIsNeeded` adds that a token about to be refreshed is the
  one SSM still holds (`HandOK`): Twitch then refuses it when SSM's is dead, so
  no invocation comes by a token to store.
- **TokenChainProofs** (`ChainReported`): what the abstract specification
  means, and the keepalive inherits: "ok" only over a kept chain.
- **AlarmNotifierProofs** (`NoSilentDrop`, `NoRecordCostsAnother`,
  `PartialIsNotResent`, `CourierRefinement`, `TypeCorrect`). An invocation
  without an error has delivered every record behind it (`ProgressOK`); a
  record has arrived at a channel at most once per attempt, and in the present
  attempt only if the loop has passed it (`PostedOK`); every record the loop
  has passed was tried (`TriedOK`); with one record, a channel that
  acknowledged it did so in this invocation, which no other follows
  (`OneRecordOK`). For the refinement, `errs` holds exactly what went amiss
  with the records behind, and a record is heard when a goroutine of it reports
  success (`HeardOK`); at the end of the loop the records behind are all, so
  the verdict is exact (`ExactVerdict`).
- **GatewayProofs** (`RevocationBounded`, `InvocationsEndInTime`,
  `TypeCorrect`). A cached answer contradicts the deployed key only until one
  authorizer run and one TTL after the change, because the authorizer that made
  it had read the key before the change (`KeyInv`); an invocation's waits begin
  no later than the earlier ones' limits allow (`TimeInv`).
- **RolloutProofs** (`PushesKeepItOn`, `NotRevived`, `UntouchedWhenOff`,
  `NeverReverted`, `TypeCorrect`). What is left to apply disagrees with the
  flag and all else agrees (`AppliedSoFar`), so a deploy that would turn on
  what is on has nothing to do with the parameter; a removed link has no secret
  and no deploy under way that is on (`RemovedIsOff`); a rotated token is
  abreast of Twitch (`TokensFollow`), so its late write cannot be a step back.

Assumptions on the constants are named in the modules and say what the code's
constants satisfy: positive TTLs, a bound of at least one attempt, and that the
value standing for "none" is none of the others. `InvocationsEndInTime` alone
assumes more, in its statement: that Twitch's (or SSM's) plus the flush's time
is below Lambda's (`Budget`).

Only model-checked: the liveness properties (`ResolveReturns`, both
`EventSettles`, `CancelledReturns`, `EveryCallAnswered`). They need fairness, and
with it `ENABLED`, which this prover does not treat; `WaitersHaveAFlight` and
`NoEndlessEvent` are the safety halves of the first two. Every invariant, every
action property and every refinement of the passing runs is proved.

## Assumptions and what is left out

- SSM reads are taken as linearizable: a read returns what the parameter held
  at some instant of the read. Without it `MonotonicReads` does not hold.
- Twitch invalidates a refresh token when it is used, which is how the
  keepalive's comments treat it.
- A proxy process is taken as concurrent in `MagicCache`, as its mutex and
  singleflight do, although a Lambda environment runs one request at a time;
  with one caller the properties hold all the more.
- SSM has dealt with a request, or never will, by the time the client's attempt
  is over: a request the client has given up does not land later. Without it a
  `Put` could take effect after it has returned an error.
- How long a backoff or a step within a wait lasts is not modelled; only the
  limits and the order are.
- The app of `LinkSystem` has one session at a time: a second sign-in replaces
  the token it held.
- In `Rollout`, an apply that is done with its last resource is done; plans are
  never stale, as the workflow's concurrency group and the state lock see to.
- Not modelled: bodies, headers, HTML, redaction, log and metric content, the
  wording of alarms, the scheme allowlist of `/api/proxy`, throttling and CORS,
  the Cloudflare rules, the staging and destroy workflows, releases.
  They are either pure formatting or configuration of third parties without a
  state that the service's own state depends on.

## Plan

In the order of what matters most. Steps 1 to 8, 10 and 12 are done.

1. `MagicCache`: what callers are given; safety, then liveness, then proofs.
2. `TokenChain` and `Keepalive`: the custody of the token, refinement, proofs.
3. `AlarmNotifier`: delivery under retries, proofs of all its safety properties.
4. `Gateway`: the path of a request; revocation, timeouts, proofs.
5. `Rollout`: deploys against the keepalive and the operator, proofs.
6. `Store` and `Register`: attempts, contexts, lost answers; refinement, proofs.
7. `LinkSystem`: keepalive, cache, operator and app; proofs.
8. `Rollout`: the parameter a late write creates while a deploy destroys it,
   against what the repository says of a teardown.
9. `LinkSystem` with two sessions and the flag toggled, and `Keepalive` and
   `MagicCache` over `Register` in place of their own coarser store.
10. `LinkFeed`, a blob that only goes forward, implemented by `MagicCache`.
11. The pure functions against reference definitions over bounded inputs:
    `backoffCeiling`, `truncate`, `sanitizeQuery`, `ResolveAppScheme`,
    `ParseMagicLink`.
12. `Courier`, delivery in rounds, implemented by `AlarmNotifier`.
