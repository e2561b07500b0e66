--------------------------- MODULE GatewayProofs ----------------------------
(***************************************************************************)
(* Theorems about Gateway: for any number of requests and keys, and any    *)
(* durations; the one about Lambda's timeout assumes Budget of them.       *)
(***************************************************************************)
EXTENDS Gateway, TLAPS

(* The limits of the waits, by name. *)
LEMMA Limits == /\ Limit("authorizing") = AuthTimeout
                /\ Limit("twitch") = TwitchTimeout
                /\ Limit("resolve") = FetchTimeout
                /\ Limit("flush") = FlushTimeout
  BY DEF Limit

(* Calls are Calls by definition: what TLC enumerates is well typed. *)
LEMMA CallsTyped == Calls \subseteq Call
  BY DEF Calls

(* A request that is not sent yet is a call as well. *)
LEMMA UnsentTyped == Unsent \in Call
  BY DEF Unsent, Call, Param

(* What a cold start leaves behind. *)
LEMMA ConfigTyped ==
  ASSUME NEW e \in Environment
  PROVE  NewHandler(e) \in [ready : BOOLEAN, gate : BOOLEAN,
                            source : BOOLEAN, env : BOOLEAN]
<1>1. e.blob \in BOOLEAN /\ e.key \in BOOLEAN
  BY DEF Environment
<1> DEFINE ready == e.twitch /\ (e.param /\ ~e.aws => e.blob)
           source == e.param /\ e.aws
<1>2. ready \in BOOLEAN /\ source \in BOOLEAN
  OBVIOUS
<1>3. NewHandler(e) = [ready |-> ready, gate |-> e.key, source |-> source,
                       env |-> e.blob]
  BY Zenon DEF NewHandler
<1> HIDE DEF ready, source
<1> QED
  BY <1>1, <1>2, <1>3

(* The steps that only end a request with a status of the gateway. *)
LEMMA AnswerTyped ==
  ASSUME TypeOK, NEW r \in Request,
         NEW s \in {0, 200, 400, 401, 403, 404, 500, 502},
         Answer(r, s), UNCHANGED <<deployed, authCache, now>>
  PROVE  TypeOK'
<1>1. "done" \in Location
  BY DEF Location
<1> HIDE DEF Location, Unsent
<1>2. /\ pc' \in [Request -> Location]
      /\ call' \in [Request -> Call]
      /\ seen' \in [Request -> Key \cup {NoKey}]
  BY <1>1, UnsentTyped DEF TypeOK, Answer
<1>3. /\ start' \in [Request -> Nat]
      /\ timer' \in [Request -> Nat]
      /\ status' \in [Request -> {0, 200, 400, 401, 403, 404, 500, 502}]
  BY DEF TypeOK, Answer
<1> QED
  BY <1>2, <1>3 DEF TypeOK, deployed

(* The steps that take a request to place l, keeping its call. *)
LEMMA GotoTyped ==
  ASSUME TypeOK, NEW r \in Request, NEW l \in Location, Goto(r, l)
  PROVE  pc' \in [Request -> Location] /\ timer' \in [Request -> Nat]
  BY DEF TypeOK, Goto

(* The gateway's and the authorizer's steps keep the types. *)
LEMMA DecideTyped ==
  ASSUME TypeOK, NEW r \in Request, Decide(r)
  PROVE  TypeOK'
<1> USE AuthAssumption
<1>1. CASE NoRoute(r)
  BY <1>1, AnswerTyped DEF NoRoute
<1>2. CASE MissingKey(r)
  BY <1>2, AnswerTyped DEF MissingKey
<1>3. CASE CachedAnswer(r)
  BY <1>3, GotoTyped DEF CachedAnswer, TypeOK, Location, Deciding, deployed
<1>4. CASE InvokeAuthorizer(r)
  BY <1>4, GotoTyped DEF InvokeAuthorizer, TypeOK, Location, deployed
<1>5. CASE AuthorizerAnswers(r)
  <2>1. pc' \in [Request -> Location] /\ timer' \in [Request -> Nat]
    BY <1>5, GotoTyped DEF AuthorizerAnswers, Location, Deciding
  <2>2. authCache' \in [Key -> [allow : BOOLEAN, exp : Nat]]
    <3> DEFINE allow == Allows(seen[r], call[r].key)
               entry == [allow |-> allow, exp |-> now + AuthTTL]
    <3>1. allow \in BOOLEAN
      BY DEF Allows
    <3>2. entry \in [allow : BOOLEAN, exp : Nat]
      <4> HIDE DEF allow
      <4> QED
        BY <3>1 DEF TypeOK
    <3>3. authCache' = [authCache EXCEPT ![call[r].key] = entry]
      BY <1>5 DEF AuthorizerAnswers
    <3> HIDE DEF entry
    <3> QED
      BY <3>2, <3>3 DEF TypeOK
  <2> QED
    BY <1>5, <2>1, <2>2 DEF AuthorizerAnswers, TypeOK, deployed
<1>6. CASE AuthorizerFails(r)
  BY <1>6, AnswerTyped DEF AuthorizerFails
<1>7. CASE Forbid(r)
  BY <1>7, AnswerTyped DEF Forbid
<1> QED
  BY <1>1, <1>2, <1>3, <1>4, <1>5, <1>6, <1>7 DEF Decide

(* So do the steps of the proxy Lambda. *)
LEMMA ServeTyped ==
  ASSUME TypeOK, NEW r \in Request, Serve(r)
  PROVE  TypeOK'
<1>1. CASE ColdStartFails(r)
  BY <1>1, AnswerTyped DEF ColdStartFails
<1>2. CASE RespondAtOnce(r)
  <2>1. PICK s \in {200, 400, 404} : Respond(r, s)
    BY <1>2 DEF RespondAtOnce, Immediate
  <2> QED
    BY <1>2, <2>1, GotoTyped DEF RespondAtOnce, Begin, Respond, TypeOK,
                                 Location, Running, deployed
<1>3. CASE CallTwitch(r)
  BY <1>3, GotoTyped DEF CallTwitch, Begin, TypeOK, Location, Running, deployed
<1>4. CASE TwitchAnswers(r)
  BY <1>4, GotoTyped DEF TwitchAnswers, Respond, TypeOK, Location, Running,
                         deployed
<1>5. CASE TwitchFails(r)
  BY <1>5, GotoTyped DEF TwitchFails, Respond, TypeOK, Location, Running,
                         deployed
<1>6. CASE ResolveMagic(r)
  BY <1>6, GotoTyped DEF ResolveMagic, Begin, TypeOK, Location, Running,
                         deployed
<1>7. CASE MagicResolved(r)
  BY <1>7, GotoTyped DEF MagicResolved, Respond, TypeOK, Location, Running,
                         deployed
<1>8. CASE Flushed(r)
  BY <1>8, AnswerTyped DEF Flushed, TypeOK
<1>9. CASE InvocationFails(r)
  BY <1>9, AnswerTyped DEF InvocationFails
<1> QED
  BY <1>1, <1>2, <1>3, <1>4, <1>5, <1>6, <1>7, <1>8, <1>9 DEF Serve

(* The stack starts well typed. *)
LEMMA InitTyped == Init => TypeOK
<1> SUFFICES ASSUME Init PROVE TypeOK
  OBVIOUS
<1>1. config \in [ready : BOOLEAN, gate : BOOLEAN, source : BOOLEAN,
                  env : BOOLEAN]
  BY ConfigTyped, DeployedAssumption DEF Init
<1>2. authCache \in [Key -> [allow : BOOLEAN, exp : Nat]]
  BY DEF Init, NoEntry
<1> QED
  BY <1>1, <1>2, UnsentTyped DEF Init, TypeOK, Location

(* Every step of the stack keeps the types. *)
LEMMA NextTyped == TypeOK /\ [Next]_vars => TypeOK'
<1> SUFFICES ASSUME TypeOK, [Next]_vars PROVE TypeOK'
  OBVIOUS
<1>1. ASSUME NEW r \in Request, NEW c \in Calls, Arrive(r, c) PROVE TypeOK'
  BY <1>1, CallsTyped, GotoTyped
     DEF Arrive, TypeOK, Location, Deciding, deployed
<1>2. ASSUME NEW r \in Request, Decide(r) PROVE TypeOK'
  BY <1>2, DecideTyped
<1>3. ASSUME NEW r \in Request, Serve(r) PROVE TypeOK'
  BY <1>3, ServeTyped
<1>4. ASSUME NEW k \in Key \cup {NoKey}, RotateKey(k) PROVE TypeOK'
  BY <1>4 DEF RotateKey, TypeOK, request
<1>5. CASE Tick
  BY <1>5 DEF Tick, TypeOK, NoEntry, deployed, request
<1>6. CASE UNCHANGED vars
  BY <1>6 DEF vars, deployed, request, TypeOK
<1> QED
  BY <1>1, <1>2, <1>3, <1>4, <1>5, <1>6 DEF Next

(* Every variable keeps its type, and every response its status, for any   *)
(* number of requests and keys.                                            *)
THEOREM TypeCorrect == Spec => []TypeOK
  BY InitTyped, NextTyped, PTL DEF Spec

-----------------------------------------------------------------------------
(* DecisionFollowsKey: why a decision may differ from the deployed key for *)
(* no longer than one authorizer run and one TTL.                          *)

(* An answer held by the gateway is right, or expires within the window.   *)
CacheFollows ==
    \A k \in Key :
      /\ authCache[k].exp <= now + AuthTTL
      /\ now < authCache[k].exp =>
           \/ authCache[k].allow <=> k = apiKey
           \/ authCache[k].exp <= changedAt[k] + AuthTimeout + AuthTTL

(* An authorizer at work has the deployed key, or was there before it.     *)
AuthorizerFollows(r) ==
    pc[r] = "authorizing" =>
        /\ call[r].key \in Key
        /\ timer[r] <= now /\ now <= timer[r] + AuthTimeout
        /\ \/ Allows(seen[r], call[r].key) <=> call[r].key = apiKey
           \/ timer[r] <= changedAt[call[r].key]

Decided(r) == pc[r] \in {"admitted", "denied"} /\ call[r].route \in Protected

DecisionFollows(r) ==
    Decided(r) =>
        /\ call[r].key \in Key
        /\ \/ pc[r] = "admitted" <=> call[r].key = apiKey
           \/ now < changedAt[call[r].key] + AuthTimeout + AuthTTL

KeyInv == /\ \A k \in Key : changedAt[k] <= now
          /\ CacheFollows
          /\ \A r \in Request : AuthorizerFollows(r) /\ DecisionFollows(r)

(* What a step of request r leaves alone. *)
OthersWait(r) ==
    /\ UNCHANGED <<deployed, now>>
    /\ \A x \in Request \ {r} : /\ pc'[x] = pc[x] /\ timer'[x] = timer[x]
                               /\ call'[x] = call[x] /\ seen'[x] = seen[x]
                               /\ start'[x] = start[x]

(* A request that has neither authorizer nor decision has nothing to keep. *)
LEMMA KeyInvKept ==
  ASSUME TypeOK, KeyInv, NEW r \in Request, OthersWait(r),
         UNCHANGED authCache, AuthorizerFollows(r)', DecisionFollows(r)'
  PROVE  KeyInv'
<1>1. \A x \in Request \ {r} : AuthorizerFollows(x)' /\ DecisionFollows(x)'
  BY DEF KeyInv, OthersWait, AuthorizerFollows, DecisionFollows, Decided,
         deployed
<1>2. CacheFollows'
  BY DEF KeyInv, CacheFollows, OthersWait, deployed
<1> QED
  BY <1>1, <1>2 DEF KeyInv, OthersWait, deployed

(* A request that is served or answered leaves the others alone. *)
LEMMA AnswerLocal ==
  ASSUME TypeOK, NEW r \in Request, NEW s, Answer(r, s),
         UNCHANGED <<deployed, authCache, now>>
  PROVE  OthersWait(r) /\ pc'[r] = "done" /\ UNCHANGED authCache
  BY DEF TypeOK, Answer, OthersWait

(* A step of the proxy touches one request, and no decision. *)
LEMMA ServeLocal ==
  ASSUME TypeOK, NEW r \in Request, Serve(r)
  PROVE  /\ OthersWait(r)
         /\ UNCHANGED authCache
         /\ pc'[r] \in Running \cup {"done"}
<1> USE DEF OthersWait, Running
<1>1. CASE ColdStartFails(r)
  BY <1>1, AnswerLocal DEF ColdStartFails
<1>2. CASE RespondAtOnce(r)
  BY <1>2 DEF RespondAtOnce, Begin, Goto, TypeOK
<1>3. CASE CallTwitch(r)
  BY <1>3 DEF CallTwitch, Begin, Goto, TypeOK
<1>4. CASE TwitchAnswers(r)
  BY <1>4 DEF TwitchAnswers, Goto, TypeOK
<1>5. CASE TwitchFails(r)
  BY <1>5 DEF TwitchFails, Goto, TypeOK
<1>6. CASE ResolveMagic(r)
  <2>1. Begin(r, "resolve") /\ UNCHANGED <<deployed, authCache, now, call, seen>>
    BY <1>6, Zenon DEF ResolveMagic
  <2> QED
    BY <2>1 DEF Begin, Goto, TypeOK
<1>7. CASE MagicResolved(r)
  BY <1>7 DEF MagicResolved, Goto, TypeOK
<1>8. CASE Flushed(r)
  BY <1>8, AnswerLocal DEF Flushed
<1>9. CASE InvocationFails(r)
  BY <1>9, AnswerLocal DEF InvocationFails
<1> QED
  BY <1>1, <1>2, <1>3, <1>4, <1>5, <1>6, <1>7, <1>8, <1>9 DEF Serve

(* Before the first request nothing has been decided. *)
LEMMA KeyInvInit == Init => KeyInv
  BY AuthAssumption
     DEF Init, KeyInv, CacheFollows, NoEntry, AuthorizerFollows,
         DecisionFollows, Decided

(* A decision, cached or fresh, follows the key within its bound. *)
LEMMA KeyInvDecide ==
  ASSUME TypeOK, KeyInv, NEW r \in Request, Decide(r)
  PROVE  KeyInv'
<1> USE AuthAssumption, KeyAssumption
<1>1. ASSUME NEW s, Answer(r, s), UNCHANGED <<deployed, authCache, now>>
      PROVE  KeyInv'
  <2>1. AuthorizerFollows(r)' /\ DecisionFollows(r)'
    BY <1>1, AnswerLocal DEF AuthorizerFollows, DecisionFollows, Decided
  <2> QED
    BY <1>1, <2>1, AnswerLocal, KeyInvKept
<1>2. CASE CachedAnswer(r)
  <2> DEFINE k == call[r].key
  <2>1. OthersWait(r) /\ UNCHANGED authCache /\ AuthorizerFollows(r)'
    BY <1>2 DEF CachedAnswer, OthersWait, Goto, TypeOK, AuthorizerFollows
  <2>2. /\ k \in Key /\ now < authCache[k].exp
        /\ pc'[r] = IF authCache[k].allow THEN "admitted" ELSE "denied"
        /\ k' = k
    BY <1>2 DEF CachedAnswer, Cached, Goto, TypeOK
  <2>3. \/ authCache[k].allow <=> k = apiKey
        \/ authCache[k].exp <= changedAt[k] + AuthTimeout + AuthTTL
    BY <2>2 DEF KeyInv, CacheFollows
  <2>4. \/ pc'[r] = "admitted" <=> k = apiKey
        \/ now < changedAt[k] + AuthTimeout + AuthTTL
    BY <2>2, <2>3 DEF TypeOK
  <2>5. DecisionFollows(r)'
    BY <2>1, <2>2, <2>4 DEF DecisionFollows, OthersWait, deployed
  <2> QED
    BY <2>1, <2>5, KeyInvKept
<1>3. CASE InvokeAuthorizer(r)
  <2>1. OthersWait(r) /\ UNCHANGED authCache /\ DecisionFollows(r)'
    BY <1>3 DEF InvokeAuthorizer, OthersWait, Goto, TypeOK, DecisionFollows,
                Decided
  <2>2. call[r].key \in Key
    BY <1>3 DEF InvokeAuthorizer, TypeOK, Call
  <2>3. AuthorizerFollows(r)'
    BY <1>3, <2>2 DEF InvokeAuthorizer, Goto, TypeOK, AuthorizerFollows,
                      Allows, deployed
  <2> QED
    BY <2>1, <2>3, KeyInvKept
<1>4. CASE AuthorizerAnswers(r)
  <2> DEFINE k == call[r].key
             allow == Allows(seen[r], k)
  <2>1. /\ k \in Key /\ k' = k
        /\ timer[r] <= now /\ now <= timer[r] + AuthTimeout
        /\ (allow <=> k = apiKey) \/ timer[r] <= changedAt[k]
    BY <1>4 DEF AuthorizerAnswers, KeyInv, AuthorizerFollows
  <2>2. (allow <=> k = apiKey) \/ now <= changedAt[k] + AuthTimeout
    BY <2>1 DEF TypeOK
  <2>3. OthersWait(r) /\ AuthorizerFollows(r)'
    BY <1>4 DEF AuthorizerAnswers, OthersWait, Goto, TypeOK, AuthorizerFollows
  <2>4. DecisionFollows(r)'
    <3>1. pc'[r] = IF allow THEN "admitted" ELSE "denied"
      BY <1>4 DEF AuthorizerAnswers, Goto, TypeOK
    <3> HIDE DEF allow
    <3>2. ASSUME now <= changedAt[k] + AuthTimeout
          PROVE  now < changedAt[k] + AuthTimeout + AuthTTL
      <4>1. now \in Nat /\ changedAt[k] \in Nat
        BY <2>1 DEF TypeOK
      <4>2. AuthTTL \in Nat /\ AuthTTL > 0 /\ AuthTimeout \in Nat
        OBVIOUS
      <4> HIDE DEF k
      <4> QED
        BY ONLY <3>2, <4>1, <4>2
    <3> QED
      BY <2>1, <2>2, <2>3, <3>1, <3>2 DEF DecisionFollows, OthersWait, deployed
  <2>5. CacheFollows'
    <3> SUFFICES ASSUME NEW x \in Key
                 PROVE  /\ authCache'[x].exp <= now + AuthTTL
                        /\ now < authCache'[x].exp =>
                             \/ authCache'[x].allow <=> x = apiKey
                             \/ authCache'[x].exp
                                  <= changedAt[x] + AuthTimeout + AuthTTL
      BY <2>3 DEF CacheFollows, OthersWait, deployed
    <3>1. authCache' = [authCache EXCEPT ![k] = [allow |-> allow,
                                                exp |-> now + AuthTTL]]
      BY <1>4 DEF AuthorizerAnswers
    <3>2. CASE x = k
      <4>1. authCache'[x] = [allow |-> allow, exp |-> now + AuthTTL]
        BY <3>1, <3>2, Zenon DEF TypeOK
      <4>2. (authCache'[x].allow <=> allow) /\ authCache'[x].exp = now + AuthTTL
        <5> HIDE DEF allow
        <5> QED BY <4>1
      <4> HIDE DEF allow
      <4> QED
        BY <2>1, <2>2, <3>2, <4>2 DEF TypeOK
    <3>3. CASE x # k
      <4>1. authCache'[x] = authCache[x]
        <5> HIDE DEF allow
        <5> QED BY <3>1, <3>3 DEF TypeOK
      <4> QED
        BY <4>1 DEF KeyInv, CacheFollows
    <3> QED
      BY <3>2, <3>3
  <2>6. \A x \in Request \ {r} : AuthorizerFollows(x)' /\ DecisionFollows(x)'
    BY <2>3 DEF KeyInv, OthersWait, AuthorizerFollows, DecisionFollows, Decided,
                deployed
  <2> QED
    BY <2>3, <2>4, <2>5, <2>6 DEF KeyInv, OthersWait, deployed
<1> QED
  BY <1>1, <1>2, <1>3, <1>4 DEF Decide, NoRoute, MissingKey, AuthorizerFails,
                                Forbid

(* A rotation, an expiry and time keep every decision's bound. *)
LEMMA KeyInvNext == TypeOK /\ KeyInv /\ [Next]_vars => KeyInv'
<1> SUFFICES ASSUME TypeOK, KeyInv, [Next]_vars PROVE KeyInv'
  OBVIOUS
<1> USE AuthAssumption, KeyAssumption
<1>1. ASSUME NEW r \in Request, NEW c \in Calls, Arrive(r, c) PROVE KeyInv'
  <2>1. OthersWait(r) /\ UNCHANGED authCache
    BY <1>1 DEF Arrive, OthersWait, Goto, TypeOK
  <2>2. AuthorizerFollows(r)' /\ DecisionFollows(r)'
    BY <1>1 DEF Arrive, Goto, TypeOK, AuthorizerFollows, DecisionFollows,
                Decided
  <2> QED
    BY <2>1, <2>2, KeyInvKept
<1>2. ASSUME NEW r \in Request, Decide(r) PROVE KeyInv'
  BY <1>2, KeyInvDecide
<1>3. ASSUME NEW r \in Request, Serve(r) PROVE KeyInv'
  <2>1. AuthorizerFollows(r)' /\ DecisionFollows(r)'
    BY <1>3, ServeLocal
       DEF AuthorizerFollows, DecisionFollows, Decided, Running
  <2> QED
    BY <1>3, <2>1, ServeLocal, KeyInvKept
<1>4. ASSUME NEW k \in Key \cup {NoKey}, RotateKey(k) PROVE KeyInv'
  <2>1. /\ UNCHANGED <<authCache, now, request>> /\ apiKey' = k
        /\ \A x \in Key : IF x \in {k, apiKey} THEN changedAt'[x] = now
                         ELSE changedAt'[x] = changedAt[x]
    BY <1>4 DEF RotateKey
  <2>2. \A x \in Key : changedAt'[x] <= now
    BY <2>1 DEF KeyInv, TypeOK
  <2>3. CacheFollows'
    <3> SUFFICES ASSUME NEW x \in Key, now < authCache[x].exp
                 PROVE  \/ authCache[x].allow <=> x = apiKey'
                        \/ authCache[x].exp
                             <= changedAt'[x] + AuthTimeout + AuthTTL
      BY <2>1 DEF KeyInv, CacheFollows
    <3>1. CASE x \in {k, apiKey}
      BY <2>1, <3>1 DEF KeyInv, CacheFollows, TypeOK
    <3>2. CASE x \notin {k, apiKey}
      BY <2>1, <3>2 DEF KeyInv, CacheFollows
    <3> QED
      BY <3>1, <3>2
  <2>4. ASSUME NEW r \in Request PROVE AuthorizerFollows(r)'
    BY <2>1 DEF KeyInv, AuthorizerFollows, TypeOK, request, Allows
  <2>5. ASSUME NEW r \in Request PROVE DecisionFollows(r)'
    <3> SUFFICES ASSUME Decided(r)
                 PROVE  /\ call[r].key \in Key
                        /\ \/ pc[r] = "admitted" <=> call[r].key = apiKey'
                           \/ now < changedAt'[call[r].key] + AuthTimeout
                                      + AuthTTL
      BY <2>1 DEF DecisionFollows, Decided, request
    <3>1. call[r].key \in Key
      BY DEF KeyInv, DecisionFollows
    <3>2. CASE call[r].key \in {k, apiKey}
      BY <2>1, <3>1, <3>2 DEF TypeOK
    <3>3. CASE call[r].key \notin {k, apiKey}
      BY <2>1, <3>1, <3>3 DEF KeyInv, DecisionFollows
    <3> QED
      BY <3>1, <3>2, <3>3
  <2> QED
    BY <2>1, <2>2, <2>3, <2>4, <2>5 DEF KeyInv
<1>5. CASE Tick
  <2>1. /\ now' = now + 1 /\ UNCHANGED <<deployed, request>>
        /\ \A k \in Key : authCache'[k] = authCache[k] \/ authCache'[k].exp = 0
    BY <1>5 DEF Tick, NoEntry
  <2>2. CacheFollows'
    BY <2>1 DEF KeyInv, CacheFollows, TypeOK, deployed
  <2>3. ASSUME NEW r \in Request
        PROVE  AuthorizerFollows(r)' /\ DecisionFollows(r)'
    <3>1. pc[r] = "authorizing" => now < timer[r] + AuthTimeout
      BY <1>5, Limits DEF Tick, Waiting
    <3>2. ~Decided(r)
      BY <1>5 DEF Tick, Decided, Deciding
    <3> QED
      BY <2>1, <3>1, <3>2 DEF KeyInv, AuthorizerFollows, DecisionFollows,
                              Decided, TypeOK, deployed, request
  <2>4. \A k \in Key : changedAt'[k] <= now'
    BY <2>1 DEF KeyInv, TypeOK, deployed
  <2> QED
    BY <2>2, <2>3, <2>4 DEF KeyInv
<1>6. CASE UNCHANGED vars
  BY <1>6 DEF vars, deployed, request, KeyInv, CacheFollows, AuthorizerFollows,
              DecisionFollows, Decided
<1> QED
  BY <1>1, <1>2, <1>3, <1>4, <1>5, <1>6 DEF Next

(* However many clients, keys and rotations: a revoked key admits nobody,  *)
(* and a new key is refused nobody, later than one authorizer run and one  *)
(* TTL after the change.                                                   *)
THEOREM RevocationBounded == Spec => []DecisionFollowsKey
<1>1. KeyInv => DecisionFollowsKey
  BY DEF KeyInv, DecisionFollowsKey, DecisionFollows, Decided
<1> QED
  BY <1>1, InitTyped, NextTyped, KeyInvInit, KeyInvNext, PTL DEF Spec

-----------------------------------------------------------------------------
(* AnsweredInTime: an invocation waits once for Twitch or the cache, from  *)
(* its very start, and then once for the flush.                            *)

InTime(r) ==
    /\ pc[r] \in Running => timer[r] <= now /\ now <= timer[r] + Limit(pc[r])
    /\ pc[r] \in {"twitch", "resolve"} => timer[r] = start[r]
    /\ pc[r] = "flush" => \/ timer[r] <= start[r] + TwitchTimeout
                         \/ timer[r] <= start[r] + FetchTimeout

TimeInv == \A r \in Request : InTime(r)

(* Only the request that moves has its limits to account for. *)
LEMMA TimeInvKept ==
  ASSUME TypeOK, TimeInv, NEW r \in Request, OthersWait(r), InTime(r)'
  PROVE  TimeInv'
  BY Limits DEF TimeInv, OthersWait, InTime, Running, deployed

(* The flush begins now: what was waited for before has kept its limit.    *)
LEMMA FlushInTime ==
  ASSUME TypeOK, TimeInv, NEW r \in Request, pc[r] \in {"twitch", "resolve"},
         Goto(r, "flush"), UNCHANGED <<now, start>>
  PROVE  InTime(r)'
<1>1. /\ pc'[r] = "flush" /\ timer'[r] = now /\ start'[r] = start[r]
      /\ now' = now
  BY DEF Goto, TypeOK
<1>2. now <= start[r] + TwitchTimeout \/ now <= start[r] + FetchTimeout
  BY Limits DEF TimeInv, InTime, Running
<1> QED
  BY <1>1, <1>2, Limits, TimeoutAssumption DEF InTime, TypeOK

(* An invocation that begins has all of its time left. *)
LEMMA BeginInTime ==
  ASSUME TypeOK, NEW r \in Request, NEW l \in Running, Begin(r, l),
         UNCHANGED now
  PROVE  InTime(r)'
<1>1. pc'[r] = l /\ timer'[r] = now /\ start'[r] = now /\ now' = now
  BY DEF Begin, Goto, TypeOK
<1> QED
  BY <1>1, Limits, TimeoutAssumption DEF InTime, TypeOK, Running

(* The waits of the proxy add up to what is allowed. *)
LEMMA ServeInTime ==
  ASSUME TypeOK, TimeInv, NEW r \in Request, Serve(r)
  PROVE  TimeInv'
<1>1. CASE pc'[r] = "done"
  <2>1. InTime(r)'
    BY <1>1 DEF InTime, Running
  <2> QED
    BY <2>1, ServeLocal, TimeInvKept
<1>2. ASSUME NEW l \in Running, Begin(r, l), UNCHANGED now PROVE TimeInv'
  BY <1>2, BeginInTime, ServeLocal, TimeInvKept
<1>3. ASSUME pc[r] \in {"twitch", "resolve"}, Goto(r, "flush"),
             UNCHANGED <<now, start>>
      PROVE  TimeInv'
  BY <1>3, FlushInTime, ServeLocal, TimeInvKept
<1>4. ASSUME NEW s, Answer(r, s) PROVE pc'[r] = "done"
  BY <1>4 DEF Answer, TypeOK
<1>5. CASE RespondAtOnce(r) \/ CallTwitch(r) \/ ResolveMagic(r)
  <2>1. PICK l \in Running : Begin(r, l)
    BY <1>5 DEF RespondAtOnce, CallTwitch, ResolveMagic, Running
  <2>2. UNCHANGED now
    BY <1>5 DEF RespondAtOnce, CallTwitch, ResolveMagic
  <2> QED
    BY <2>1, <2>2, <1>2
<1>6. CASE TwitchAnswers(r) \/ TwitchFails(r) \/ MagicResolved(r)
  BY <1>3, <1>6 DEF TwitchAnswers, TwitchFails, MagicResolved
<1>7. CASE ColdStartFails(r) \/ Flushed(r) \/ InvocationFails(r)
  BY <1>1, <1>4, <1>7 DEF ColdStartFails, Flushed, InvocationFails
<1> QED
  BY <1>5, <1>6, <1>7 DEF Serve

(* Routing and authorizing leave an invocation in time. *)
LEMMA DecideInTime ==
  ASSUME TypeOK, TimeInv, NEW r \in Request, Decide(r)
  PROVE  TimeInv'
<1>1. ASSUME NEW s, Answer(r, s), UNCHANGED <<deployed, authCache, now>>
      PROVE  TimeInv'
  <2>1. InTime(r)'
    BY <1>1, AnswerLocal DEF InTime, Running
  <2> QED
    BY <1>1, <2>1, AnswerLocal, TimeInvKept
<1>2. ASSUME NEW l \in Location \ Running, Goto(r, l),
             UNCHANGED <<deployed, now, call, start>>,
             \A x \in Request \ {r} : seen'[x] = seen[x]
      PROVE  TimeInv'
  <2>1. OthersWait(r) /\ InTime(r)'
    BY <1>2 DEF Goto, TypeOK, OthersWait, InTime, Running
  <2> QED
    BY <2>1, TimeInvKept
<1>3. CASE CachedAnswer(r)
  <2>1. PICK l \in Location \ Running : Goto(r, l)
    BY <1>3 DEF CachedAnswer, Location, Deciding, Running
  <2> QED
    BY <1>2, <1>3, <2>1 DEF CachedAnswer
<1>4. CASE InvokeAuthorizer(r)
  <2>1. "authorizing" \in Location \ Running
    BY DEF Location, Running
  <2>2. \A x \in Request \ {r} : seen'[x] = seen[x]
    BY <1>4 DEF InvokeAuthorizer, TypeOK
  <2> QED
    BY <1>2, <1>4, <2>1, <2>2 DEF InvokeAuthorizer
<1>5. CASE AuthorizerAnswers(r)
  <2>1. PICK l \in Location \ Running : Goto(r, l)
    BY <1>5 DEF AuthorizerAnswers, Location, Deciding, Running
  <2> QED
    BY <1>2, <1>5, <2>1 DEF AuthorizerAnswers
<1> QED
  BY <1>1, <1>3, <1>4, <1>5 DEF Decide, NoRoute, MissingKey, AuthorizerFails,
                                Forbid

(* Every step, and time itself, keeps each wait in its limit. *)
LEMMA TimeInvNext == TypeOK /\ TimeInv /\ [Next]_vars => TimeInv'
<1> SUFFICES ASSUME TypeOK, TimeInv, [Next]_vars PROVE TimeInv'
  OBVIOUS
<1>1. ASSUME NEW r \in Request, NEW c \in Calls, Arrive(r, c) PROVE TimeInv'
  <2>1. OthersWait(r) /\ InTime(r)'
    BY <1>1 DEF Arrive, OthersWait, Goto, TypeOK, InTime, Running
  <2> QED
    BY <2>1, TimeInvKept
<1>2. ASSUME NEW r \in Request, Decide(r) PROVE TimeInv'
  BY <1>2, DecideInTime
<1>3. ASSUME NEW r \in Request, Serve(r) PROVE TimeInv'
  BY <1>3, ServeInTime
<1>4. ASSUME NEW k \in Key \cup {NoKey}, RotateKey(k) PROVE TimeInv'
  BY <1>4, Limits DEF RotateKey, request, TimeInv, InTime, Running
<1>5. CASE Tick
  <2> SUFFICES ASSUME NEW r \in Request PROVE InTime(r)'
    BY DEF TimeInv
  <2>1. pc[r] \in Running => now < timer[r] + Limit(pc[r])
    BY <1>5 DEF Tick, Waiting
  <2> QED
    BY <1>5, <2>1, Limits, TimeoutAssumption
       DEF Tick, TimeInv, InTime, Running, TypeOK, request
<1>6. CASE UNCHANGED vars
  BY <1>6, Limits DEF vars, request, TimeInv, InTime, Running
<1> QED
  BY <1>1, <1>2, <1>3, <1>4, <1>5, <1>6 DEF Next

(* What the durations of three files have to satisfy together: 8 s and     *)
(* 250 ms, or 1.5 s and 250 ms, are less than 10 s.                        *)
Budget == /\ TwitchTimeout + FlushTimeout < LambdaTimeout
          /\ FetchTimeout + FlushTimeout < LambdaTimeout

(* For any durations within Budget, no invocation is still waiting when    *)
(* Lambda would stop it.                                                   *)
THEOREM InvocationsEndInTime ==
  ASSUME Budget
  PROVE  Spec => []AnsweredInTime
<1>1. Init => TimeInv
  BY DEF Init, TimeInv, InTime, Running
<1>2. TypeOK /\ TimeInv => AnsweredInTime
  <2> SUFFICES ASSUME TypeOK, TimeInv, NEW r \in Request, pc[r] \in Running
               PROVE  now < start[r] + LambdaTimeout
    BY DEF AnsweredInTime
  <2> QED
    BY Budget, Limits, TimeoutAssumption
       DEF Budget, TimeInv, InTime, Running, TypeOK
<1> QED
  BY <1>1, <1>2, InitTyped, NextTyped, TimeInvNext, PTL DEF Spec

=============================================================================
