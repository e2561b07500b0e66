-------------------------- MODULE LinkSystemProofs --------------------------
(***************************************************************************)
(* Proofs about LinkSystem for every number of requests, events, retries   *)
(* and tokens.  The cache in it behaves as MagicCache says, so what is     *)
(* proved there holds here; the rest of the invariant says how the three   *)
(* holders of a token are related.                                         *)
(***************************************************************************)
EXTENDS LinkSystem, MagicCacheProofs

USE NoRequestAssumption, TimingAssumption, BoundAssumption, LinkAssumption
    DEF Unread, NoLink, EnvLink, FirstVersion, Link, Location, Seed, NoToken,
        K!NoToken, K!Location, K!CheckedIn, K!Running, K!Active, K!InFlight

-----------------------------------------------------------------------------
(* The cache is MagicCache *)

(* What the keepalive writes is a new version of the parameter, and        *)
(* nothing else of what it and the app do touches the cache.               *)
THEOREM CacheImplemented == LinkSpec => Spec
  <1>1. LinkInit => Init
    BY DEF LinkInit
  <1>2. [LinkNext]_linkVars => [Next]_vars
    <2> SUFFICES ASSUME [LinkNext]_linkVars PROVE Next \/ UNCHANGED vars
      OBVIOUS
    <2>1. CASE KeepaliveStep
      BY <2>1 DEF KeepaliveStep, Share, Next
    <2>2. CASE CacheStep
      BY <2>2 DEF CacheStep, Next
    <2>3. CASE (\E r \in Request : SignIn(r)) \/ Redeem \/ UNCHANGED linkVars
      BY <2>3 DEF SignIn, Redeem, linkVars
    <2> QED
      BY <2>1, <2>2, <2>3 DEF LinkNext
  <1> QED
    BY <1>1, <1>2, PTL DEF LinkSpec, Spec

-----------------------------------------------------------------------------
(* The keepalive's own invariant *)

(* An event that waits for a delivery has one left. *)
TriesOK == \A e \in Event :
              kpc[e] \in {"unfired", "queued"} => tries[e] < MaxDeliveries

(* At most one event is in flight, and its check-in is open until closed.  *)
SerialOK == /\ \A e, f \in Event : K!InFlight(e) /\ K!InFlight(f) => e = f
            /\ \A e \in Event : kpc[e] \in K!CheckedIn => monitor = "in_progress"

KeepaliveOK == K!TypeOK /\ TriesOK /\ SerialOK

(* What a step of the keepalive, or of the operator, may be. *)
KStep == (\E e \in Event : K!Fire(e) \/ K!Step(e) \/ K!Crash(e)) \/ K!Mint

(* No token is taken, none is held and nothing is stored at the start. *)
LEMMA KeepaliveInit == LinkInit => KeepaliveOK
  BY DEF LinkInit, K!Init, KeepaliveOK, K!TypeOK, TriesOK, SerialOK

(* What the end of an invocation leaves behind. *)
LEMMA EndType ==
  ASSUME K!TypeOK, NEW e \in Event, NEW l \in K!Location, K!End(e, l)
  PROVE  /\ kpc' \in [Event -> K!Location]
         /\ token' \in [Event -> 0 .. issued]
         /\ puts' \in [Event -> 0 .. PutAttempts]
  BY DEF K!End, K!Goto, K!TypeOK

(* A rotation, or a login, adds the next token to those issued. *)
LEMMA IssueType ==
  ASSUME K!TypeOK, issued' = issued + 1,
         \A t \in live' : t \in live \/ t = issued + 1
  PROVE  /\ issued' \in Nat \ {0}
         /\ live' \in SUBSET (1 .. issued')
         /\ stored \in 0 .. issued'
         /\ token \in [Event -> 0 .. issued']
  <1>1. issued \in Nat \ {0} /\ \A t \in live : t \in 1 .. issued
    BY DEF K!TypeOK
  <1>2. live' \in SUBSET (1 .. issued')
    BY <1>1
  <1>3. stored \in 0 .. issued' /\ token \in [Event -> 0 .. issued']
    BY <1>1 DEF K!TypeOK
  <1> QED
    BY <1>1, <1>2, <1>3

(* The types, as every kind of keepalive step keeps them. *)
LEMMA KeepaliveTypeStep == KeepaliveOK /\ KStep => K!TypeOK'
  <1> SUFFICES ASSUME K!TypeOK, TriesOK, KStep PROVE K!TypeOK'
    BY DEF KeepaliveOK
  <1> USE DEF K!TypeOK
  <1>1. ASSUME NEW e \in Event,
               \/ K!Fire(e) \/ K!DeliverDisabled(e) \/ K!GetBlob(e)
               \/ K!Finish(e) \/ K!Return(e)
        PROVE K!TypeOK'
    BY <1>1 DEF K!Fire, K!DeliverDisabled, K!Finish, K!Return, K!GetBlob,
                K!Goto, K!twitch, K!local
  <1>2. ASSUME NEW e \in Event, K!Deliver(e) PROVE K!TypeOK'
    <2>1. tries' \in [Event -> 0 .. MaxDeliveries]
      <3>1. tries[e] + 1 \in 0 .. MaxDeliveries
        BY <1>2 DEF K!Deliver, TriesOK
      <3> QED
        BY <1>2, <3>1 DEF K!Deliver
    <2> QED
      BY <1>2, <2>1 DEF K!Deliver, K!Goto, K!twitch, K!local
  <1>3. ASSUME NEW e \in Event,
               K!Crash(e) \/ K!GetBlobFails(e) \/ K!RefreshFails(e)
        PROVE K!TypeOK'
    <2>1. /\ kpc' \in [Event -> K!Location]
          /\ token' \in [Event -> 0 .. issued]
          /\ puts' \in [Event -> 0 .. PutAttempts]
      BY <1>3, EndType DEF K!Crash, K!GetBlobFails, K!RefreshFails, K!Fail,
                           K!Redeliver
    <2> QED
      BY <1>3, <2>1 DEF K!Crash, K!GetBlobFails, K!RefreshFails, K!Fail,
                              K!twitch
  <1>4. ASSUME NEW e \in Event, K!RefreshOk(e) PROVE K!TypeOK'
    <2>1. /\ issued' = issued + 1 /\ issued' \in Nat \ {0}
          /\ live' \in SUBSET (1 .. issued') /\ stored \in 0 .. issued'
          /\ token \in [Event -> 0 .. issued']
      BY <1>4, IssueType DEF K!RefreshOk, K!Rotate
    <2>2. token' \in [Event -> 0 .. issued']
      BY <1>4, <2>1 DEF K!RefreshOk
    <2>3. /\ puts' \in [Event -> 0 .. PutAttempts]
          /\ kpc' \in [Event -> K!Location]
      BY <1>4 DEF K!RefreshOk, K!Goto
    <2> QED
      BY <1>4, <2>1, <2>2, <2>3 DEF K!RefreshOk
  <1>5. ASSUME NEW e \in Event, K!RefreshUnusable(e) PROVE K!TypeOK'
    <2>1. /\ issued' = issued + 1 /\ issued' \in Nat \ {0}
          /\ live' \in SUBSET (1 .. issued') /\ stored \in 0 .. issued'
      BY <1>5, IssueType DEF K!RefreshUnusable, K!Rotate
    <2>2. /\ kpc' \in [Event -> K!Location]
          /\ token' \in [Event -> 0 .. issued]
          /\ puts' \in [Event -> 0 .. PutAttempts]
      BY <1>5, EndType DEF K!RefreshUnusable, K!Fail, K!Redeliver
    <2>3. token' \in [Event -> 0 .. issued']
      BY <2>1, <2>2
    <2> QED
      BY <1>5, <2>1, <2>2, <2>3 DEF K!RefreshUnusable, K!Fail
  <1>6. ASSUME NEW e \in Event, K!PutOk(e) \/ K!PutRetry(e) \/ K!PutGiveUp(e)
        PROVE K!TypeOK'
    <2>1. stored' \in 0 .. issued
      BY <1>6 DEF K!PutOk, K!PutRetry, K!PutGiveUp, K!MaybeWrite, K!Write
    <2>2. CASE K!PutRetry(e)
      <3>1. puts' \in [Event -> 0 .. PutAttempts]
        BY <2>2 DEF K!PutRetry
      <3> QED
        BY <2>1, <2>2, <3>1 DEF K!PutRetry, K!twitch
    <2>3. CASE K!PutOk(e) \/ K!PutGiveUp(e)
      <3>1. /\ kpc' \in [Event -> K!Location]
            /\ token' \in [Event -> 0 .. issued]
            /\ puts' \in [Event -> 0 .. PutAttempts]
        BY <2>3, EndType DEF K!PutOk, K!PutGiveUp
      <3> QED
        BY <2>1, <2>3, <3>1 DEF K!PutOk, K!PutGiveUp, K!twitch
    <2> QED
      BY <1>6, <2>2, <2>3
  <1>7. ASSUME K!Mint PROVE K!TypeOK'
    <2>1. /\ issued' = issued + 1 /\ issued' \in Nat \ {0}
          /\ live' \in SUBSET (1 .. issued') /\ stored' \in 0 .. issued'
          /\ token \in [Event -> 0 .. issued']
      BY <1>7, IssueType DEF K!Mint
    <2> QED
      BY <1>7, <2>1 DEF K!Mint, K!local
  <1> QED
    BY <1>1, <1>2, <1>3, <1>4, <1>5, <1>6, <1>7 DEF KStep, K!Step

(* No event is queued when its deliveries are used up. *)
LEMMA TriesStep == KeepaliveOK /\ KStep => TriesOK'
  <1> SUFFICES ASSUME K!TypeOK, TriesOK, KStep PROVE TriesOK'
    BY DEF KeepaliveOK
  <1>1. ASSUME NEW e \in Event, K!Redeliver(e), UNCHANGED tries PROVE TriesOK'
    BY <1>1 DEF K!Redeliver, K!End, K!Goto, K!TypeOK, TriesOK
  <1>2. ASSUME NEW e \in Event,
               \/ K!Crash(e) \/ K!GetBlobFails(e) \/ K!RefreshUnusable(e)
               \/ K!RefreshFails(e)
        PROVE TriesOK'
    BY <1>1, <1>2 DEF K!Crash, K!GetBlobFails, K!RefreshUnusable,
                      K!RefreshFails, K!Fail
  <1>3. ASSUME NEW e \in Event,
               \/ K!Fire(e) \/ K!Deliver(e) \/ K!DeliverDisabled(e)
               \/ K!GetBlob(e) \/ K!RefreshOk(e) \/ K!PutOk(e)
               \/ K!PutRetry(e) \/ K!PutGiveUp(e) \/ K!Finish(e) \/ K!Return(e)
        PROVE TriesOK'
    BY <1>3 DEF K!Fire, K!Deliver, K!DeliverDisabled, K!GetBlob, K!RefreshOk,
                K!PutOk, K!PutRetry, K!PutGiveUp, K!Finish, K!Return, K!End,
                K!Goto, K!TypeOK, TriesOK
  <1>4. ASSUME K!Mint PROVE TriesOK'
    BY <1>4 DEF K!Mint, TriesOK
  <1> QED
    BY <1>2, <1>3, <1>4 DEF KStep, K!Step

(* EventBridge fires the next event after the last one has settled. *)
LEMMA SerialStep == KeepaliveOK /\ KStep => SerialOK'
  <1> SUFFICES ASSUME K!TypeOK, SerialOK, KStep PROVE SerialOK'
    BY DEF KeepaliveOK
  <1> USE DEF K!TypeOK, SerialOK
  <1>1. ASSUME NEW e \in Event,
               \/ K!Fire(e) \/ K!Deliver(e) \/ K!DeliverDisabled(e)
               \/ K!GetBlob(e)
        PROVE SerialOK'
    BY <1>1 DEF K!Fire, K!Deliver, K!DeliverDisabled, K!GetBlob, K!Goto
  <1>2. ASSUME NEW e \in Event, K!Crash(e) PROVE SerialOK'
    BY <1>2 DEF K!Crash, K!Redeliver, K!End, K!Goto
  <1>3. ASSUME NEW e \in Event, K!GetBlobFails(e) \/ K!RefreshFails(e)
        PROVE SerialOK'
    BY <1>3 DEF K!GetBlobFails, K!RefreshFails, K!Fail, K!Redeliver, K!End, K!Goto
  <1>4. ASSUME NEW e \in Event, K!RefreshUnusable(e) PROVE SerialOK'
    BY <1>4 DEF K!RefreshUnusable, K!Fail, K!Redeliver, K!End, K!Goto
  <1>5. ASSUME NEW e \in Event, K!RefreshOk(e) \/ K!PutRetry(e) PROVE SerialOK'
    BY <1>5 DEF K!RefreshOk, K!PutRetry, K!Goto
  <1>6. ASSUME NEW e \in Event,
               \/ K!PutOk(e) \/ K!PutGiveUp(e) \/ K!Finish(e) \/ K!Return(e)
        PROVE SerialOK'
    BY <1>6 DEF K!PutOk, K!PutGiveUp, K!Finish, K!Return, K!End, K!Goto
  <1>7. ASSUME K!Mint PROVE SerialOK'
    BY <1>7 DEF K!Mint
  <1> QED
    BY <1>1, <1>2, <1>3, <1>4, <1>5, <1>6, <1>7 DEF KStep, K!Step

(* The app's redemption issues a token, and nothing else of the composition *)
(* outside the keepalive touches it.                                        *)
LEMMA KeepaliveStepOK == KeepaliveOK /\ [LinkNext]_linkVars => KeepaliveOK'
  <1> SUFFICES ASSUME KeepaliveOK, [LinkNext]_linkVars PROVE KeepaliveOK'
    OBVIOUS
  <1>1. CASE KeepaliveStep
    <2>1. KStep
      BY <1>1 DEF KeepaliveStep, KStep
    <2> QED
      BY <2>1, KeepaliveTypeStep, TriesStep, SerialStep DEF KeepaliveOK
  <1>2. CASE Redeem
    <2>1. /\ issued' = issued + 1 /\ issued' \in Nat \ {0}
          /\ live' \in SUBSET (1 .. issued') /\ stored \in 0 .. issued'
          /\ token \in [Event -> 0 .. issued']
      BY <1>2, IssueType DEF Redeem, KeepaliveOK
    <2>2. UNCHANGED <<enabled, stored, monitor, kpc, tries, token, puts>>
      BY <1>2 DEF Redeem
    <2> QED
      BY <2>1, <2>2 DEF KeepaliveOK, K!TypeOK, TriesOK, SerialOK
  <1>3. CASE CacheStep \/ (\E r \in Request : SignIn(r)) \/ UNCHANGED linkVars
    <2>1. UNCHANGED keepalive
      BY <1>3 DEF CacheStep, SignIn, linkVars
    <2> QED
      BY <2>1 DEF keepalive, KeepaliveOK, K!TypeOK, TriesOK, SerialOK
  <1> QED
    BY <1>1, <1>2, <1>3 DEF LinkNext

-----------------------------------------------------------------------------
(* Whom a token descends from *)

(* The app's token and the histories have their types. *)
HistoryOK == /\ held \in 0 .. issued
             /\ redeemed \in SUBSET (1 .. issued)
             /\ login \in [1 .. issued -> 1 .. issued]
             /\ minted \in 1 .. issued
             /\ quiet \in BOOLEAN

(* Twitch replaces token t, or issues one for a new login. *)
Rotated(t) == /\ t \in live /\ issued' = issued + 1
              /\ live' = (live \ {t}) \cup {issued + 1}
Minted == issued' = issued + 1 /\ live' = live \cup {issued + 1}

(* Old tokens keep their login. *)
Extends == /\ login' \in [1 .. issued' -> 1 .. issued']
           /\ \A s \in 1 .. issued : login'[s] = login[s]
           /\ issued' \in Nat /\ issued <= issued'

(* When Twitch does nothing the histories stay as they are. *)
LEMMA DescendSame ==
  ASSUME K!TypeOK, HistoryOK, Descend, UNCHANGED <<live, issued>>
  PROVE  UNCHANGED lineage
  <1>1. login' = [t \in 1 .. issued |-> login[t]]
    BY DEF Descend, HistoryOK
  <1>2. login' = login
    BY <1>1 DEF HistoryOK
  <1> QED
    BY <1>2 DEF Descend, lineage

(* A rotated token's successor has its login. *)
LEMMA DescendRotated ==
  ASSUME K!TypeOK, HistoryOK, Descend, NEW t \in live, Rotated(t)
  PROVE  /\ Extends /\ UNCHANGED <<minted, quiet>>
         /\ login'[issued + 1] = login[t]
  <1>1. /\ issued \in Nat \ {0} /\ t \in 1 .. issued /\ t # issued + 1
        /\ issued + 1 \notin live
    BY DEF K!TypeOK
  <1>2. ~(live \subseteq live')
    BY <1>1 DEF Rotated
  <1>3. \A s \in live : s \notin live' <=> s = t
    BY <1>1 DEF Rotated
  <1>4. (CHOOSE s \in live : s \notin live') = t
    BY <1>3
  <1>5. /\ UNCHANGED <<minted, quiet>>
        /\ login' = [s \in 1 .. issued' |-> IF s \in DOMAIN login THEN login[s]
                                             ELSE login[t]]
    BY <1>2, <1>4 DEF Descend
  <1>6. DOMAIN login = 1 .. issued /\ login[t] \in 1 .. issued
    BY <1>1 DEF HistoryOK
  <1>7. issued' = issued + 1
    BY DEF Rotated
  <1>8. \A s \in 1 .. issued : login[s] \in 1 .. issued'
    BY <1>1, <1>7 DEF HistoryOK
  <1>9. login' \in [1 .. issued' -> 1 .. issued']
    BY <1>1, <1>5, <1>6, <1>7, <1>8
  <1>10. /\ \A s \in 1 .. issued : login'[s] = login[s]
         /\ login'[issued + 1] = login[t]
    BY <1>1, <1>5, <1>6, <1>7
  <1> QED
    BY <1>1, <1>5, <1>7, <1>9, <1>10 DEF Extends

(* A minted token is a login of its own. *)
LEMMA DescendMinted ==
  ASSUME K!TypeOK, HistoryOK, Descend, Minted
  PROVE  /\ Extends /\ quiet' = ~Holding /\ minted' = issued + 1
         /\ login'[issued + 1] = issued + 1
  <1>1. issued \in Nat \ {0} /\ issued' = issued + 1 /\ issued' # issued
    BY DEF K!TypeOK, Minted
  <1>2. live \subseteq live'
    BY DEF Minted
  <1>3. /\ quiet' = ~Holding /\ minted' = issued + 1
        /\ login' = [s \in 1 .. issued' |-> IF s \in DOMAIN login THEN login[s]
                                             ELSE s]
    BY <1>1, <1>2 DEF Descend
  <1>4. DOMAIN login = 1 .. issued
    BY DEF HistoryOK
  <1>5. \A s \in 1 .. issued : login[s] \in 1 .. issued'
    BY <1>1 DEF HistoryOK
  <1>6. login' \in [1 .. issued' -> 1 .. issued']
    BY <1>1, <1>3, <1>4, <1>5
  <1>7. /\ \A s \in 1 .. issued : login'[s] = login[s]
        /\ login'[issued + 1] = issued + 1
    BY <1>1, <1>3, <1>4
  <1> QED
    BY <1>1, <1>3, <1>6, <1>7 DEF Extends

(* The keepalive rotates, the operator mints, or Twitch is not asked. *)
LEMMA TwitchStep ==
  ASSUME KStep
  PROVE  UNCHANGED <<live, issued>> \/ (\E t \in live : Rotated(t)) \/ Minted
  <1>1. ASSUME NEW e \in Event, K!RefreshOk(e) \/ K!RefreshUnusable(e)
        PROVE Rotated(token[e]) /\ token[e] \in live
    BY <1>1 DEF K!RefreshOk, K!RefreshUnusable, K!Rotate, Rotated
  <1>2. ASSUME NEW e \in Event,
               \/ K!Fire(e) \/ K!Deliver(e) \/ K!DeliverDisabled(e)
               \/ K!GetBlob(e) \/ K!GetBlobFails(e) \/ K!RefreshFails(e)
               \/ K!PutOk(e) \/ K!PutRetry(e) \/ K!PutGiveUp(e)
               \/ K!Finish(e) \/ K!Return(e) \/ K!Crash(e)
        PROVE UNCHANGED <<live, issued>>
    BY <1>2 DEF K!Fire, K!Deliver, K!DeliverDisabled, K!GetBlob,
                K!GetBlobFails, K!RefreshFails, K!PutOk, K!PutRetry,
                K!PutGiveUp, K!Finish, K!Return, K!Crash, K!twitch
  <1>3. ASSUME K!Mint PROVE Minted
    BY <1>3 DEF K!Mint, Minted
  <1> QED
    BY <1>1, <1>2, <1>3 DEF KStep, K!Step

(* The types of what the histories say of old tokens when one is issued. *)
LEMMA HistoryWider ==
  ASSUME K!TypeOK, HistoryOK, issued' = issued + 1
  PROVE  /\ held \in 0 .. issued' /\ redeemed \in SUBSET (1 .. issued')
         /\ minted \in 1 .. issued' /\ issued' \in 1 .. issued'
  <1>1. issued \in Nat \ {0}
    BY DEF K!TypeOK
  <1>2. \A t \in redeemed : t \in 1 .. issued'
    BY <1>1 DEF HistoryOK
  <1> QED
    BY <1>1, <1>2 DEF HistoryOK

(* The histories keep their types, and a login once given. *)
LEMMA HistoryStep ==
  ASSUME K!TypeOK, HistoryOK, TypeOK, [LinkNext]_linkVars,
         tokenOf \in [FirstVersion .. MaxVersion -> 0 .. issued]
  PROVE  HistoryOK' /\ Extends
  <1>1. issued \in Nat \ {0}
    BY DEF K!TypeOK
  <1>2. ASSUME UNCHANGED <<issued, lineage>> PROVE Extends
    BY <1>1, <1>2 DEF Extends, HistoryOK, lineage
  <1>3. CASE KeepaliveStep
    <2>1. KStep /\ Descend /\ UNCHANGED <<held, redeemed>>
      BY <1>3 DEF KeepaliveStep, KStep
    <2>2. CASE UNCHANGED <<live, issued>>
      <3>1. UNCHANGED lineage
        BY <2>1, <2>2, DescendSame
      <3> QED
        BY <1>2, <2>1, <2>2, <3>1 DEF lineage, HistoryOK
    <2>3. ASSUME NEW t \in live, Rotated(t) PROVE HistoryOK' /\ Extends
      <3>1. Extends /\ UNCHANGED <<minted, quiet>>
        BY <2>1, <2>3, DescendRotated
      <3> QED
        BY <2>1, <2>3, <3>1, HistoryWider DEF Rotated, Extends, HistoryOK
    <2>4. CASE Minted
      <3>1. Extends /\ minted' = issued + 1 /\ quiet' = ~Holding
        BY <2>1, <2>4, DescendMinted
      <3>2. quiet' \in BOOLEAN
        BY <3>1
      <3> QED
        BY <2>1, <2>4, <3>1, <3>2, HistoryWider DEF Minted, Extends, HistoryOK
    <2> QED
      BY <2>1, <2>2, <2>3, <2>4, TwitchStep
  <1>4. CASE CacheStep \/ UNCHANGED linkVars
    <2>1. UNCHANGED <<issued, held, redeemed, lineage>>
      BY <1>4 DEF CacheStep, linkVars, keepalive
    <2> QED
      BY <1>2, <2>1 DEF HistoryOK, lineage
  <1>5. ASSUME NEW r \in Request, SignIn(r) PROVE HistoryOK' /\ Extends
    <2>1. UNCHANGED <<issued, redeemed, lineage>>
      BY <1>5 DEF SignIn, keepalive
    <2>2. val[r] \in FirstVersion .. MaxVersion
      BY <1>5 DEF SignIn, TypeOK
    <2>3. held' \in 0 .. issued
      BY <1>5, <2>2 DEF SignIn
    <2> QED
      BY <1>2, <2>1, <2>3 DEF HistoryOK, lineage
  <1>6. CASE Redeem
    <2>1. held \in live /\ Rotated(held) /\ Descend
      BY <1>6 DEF Redeem, Rotated
    <2>2. Extends /\ UNCHANGED <<minted, quiet>> /\ issued' = issued + 1
      BY <2>1, DescendRotated DEF Rotated
    <2>3. held' \in 0 .. issued' /\ redeemed' \in SUBSET (1 .. issued')
      <3>1. held' = issued + 1 /\ redeemed' = redeemed \cup {held}
        BY <1>6 DEF Redeem
      <3>2. held \in 1 .. issued
        BY <2>1 DEF K!TypeOK
      <3> QED
        BY <1>1, <2>2, <3>1, <3>2 DEF HistoryOK
    <2> QED
      BY <2>2, <2>3, HistoryWider DEF Extends, HistoryOK
  <1> QED
    BY <1>3, <1>4, <1>5, <1>6 DEF LinkNext

-----------------------------------------------------------------------------
(* What the cache and the keepalive know of the parameter *)

(* The parameter's newest version holds the stored token; as long as its   *)
(* first blob does not parse, no fetch has been given a blob.              *)
SharedOK ==
    /\ stored = IF garbled THEN NoToken ELSE tokenOf[param]
    /\ tokenOf \in [FirstVersion .. MaxVersion -> 0 .. issued]
    /\ garbled => /\ cached = NoLink
                  /\ \A r \in Request : ~(answer[r] >= FirstVersion)

(* Writing is all that either does to it. *)
LEMMA SharedStep ==
  ASSUME TypeOK, K!TypeOK, K!TypeOK', SharedOK, HistoryOK, Extends,
         [LinkNext]_linkVars
  PROVE  SharedOK'
  <1>1. /\ issued \in Nat /\ issued' \in Nat /\ issued <= issued'
        /\ tokenOf \in [FirstVersion .. MaxVersion -> 0 .. issued']
    <2>1. issued \in Nat /\ issued' \in Nat /\ issued <= issued'
      BY DEF Extends, K!TypeOK
    <2>2. \A t \in 0 .. issued : t \in 0 .. issued'
      BY <2>1
    <2> QED
      BY <2>1, <2>2 DEF SharedOK
  <1>2. ASSUME UNCHANGED <<vars, stored, tokenOf>> PROVE SharedOK'
    <2>1. UNCHANGED <<param, garbled, cached, answer, stored, tokenOf>>
      BY <1>2 DEF vars, store, cache
    <2> QED
      BY <1>1, <2>1 DEF SharedOK
  <1>3. CASE KeepaliveStep
    <2>1. CASE stored' = stored
      BY <1>2, <1>3, <2>1 DEF KeepaliveStep, Share
    <2>2. CASE stored' # stored
      <3>1. /\ param < MaxVersion /\ param' = param + 1 /\ garbled' = FALSE
            /\ tokenOf' = [tokenOf EXCEPT ![param'] = stored']
        BY <1>3, <2>2 DEF KeepaliveStep, Share, WriteParam
      <3>2. param' \in FirstVersion .. MaxVersion /\ stored' \in 0 .. issued'
        BY <3>1 DEF TypeOK, K!TypeOK
      <3>3. /\ tokenOf' \in [FirstVersion .. MaxVersion -> 0 .. issued']
            /\ tokenOf'[param'] = stored'
        BY <1>1, <3>1, <3>2
      <3> QED
        BY <3>1, <3>3 DEF SharedOK
    <2> QED
      BY <2>1, <2>2
  <1>4. CASE CacheStep
    <2>1. UNCHANGED <<stored, tokenOf, issued>>
      BY <1>4 DEF CacheStep, keepalive
    <2>2. UNCHANGED <<param, garbled>>
      BY <1>4 DEF CacheStep, Arrive, StoreAnswer, Cancel, Tick, Step, ResolveEnv,
                  ResolveHit, ResolveMiss, LeadFlight, JoinFlight, RecheckHit,
                  StartFetch, LoadOk, LoadMalformed, LoadError, LoadCancelled,
                  EndLoad, LandFlight, Wake, store
    <2>3. ASSUME garbled
          PROVE  /\ cached' = NoLink
                 /\ \A r \in Request : ~(answer'[r] >= FirstVersion)
      <3>1. cached = NoLink /\ \A r \in Request : ~(answer[r] >= FirstVersion)
        BY <2>3 DEF SharedOK
      <3>2. ASSUME NEW r \in Request, StoreAnswer(r)
            PROVE UNCHANGED cached /\ answer' = [answer EXCEPT ![r] = NoLink]
        BY <2>3, <3>2 DEF StoreAnswer, cache
      <3>3. ASSUME NEW r \in Request,
                   \/ Arrive(r) \/ Cancel(r) \/ ResolveEnv(r)
                   \/ ResolveHit(r) \/ ResolveMiss(r) \/ LeadFlight(r)
                   \/ JoinFlight(r) \/ RecheckHit(r) \/ LandFlight(r) \/ Wake(r)
            PROVE UNCHANGED <<cached, answer>>
        BY <3>3 DEF Arrive, Cancel, ResolveEnv, ResolveHit, ResolveMiss,
                    LeadFlight, JoinFlight, RecheckHit, LandFlight, Wake, cache
      <3>4. ASSUME NEW r \in Request,
                   \/ StartFetch(r) \/ LoadMalformed(r) \/ LoadError(r)
                   \/ LoadCancelled(r)
            PROVE UNCHANGED cached /\ answer' = [answer EXCEPT ![r] = Unread]
        BY <3>4 DEF StartFetch, LoadMalformed, LoadError, LoadCancelled, EndLoad,
                    cache
      <3>5. ASSUME Tick PROVE UNCHANGED <<cached, answer>>
        BY <3>5 DEF Tick, cache
      <3>6. \A r \in Request : ~LoadOk(r)
        BY <3>1 DEF LoadOk
      <3>7. /\ UNCHANGED cached
            /\ \/ UNCHANGED answer
               \/ \E r \in Request : \/ answer' = [answer EXCEPT ![r] = NoLink]
                                     \/ answer' = [answer EXCEPT ![r] = Unread]
        BY <1>4, <3>2, <3>3, <3>4, <3>5, <3>6 DEF CacheStep, Step
      <3>8. \A r \in Request : answer'[r] \in {answer[r], NoLink, Unread}
        BY <3>7 DEF TypeOK
      <3> QED
        BY <3>1, <3>7, <3>8
    <2> QED
      BY <1>1, <2>1, <2>2, <2>3 DEF SharedOK
  <1>5. CASE (\E r \in Request : SignIn(r)) \/ Redeem \/ UNCHANGED linkVars
    BY <1>2, <1>5 DEF SignIn, Redeem, linkVars, keepalive
  <1> QED
    BY <1>3, <1>4, <1>5 DEF LinkNext

-----------------------------------------------------------------------------
(* Custody of the token, and whom it descends from *)

(* What the keepalive has in hand, and what SSM holds when it reports "ok", *)
(* is accepted by Twitch or was redeemed by the app.                        *)
CustodyOK == /\ monitor = "ok" => stored \in live \cup redeemed
             /\ \A e \in Event :
                   /\ kpc[e] = "put" => token[e] \in live \cup redeemed
                   /\ kpc[e] = "saved" => stored \in live \cup redeemed

(* The invocation's token and SSM's are of the last minted login. *)
LineageOK == /\ quiet /\ stored # NoToken => login[stored] = minted
             /\ \A e \in Event : kpc[e] \in {"twitch", "put"} =>
                   /\ token[e] \in 1 .. issued
                   /\ quiet => login[token[e]] = minted

(* Everything stays in custody: what a step takes out of live, the app has *)
(* redeemed, or nobody has in hand and the monitor does not show "ok".     *)
LEMMA CustodyStep ==
  ASSUME KeepaliveOK, CustodyOK, [LinkNext]_linkVars
  PROVE  CustodyOK'
  <1> USE DEF CustodyOK
  <1>1. CASE KeepaliveStep
    <2>1. KStep /\ UNCHANGED redeemed
      BY <1>1 DEF KeepaliveStep, KStep
    <2> USE DEF KeepaliveOK, K!TypeOK, SerialOK
    <2>2. ASSUME NEW e \in Event,
                 K!Fire(e) \/ K!Deliver(e) \/ K!DeliverDisabled(e) \/ K!GetBlob(e)
          PROVE CustodyOK'
      BY <2>1, <2>2 DEF K!Fire, K!Deliver, K!DeliverDisabled, K!GetBlob, K!Goto,
                        K!twitch, K!local
    <2>3. ASSUME NEW e \in Event, K!Crash(e) PROVE CustodyOK'
      BY <2>1, <2>3 DEF K!Crash, K!Redeliver, K!End, K!Goto, K!twitch
    <2>4. ASSUME NEW e \in Event, K!GetBlobFails(e) \/ K!RefreshFails(e)
          PROVE CustodyOK'
      BY <2>1, <2>4 DEF K!GetBlobFails, K!RefreshFails, K!Fail, K!Redeliver,
                        K!End, K!Goto, K!twitch
    <2>5. ASSUME NEW e \in Event, K!RefreshUnusable(e) PROVE CustodyOK'
      BY <2>1, <2>5 DEF K!RefreshUnusable, K!Fail, K!Redeliver, K!End, K!Goto
    <2>6. ASSUME NEW e \in Event, K!RefreshOk(e) PROVE CustodyOK'
      BY <2>1, <2>6 DEF K!RefreshOk, K!Rotate, K!Goto
    <2>7. ASSUME NEW e \in Event, K!PutOk(e) PROVE CustodyOK'
      BY <2>1, <2>7 DEF K!PutOk, K!Write, K!End, K!Goto, K!twitch
    <2>8. ASSUME NEW e \in Event, K!PutRetry(e) PROVE CustodyOK'
      BY <2>1, <2>8 DEF K!PutRetry, K!MaybeWrite, K!Write, K!twitch
    <2>9. ASSUME NEW e \in Event, K!PutGiveUp(e) PROVE CustodyOK'
      BY <2>1, <2>9 DEF K!PutGiveUp, K!End, K!Goto
    <2>10. ASSUME NEW e \in Event, K!Finish(e) \/ K!Return(e)
          PROVE CustodyOK'
      BY <2>1, <2>10 DEF K!Finish, K!Return, K!Goto, K!twitch
    <2>11. ASSUME K!Mint PROVE CustodyOK'
      BY <2>1, <2>11 DEF K!Mint, K!local
    <2> QED
      BY <2>1, <2>2, <2>3, <2>4, <2>5, <2>6, <2>7, <2>8, <2>9, <2>10, <2>11
         DEF KStep, K!Step
  <1>2. CASE Redeem
    <2>1. /\ live \cup redeemed \subseteq live' \cup redeemed'
          /\ UNCHANGED <<monitor, kpc, stored, token>>
      BY <1>2 DEF Redeem
    <2> QED
      BY <2>1
  <1>3. CASE CacheStep \/ (\E r \in Request : SignIn(r)) \/ UNCHANGED linkVars
    BY <1>3 DEF CacheStep, SignIn, linkVars, keepalive
  <1> QED
    BY <1>1, <1>2, <1>3 DEF LinkNext

(* A login minted between invocations is not replaced by an older one.     *)
LEMMA LineageStep ==
  ASSUME KeepaliveOK, HistoryOK, LineageOK, Extends, [LinkNext]_linkVars
  PROVE  LineageOK'
  <1>1. /\ issued \in Nat \ {0} /\ issued <= issued' /\ issued' \in Nat
        /\ stored \in 0 .. issued
        /\ \A s \in 1 .. issued : s \in 1 .. issued' /\ login'[s] = login[s]
    BY DEF KeepaliveOK, K!TypeOK, Extends
  <1>2. stored # NoToken => stored \in 1 .. issued
    BY <1>1
  <1>3. ASSUME UNCHANGED <<stored, minted, quiet, kpc, token>> PROVE LineageOK'
    BY <1>1, <1>2, <1>3 DEF LineageOK
  <1>4. CASE KeepaliveStep
    <2>1. KStep /\ Descend
      BY <1>4 DEF KeepaliveStep, KStep
    <2>2. ASSUME NEW e \in Event, UNCHANGED <<live, issued>>,
                 \A f \in Event : kpc'[f] \in {"twitch", "put"} =>
                     \/ kpc[f] \in {"twitch", "put"} /\ token'[f] = token[f]
                     \/ token'[f] = stored /\ stored # NoToken,
                 \/ stored' = stored
                 \/ kpc[e] = "put" /\ stored' = token[e]
          PROVE LineageOK'
      <3>1. UNCHANGED <<login, minted, quiet, issued>>
        BY <2>1, <2>2, DescendSame DEF KeepaliveOK, lineage
      <3> QED
        BY <1>1, <1>2, <2>2, <3>1 DEF LineageOK
    <2> USE DEF KeepaliveOK, K!TypeOK
    <2>3. ASSUME NEW e \in Event,
                 \/ K!Fire(e) \/ K!Deliver(e) \/ K!DeliverDisabled(e)
                 \/ K!Finish(e) \/ K!Return(e)
          PROVE LineageOK'
      BY <2>2, <2>3 DEF K!Fire, K!Deliver, K!DeliverDisabled, K!Finish,
                        K!Return, K!Goto, K!twitch, K!local
    <2>4. ASSUME NEW e \in Event, K!GetBlob(e) PROVE LineageOK'
      BY <2>2, <2>4 DEF K!GetBlob, K!Goto, K!twitch
    <2>5. ASSUME NEW e \in Event,
                 NEW l \in {"saved", "closed", "queued", "settled"},
                 K!End(e, l), UNCHANGED <<live, issued>>,
                 stored' = stored \/ (kpc[e] = "put" /\ stored' = token[e])
          PROVE LineageOK'
      BY <2>2, <2>5 DEF K!End, K!Goto
    <2>6. ASSUME NEW e \in Event,
                 \/ K!Crash(e) \/ K!GetBlobFails(e) \/ K!RefreshFails(e)
                 \/ K!PutOk(e) \/ K!PutGiveUp(e)
          PROVE LineageOK'
      <3>1. K!Redeliver(e) \/ K!End(e, "saved") \/ K!End(e, "closed")
        BY <2>6 DEF K!Crash, K!GetBlobFails, K!RefreshFails, K!Fail, K!PutOk,
                    K!PutGiveUp
      <3>2. \E l \in {"saved", "closed", "queued", "settled"} : K!End(e, l)
        BY <3>1 DEF K!Redeliver
      <3>3. UNCHANGED <<live, issued>>
        BY <2>6 DEF K!Crash, K!GetBlobFails, K!RefreshFails, K!PutOk,
                    K!PutGiveUp, K!twitch
      <3>4. stored' = stored \/ (kpc[e] = "put" /\ stored' = token[e])
        BY <2>6 DEF K!Crash, K!GetBlobFails, K!RefreshFails, K!PutOk,
                    K!PutGiveUp, K!MaybeWrite, K!Write
      <3> QED
        BY <2>5, <3>2, <3>3, <3>4
    <2>7. ASSUME NEW e \in Event, K!PutRetry(e) PROVE LineageOK'
      BY <2>2, <2>7 DEF K!PutRetry, K!MaybeWrite, K!Write, K!twitch
    <2>8. ASSUME NEW e \in Event, K!RefreshUnusable(e) \/ K!RefreshOk(e)
          PROVE LineageOK'
      <3>1. /\ kpc[e] = "twitch" /\ token[e] \in live /\ Rotated(token[e])
            /\ UNCHANGED stored /\ issued' = issued + 1
        BY <2>8 DEF K!RefreshUnusable, K!RefreshOk, K!Rotate, Rotated
      <3>2. UNCHANGED <<minted, quiet>> /\ login'[issued + 1] = login[token[e]]
        BY <2>1, <3>1, DescendRotated
      <3>3. \A f \in Event : kpc'[f] \in {"twitch", "put"} =>
                \/ kpc[f] \in {"twitch", "put"} /\ token'[f] = token[f]
                \/ f = e /\ token'[f] = issued + 1
        BY <2>8 DEF K!RefreshUnusable, K!RefreshOk, K!Fail, K!Redeliver, K!End,
                    K!Goto
      <3>4. issued + 1 \in 1 .. issued'
        BY <1>1, <3>1
      <3> QED
        BY <1>1, <1>2, <3>1, <3>2, <3>3, <3>4 DEF LineageOK
    <2>9. ASSUME K!Mint PROVE LineageOK'
      <3>1. /\ Minted /\ stored' = issued + 1 /\ UNCHANGED <<kpc, token>>
        BY <2>9 DEF K!Mint, K!local, Minted
      <3>2. /\ quiet' = ~Holding /\ minted' = issued + 1
            /\ login'[issued + 1] = issued + 1
        BY <2>1, <3>1, DescendMinted
      <3>3. \A e \in Event : kpc'[e] \in {"twitch", "put"} =>
                token'[e] \in 1 .. issued' /\ ~quiet'
        BY <1>1, <3>1, <3>2 DEF LineageOK, Holding
      <3> QED
        BY <3>1, <3>2, <3>3 DEF LineageOK
    <2> QED
      BY <2>1, <2>3, <2>4, <2>6, <2>7, <2>8, <2>9 DEF KStep, K!Step
  <1>5. CASE Redeem
    <2>1. held \in live /\ Rotated(held) /\ Descend
      BY <1>5 DEF Redeem, Rotated
    <2>2. UNCHANGED <<minted, quiet>>
      BY <2>1, DescendRotated DEF KeepaliveOK
    <2> QED
      BY <1>3, <1>5, <2>2 DEF Redeem
  <1>6. CASE CacheStep \/ (\E r \in Request : SignIn(r)) \/ UNCHANGED linkVars
    BY <1>3, <1>6 DEF CacheStep, SignIn, linkVars, keepalive, lineage
  <1> QED
    BY <1>4, <1>5, <1>6 DEF LinkNext

-----------------------------------------------------------------------------

LinkInv == KeepaliveOK /\ HistoryOK /\ SharedOK /\ CustodyOK /\ LineageOK

(* What the parts know of each other always holds. *)
THEOREM LinkInvariance == LinkSpec => [](IInv /\ LinkInv)
  <1>1. LinkSpec => []IInv
    BY CacheImplemented, Invariance, PTL
  <1>2. LinkInit => LinkInv
    <2> SUFFICES ASSUME LinkInit PROVE LinkInv
      OBVIOUS
    <2>1. HistoryOK /\ CustodyOK /\ LineageOK
      <3>1. /\ issued = 1 /\ held = 0 /\ redeemed = {} /\ minted = 1
            /\ quiet = TRUE /\ login = [t \in {1} |-> 1] /\ 1 .. issued = {1}
            /\ stored \in {0, 1} /\ monitor = "none"
            /\ kpc = [e \in Event |-> "unfired"]
        BY DEF LinkInit, K!Init
      <3>2. login \in [1 .. issued -> 1 .. issued] /\ login[1] = 1
        BY <3>1
      <3>3. HistoryOK
        BY <3>1, <3>2 DEF HistoryOK
      <3>4. CustodyOK
        BY <3>1 DEF CustodyOK
      <3>5. LineageOK
        BY <3>1, <3>2 DEF LineageOK
      <3> QED
        BY <3>3, <3>4, <3>5
    <2>2. SharedOK
      <3>1. /\ garbled = (stored = 0) /\ stored \in {0, 1} /\ issued = 1
            /\ param = 2 /\ 2 \in 2 .. MaxVersion /\ cached = 0
            /\ tokenOf = [v \in 2 .. MaxVersion |-> IF v = 2 THEN stored ELSE 0]
            /\ answer = [r \in Request |-> -1]
        BY DEF LinkInit, K!Init, Init
      <3>2. tokenOf[param] = stored /\ tokenOf \in [2 .. MaxVersion -> 0 .. 1]
        BY <3>1
      <3>3. tokenOf \in [FirstVersion .. MaxVersion -> 0 .. issued]
        BY <3>1, <3>2
      <3>4. stored = IF garbled THEN NoToken ELSE tokenOf[param]
        BY <3>1, <3>2
      <3>5. cached = NoLink /\ \A r \in Request : ~(answer[r] >= FirstVersion)
        BY <3>1
      <3> QED
        BY <3>3, <3>4, <3>5 DEF SharedOK
    <2> QED
      BY <2>1, <2>2, KeepaliveInit DEF LinkInv
  <1>3. IInv /\ LinkInv /\ [LinkNext]_linkVars => LinkInv'
    <2> SUFFICES ASSUME IInv, LinkInv, [LinkNext]_linkVars PROVE LinkInv'
      OBVIOUS
    <2>1. TypeOK /\ KeepaliveOK /\ K!TypeOK
      BY DEF IInv, LinkInv, KeepaliveOK
    <2>2. KeepaliveOK' /\ K!TypeOK'
      BY KeepaliveStepOK DEF LinkInv, KeepaliveOK
    <2>3. HistoryOK' /\ Extends
      BY <2>1, HistoryStep DEF LinkInv, SharedOK
    <2>4. SharedOK'
      BY <2>1, <2>2, <2>3, SharedStep DEF LinkInv
    <2>5. CustodyOK' /\ LineageOK'
      BY <2>3, CustodyStep, LineageStep DEF LinkInv
    <2> QED
      BY <2>2, <2>3, <2>4, <2>5 DEF LinkInv
  <1> QED
    BY <1>1, <1>2, <1>3, PTL DEF LinkSpec

(* The cache, the keepalive and the histories keep their types, and the    *)
(* two agree about the parameter.                                          *)
THEOREM LinkTypeCorrect == LinkSpec => []LinkTypeOK
  <1>1. IInv /\ LinkInv => LinkTypeOK
    BY DEF IInv, LinkInv, KeepaliveOK, HistoryOK, SharedOK, LinkTypeOK
  <1> QED
    BY <1>1, LinkInvariance, PTL

(* An "ok" monitor means that SSM's token is good or the app has used it.  *)
THEOREM OkIsHonest == LinkSpec => []OkUnlessRedeemed
  <1>1. LinkInv => OkUnlessRedeemed
    BY DEF LinkInv, CustodyOK, OkUnlessRedeemed
  <1> QED
    BY <1>1, LinkInvariance, PTL

(* A login minted while no invocation held a token stays SSM's.            *)
THEOREM MintIsKept == LinkSpec => []MintSurvives
  <1>1. LinkInv => MintSurvives
    BY DEF LinkInv, LineageOK, MintSurvives
  <1> QED
    BY <1>1, LinkInvariance, PTL

(* Only the app, a rotation not older than a TTL and a fetch, or a trouble *)
(* the monitor shows makes a fresh cache serve a token Twitch refuses.     *)
THEOREM DeadIsExplained == LinkSpec => []DeadServedExplained
  <1>1. IInv /\ LinkInv /\ StaleServeBounded => DeadServedExplained
    <2> SUFFICES ASSUME IInv, LinkInv, StaleServeBounded, Fresh, ~degraded,
                        cached # NoLink, tokenOf[cached] \notin live
                 PROVE  \/ tokenOf[cached] \in redeemed
                        \/ /\ cached < param
                           /\ now < writtenAt[cached + 1] + TTL + FetchTimeout
                        \/ cached = param /\ monitor # "ok"
      BY DEF DeadServedExplained
    <2>1. cached < param \/ cached = param
      BY DEF IInv, StaleOK, TypeOK
    <2>2. CASE cached < param
      BY <2>2 DEF StaleServeBounded
    <2>3. CASE cached = param
      <3>1. stored = tokenOf[cached]
        BY <2>3 DEF LinkInv, SharedOK
      <3> QED
        BY <2>3, <3>1 DEF LinkInv, CustodyOK
    <2> QED
      BY <2>1, <2>2, <2>3
  <1> QED
    BY <1>1, LinkInvariance, CacheImplemented, BoundedStaleness, PTL

-----------------------------------------------------------------------------
(* What mends a lost login *)

(* A token that was read between two mints is the one SSM still holds.     *)
HandOK == quiet => \A e \in Event : kpc[e] = "twitch" => token[e] = stored

(* Only the invocation itself writes while it runs, or a person does, and  *)
(* then the login was not minted in quiet.                                 *)
LEMMA HandStep ==
  ASSUME KeepaliveOK, HistoryOK, HandOK, [LinkNext]_linkVars
  PROVE  HandOK'
  <1>1. ASSUME UNCHANGED <<stored, quiet>>,
               \A f \in Event : kpc'[f] = "twitch" =>
                   \/ kpc[f] = "twitch" /\ token'[f] = token[f]
                   \/ token'[f] = stored
        PROVE HandOK'
    BY <1>1 DEF HandOK
  <1>2. CASE KeepaliveStep
    <2>1. KStep /\ Descend /\ K!TypeOK
      BY <1>2 DEF KeepaliveStep, KStep, KeepaliveOK
    <2>2. CASE K!Mint
      <3>1. UNCHANGED <<kpc, token>> /\ Minted
        BY <2>2 DEF K!Mint, K!local, Minted
      <3>2. quiet' = ~Holding
        BY <2>1, <3>1, DescendMinted
      <3> QED
        BY <3>1, <3>2 DEF HandOK, Holding
    <2>3. CASE UNCHANGED <<live, issued>> \/ \E t \in live : Rotated(t)
      <3>1. UNCHANGED quiet
        BY <2>1, <2>3, DescendSame, DescendRotated DEF lineage
      <3>2. ASSUME NEW e \in Event,
                   \/ K!Fire(e) \/ K!Deliver(e) \/ K!DeliverDisabled(e)
                   \/ K!GetBlob(e) \/ K!Finish(e) \/ K!Return(e) \/ K!RefreshOk(e)
            PROVE HandOK'
        <4>1. UNCHANGED stored
          BY <3>2 DEF K!Fire, K!Deliver, K!DeliverDisabled, K!GetBlob, K!Finish,
                      K!Return, K!RefreshOk
        <4>2. \A f \in Event : kpc'[f] = "twitch" =>
                  \/ kpc[f] = "twitch" /\ token'[f] = token[f]
                  \/ token'[f] = stored
          BY <2>1, <3>2 DEF K!Fire, K!Deliver, K!DeliverDisabled, K!GetBlob,
                            K!Finish, K!Return, K!RefreshOk, K!Goto, K!local,
                            K!TypeOK
        <4> QED
          BY <1>1, <3>1, <4>1, <4>2
      <3>3. ASSUME NEW e \in Event,
                   \/ K!Crash(e) \/ K!GetBlobFails(e) \/ K!RefreshUnusable(e)
                   \/ K!RefreshFails(e)
            PROVE HandOK'
        <4>1. UNCHANGED stored /\ K!Redeliver(e)
          BY <3>3 DEF K!Crash, K!GetBlobFails, K!RefreshUnusable,
                      K!RefreshFails, K!Fail
        <4>2. \A f \in Event : kpc'[f] = "twitch" =>
                  kpc[f] = "twitch" /\ token'[f] = token[f]
          BY <2>1, <4>1 DEF K!Redeliver, K!End, K!Goto, K!TypeOK
        <4> QED
          BY <1>1, <3>1, <4>1, <4>2
      <3>4. ASSUME NEW e \in Event,
                   K!PutOk(e) \/ K!PutRetry(e) \/ K!PutGiveUp(e)
            PROVE HandOK'
        <4>1. \A f \in Event : kpc[f] # "twitch"
          BY <3>4 DEF K!PutOk, K!PutRetry, K!PutGiveUp, KeepaliveOK, SerialOK
        <4>2. \A f \in Event : kpc'[f] # "twitch"
          BY <2>1, <3>4, <4>1 DEF K!PutOk, K!PutRetry, K!PutGiveUp, K!End,
                                  K!Goto, K!TypeOK
        <4> QED
          BY <4>2 DEF HandOK
      <3>5. CASE K!Mint
        BY <2>2, <3>5
      <3> QED
        BY <2>1, <3>2, <3>3, <3>4, <3>5 DEF KStep, K!Step
    <2>4. CASE Minted
      <3>1. ~(UNCHANGED <<live, issued>>)
        BY <2>1, <2>4 DEF Minted, K!TypeOK
      <3>2. \A t \in live : ~Rotated(t)
        BY <2>1, <2>4 DEF Minted, Rotated, K!TypeOK
      <3>3. K!Mint
        <4>1. ASSUME NEW e \in Event,
                     \/ K!Fire(e) \/ K!Deliver(e) \/ K!DeliverDisabled(e)
                     \/ K!GetBlob(e) \/ K!GetBlobFails(e) \/ K!RefreshFails(e)
                     \/ K!PutOk(e) \/ K!PutRetry(e) \/ K!PutGiveUp(e)
                     \/ K!Finish(e) \/ K!Return(e) \/ K!Crash(e)
              PROVE FALSE
          BY <3>1, <4>1 DEF K!Fire, K!Deliver, K!DeliverDisabled, K!GetBlob,
                K!GetBlobFails, K!RefreshFails, K!PutOk, K!PutRetry,
                K!PutGiveUp, K!Finish, K!Return, K!Crash, K!twitch
        <4>2. ASSUME NEW e \in Event, K!RefreshOk(e) \/ K!RefreshUnusable(e)
              PROVE FALSE
          BY <3>2, <4>2 DEF K!RefreshOk, K!RefreshUnusable, K!Rotate, Rotated
        <4> QED
          BY <2>1, <4>1, <4>2 DEF KStep, K!Step
      <3> QED
        BY <2>2, <3>3
    <2> QED
      BY <2>1, <2>3, <2>4, TwitchStep
  <1>3. CASE Redeem
    <2>1. held \in live /\ Rotated(held) /\ Descend /\ K!TypeOK
      BY <1>3 DEF Redeem, Rotated, KeepaliveOK
    <2>2. UNCHANGED quiet
      BY <2>1, DescendRotated
    <2> QED
      BY <1>1, <1>3, <2>2 DEF Redeem
  <1>4. CASE CacheStep \/ (\E r \in Request : SignIn(r)) \/ UNCHANGED linkVars
    <2>1. UNCHANGED <<stored, quiet, kpc, token>>
      BY <1>4 DEF CacheStep, SignIn, linkVars, keepalive, lineage
    <2> QED
      BY <1>1, <2>1
  <1> QED
    BY <1>2, <1>3, <1>4 DEF LinkNext

(* What is lost cannot be rotated, so nothing good comes to be written.    *)
LEMMA MendStep ==
  ASSUME KeepaliveOK, HistoryOK, HandOK, quiet, Lost, [LinkNext]_linkVars
  PROVE  Lost' \/ minted' # minted
  <1>1. /\ stored \notin live
        /\ \A e \in Event : kpc[e] = "put" => token[e] \notin live
    BY DEF Lost
  <1>2. /\ issued \in Nat /\ stored \in 0 .. issued /\ minted \in 1 .. issued
        /\ \A e \in Event : token[e] \in 0 .. issued
    BY DEF KeepaliveOK, K!TypeOK, HistoryOK
  <1>3. ASSUME UNCHANGED live,
               stored' = stored \/ \E e \in Event : /\ kpc[e] = "put"
                                                    /\ stored' = token[e],
               \A f \in Event : kpc'[f] = "put" =>
                                kpc[f] = "put" /\ token'[f] = token[f]
        PROVE Lost'
    BY <1>1, <1>3 DEF Lost
  <1>4. CASE KeepaliveStep
    <2>1. KStep /\ Descend /\ K!TypeOK
      BY <1>4 DEF KeepaliveStep, KStep, KeepaliveOK
    <2>2. ASSUME NEW e \in Event,
                 \/ K!Fire(e) \/ K!Deliver(e) \/ K!DeliverDisabled(e)
                 \/ K!GetBlob(e) \/ K!Finish(e) \/ K!Return(e)
          PROVE Lost'
      BY <1>3, <2>1, <2>2 DEF K!Fire, K!Deliver, K!DeliverDisabled, K!GetBlob,
                              K!Finish, K!Return, K!Goto, K!twitch, K!local,
                              K!TypeOK
    <2>3. ASSUME NEW e \in Event,
                 K!Crash(e) \/ K!GetBlobFails(e) \/ K!RefreshFails(e)
          PROVE Lost'
      <3>1. K!Redeliver(e) /\ UNCHANGED <<live, stored>>
        BY <2>3 DEF K!Crash, K!GetBlobFails, K!RefreshFails, K!Fail, K!twitch
      <3>2. \A f \in Event : kpc'[f] = "put" =>
                             kpc[f] = "put" /\ token'[f] = token[f]
        BY <2>1, <3>1 DEF K!Redeliver, K!End, K!Goto, K!TypeOK
      <3> QED
        BY <1>3, <3>1, <3>2
    <2>4. ASSUME NEW e \in Event, K!RefreshOk(e) \/ K!RefreshUnusable(e)
          PROVE FALSE
      BY <1>1, <2>4 DEF K!RefreshOk, K!RefreshUnusable, K!Rotate, HandOK
    <2>5. ASSUME NEW e \in Event, K!PutOk(e) \/ K!PutRetry(e) \/ K!PutGiveUp(e)
          PROVE Lost'
      <3>1. /\ UNCHANGED live /\ kpc[e] = "put"
            /\ stored' = stored \/ stored' = token[e]
        BY <2>5 DEF K!PutOk, K!PutRetry, K!PutGiveUp, K!MaybeWrite, K!Write,
                    K!twitch
      <3>2. \A f \in Event : kpc'[f] = "put" =>
                             kpc[f] = "put" /\ token'[f] = token[f]
        BY <2>1, <2>5 DEF K!PutOk, K!PutRetry, K!PutGiveUp, K!End, K!Goto,
                          K!TypeOK
      <3> QED
        BY <1>3, <3>1, <3>2
    <2>6. ASSUME K!Mint PROVE minted' # minted
      <3>1. Minted
        BY <2>6 DEF K!Mint, Minted
      <3>2. minted' = issued + 1
        BY <2>1, <3>1, DescendMinted
      <3> QED
        BY <1>2, <3>2
    <2> QED
      BY <2>1, <2>2, <2>3, <2>4, <2>5, <2>6 DEF KStep, K!Step
  <1>5. CASE Redeem
    <2>1. /\ live' = (live \ {held}) \cup {issued + 1}
          /\ UNCHANGED <<stored, kpc, token>>
      BY <1>5 DEF Redeem
    <2>2. stored # issued + 1 /\ \A e \in Event : token[e] # issued + 1
      BY <1>2
    <2> QED
      BY <1>1, <2>1, <2>2 DEF Lost
  <1>6. CASE CacheStep \/ (\E r \in Request : SignIn(r)) \/ UNCHANGED linkVars
    <2>1. UNCHANGED <<live, stored, kpc, token>>
      BY <1>6 DEF CacheStep, SignIn, linkVars, keepalive
    <2> QED
      BY <1>3, <2>1
  <1> QED
    BY <1>4, <1>5, <1>6 DEF LinkNext

(* For any number of events, requests and redemptions, a lost login stays  *)
(* lost until a person mints the next one.                                 *)
THEOREM MintIsNeeded == LinkSpec => OnlyMintMends
  <1>1. LinkInit => HandOK
    BY DEF LinkInit, K!Init, HandOK
  <1>2. LinkInv /\ HandOK /\ [LinkNext]_linkVars => HandOK'
    BY HandStep DEF LinkInv
  <1>3. LinkInv /\ HandOK /\ [LinkNext]_linkVars
           => [quiet /\ Lost => Lost' \/ minted' # minted]_linkVars
    BY MendStep DEF LinkInv
  <1> QED
    BY <1>1, <1>2, <1>3, LinkInvariance, PTL DEF LinkSpec, OnlyMintMends

-----------------------------------------------------------------------------
(* What holds of the parts holds of the system *)

(* With the keepalive, the operator and the app at work, what the callers  *)
(* of Resolve see is still one blob that only moves forward.               *)
THEOREM SystemFeed == LinkSpec => ImplementsLinkFeed
  BY CacheImplemented, FeedRefinement, PTL

=============================================================================
