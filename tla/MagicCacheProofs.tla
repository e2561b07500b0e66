-------------------------- MODULE MagicCacheProofs --------------------------
(***************************************************************************)
(* Proofs about MagicCache for every number of concurrent requests, every  *)
(* choice of the three durations, every set of SSM faults and every bound. *)
(* The invariant is a conjunction of five parts, proved one after the      *)
(* other: the types, who holds the flight, what a running fetch knows,     *)
(* how far the blobs in hand are from each other, and how stale exp is.    *)
(***************************************************************************)
EXTENDS MagicCache, TLAPS

InFlight == {"recheck", "fetch", "land"}

(* singleflight's key is held by exactly the request that runs the flight. *)
FlightOK == \A r \in Request : pc[r] \in InFlight <=> leader = r

(* While a fetch runs nobody else touches cached and exp, its deadline has *)
(* not passed, and its answer is at least as new as the cached blob and no *)
(* older than what SSM held when the fetch began.                          *)
FetchSound(r) ==
    /\ exp <= start[r]
    /\ start[r] <= now
    /\ now <= start[r] + FetchTimeout
    /\ answer[r] >= FirstVersion =>
          /\ cached <= answer[r]
          /\ answer[r] <= param
          /\ answer[r] < param => writtenAt[answer[r] + 1] >= start[r]

FetchOK == \A r \in Request : pc[r] = "fetch" => FetchSound(r)

(* No blob that was given out is newer than the fallback, the flight's     *)
(* value is the fallback when it lands, and a waiter's is not too old.     *)
MonoSound(r) == /\ floor[r] <= newest
                /\ pc[r] = "land" => val[r] = Fallback
                /\ pc[r] = "wake" => floor[r] <= val[r] /\ val[r] <= newest
                /\ pc[r] = "idle" /\ val[r] # Unread => floor[r] <= val[r]

MonoOK == /\ newest <= Fallback
          /\ config.env <= Fallback
          /\ \A r \in Request : MonoSound(r)

(* Without a store nothing is cached and nobody gets past the first test.  *)
NoStoreOK == ~config.source =>
                /\ cached = NoLink
                /\ \A r \in Request : pc[r] \in {"idle", "resolve"}

(* An expiry that a successful load set lies within the TTL of now, and    *)
(* within the TTL and a fetch of the cached blob's replacement.            *)
StaleOK == /\ cached <= param
           /\ ~degraded => exp <= now + TTL
           /\ ~degraded /\ cached # NoLink /\ cached < param
                 => exp <= writtenAt[cached + 1] + TTL + FetchTimeout

IInv == TypeOK /\ FlightOK /\ FetchOK /\ StaleOK /\ NoStoreOK /\ MonoOK

USE NoRequestAssumption, TimingAssumption, BoundAssumption
    DEF Unread, NoLink, EnvLink, FirstVersion, Link, Location

-----------------------------------------------------------------------------

(* A cold process starts with every variable of its type. *)
LEMMA TypeInit == Init => TypeOK
  <1>1. SUFFICES ASSUME Init PROVE TypeOK
    OBVIOUS
  <1>2. garbled \in BOOLEAN
    BY <1>1 DEF Init
  <1>3. /\ param \in FirstVersion .. MaxVersion
        /\ writtenAt \in [FirstVersion .. MaxVersion -> Nat]
        /\ newest \in Link
    BY <1>1 DEF Init
  <1>4. /\ val \in [Request -> {Unread} \cup Link]
        /\ answer \in [Request -> {Unread, NoLink}
                                      \cup FirstVersion .. MaxVersion]
        /\ floor \in [Request -> Link]
    BY <1>1 DEF Init
  <1>5. /\ now \in Nat \ {0}
        /\ cached \in {NoLink} \cup FirstVersion .. MaxVersion
        /\ exp \in Nat
        /\ leader \in Request \cup {NoRequest}
        /\ pc \in [Request -> Location]
        /\ start \in [Request -> Nat]
    BY <1>1 DEF Init
  <1>6. /\ config \in [source : BOOLEAN, env : {NoLink, EnvLink}]
        /\ degraded \in BOOLEAN
        /\ cancelled \in [Request -> BOOLEAN]
    BY <1>1 DEF Init
  <1> QED
    BY <1>2, <1>3, <1>4, <1>5, <1>6 DEF TypeOK

(* What SSM sent is a version it has held, once it is one at all. *)
LEMMA AnswerRange ==
  ASSUME TypeOK, NEW r \in Request, answer[r] >= FirstVersion
  PROVE  answer[r] \in FirstVersion .. MaxVersion
  <1>1. answer[r] \in {Unread, NoLink} \cup FirstVersion .. MaxVersion
    BY DEF TypeOK
  <1> QED
    BY <1>1

(* Every step of a request, of SSM and of time keeps the types. *)
LEMMA TypeStep == TypeOK /\ [Next]_vars => TypeOK'
  <1> SUFFICES ASSUME TypeOK, [Next]_vars PROVE TypeOK'
    OBVIOUS
  <1> USE DEF TypeOK
  <1>1. ASSUME NEW r \in Request, Arrive(r) PROVE TypeOK'
    BY <1>1 DEF Arrive, Goto, store, cache
  <1>2. ASSUME NEW r \in Request, ResolveEnv(r) PROVE TypeOK'
    BY <1>2 DEF ResolveEnv, Return, Goto, Newer, store, cache
  <1>3. ASSUME NEW r \in Request, ResolveHit(r) PROVE TypeOK'
    BY <1>3 DEF ResolveHit, Return, Goto, Newer, Fallback, store, cache
  <1>4. ASSUME NEW r \in Request, ResolveMiss(r) PROVE TypeOK'
    BY <1>4 DEF ResolveMiss, Goto, store, cache
  <1>5. ASSUME NEW r \in Request, LeadFlight(r) PROVE TypeOK'
    BY <1>5 DEF LeadFlight, Goto, store, cache
  <1>6. ASSUME NEW r \in Request, JoinFlight(r) PROVE TypeOK'
    BY <1>6 DEF JoinFlight, Goto, store, cache
  <1>7. ASSUME NEW r \in Request, RecheckHit(r) PROVE TypeOK'
    BY <1>7 DEF RecheckHit, Goto, Fallback, store, cache
  <1>8. ASSUME NEW r \in Request, StartFetch(r) PROVE TypeOK'
    BY <1>8 DEF StartFetch, Goto, store, cache
  <1>9. ASSUME NEW r \in Request, StoreAnswer(r) PROVE TypeOK'
    BY <1>9 DEF StoreAnswer, store, cache
  <1>10. ASSUME NEW r \in Request, LoadOk(r) PROVE TypeOK'
    <2>1. answer[r] \in FirstVersion .. MaxVersion
      BY SMTT(60), <1>10 DEF LoadOk
    <2>2. /\ cached' \in {NoLink} \cup FirstVersion .. MaxVersion
          /\ exp' \in Nat
      BY <1>10, <2>1 DEF LoadOk
    <2>3. degraded' \in BOOLEAN
      BY <1>10 DEF LoadOk
    <2>4. val' \in [Request -> {Unread} \cup Link]
      <3>1. val' = [val EXCEPT ![r] = answer[r]]
        BY <1>10 DEF LoadOk, EndLoad
      <3>2. answer[r] \in {Unread} \cup Link
        BY <2>1
      <3> QED
        BY <3>1, <3>2
    <2>5. /\ pc' \in [Request -> Location]
          /\ start' \in [Request -> Nat]
          /\ answer' \in [Request -> {Unread, NoLink}
                                        \cup FirstVersion .. MaxVersion]
      BY SMTT(40), <1>10 DEF LoadOk, EndLoad, Goto
    <2> QED
      BY <1>10, <2>2, <2>3, <2>4, <2>5 DEF LoadOk, EndLoad, store
  <1>11. ASSUME NEW r \in Request, LoadMalformed(r) PROVE TypeOK'
    BY <1>11 DEF LoadMalformed, EndLoad, Goto, Fallback, store
  <1>12. ASSUME NEW r \in Request, LoadError(r) PROVE TypeOK'
    BY <1>12 DEF LoadError, EndLoad, Goto, Fallback, store
  <1>13. ASSUME NEW r \in Request, LoadCancelled(r) PROVE TypeOK'
    BY <1>13 DEF LoadCancelled, EndLoad, Goto, Fallback, store, cache
  <1>14. ASSUME NEW r \in Request, LandFlight(r) PROVE TypeOK'
    BY <1>14 DEF LandFlight, Newer, store, cache
  <1>15. ASSUME NEW r \in Request, Wake(r) PROVE TypeOK'
    BY <1>15 DEF Wake, Return, Goto, Newer, store, cache
  <1>16. ASSUME NEW r \in Request, Cancel(r) PROVE TypeOK'
    BY <1>16 DEF Cancel, store, cache
  <1>17. ASSUME WriteParam PROVE TypeOK'
    <2>1. param' \in FirstVersion .. MaxVersion
      BY <1>17 DEF WriteParam
    <2>2. garbled' \in BOOLEAN
      BY <1>17 DEF WriteParam
    <2>3. writtenAt' \in [FirstVersion .. MaxVersion -> Nat]
      BY <1>17 DEF WriteParam
    <2>4. UNCHANGED <<config, now, cached, exp, degraded, leader, pc, val,
                      answer, start, cancelled, newest, floor>>
      BY <1>17 DEF WriteParam, cache
    <2> QED
      BY <2>1, <2>2, <2>3, <2>4
  <1>18. ASSUME Tick PROVE TypeOK'
    BY <1>18 DEF Tick, store, cache
  <1>19. ASSUME UNCHANGED vars PROVE TypeOK'
    BY <1>19 DEF vars, store, cache
  <1> QED
    BY <1>1, <1>2, <1>3, <1>4, <1>5, <1>6, <1>7, <1>8, <1>9, <1>10, <1>11,
       <1>12, <1>13, <1>14, <1>15, <1>16, <1>17, <1>18, <1>19 DEF Next, Step

(* In a cold process there is no flight. *)
LEMMA FlightInit == Init => FlightOK
  BY DEF Init, FlightOK, InFlight

(* A flight is led, landed and forgotten by one request. *)
LEMMA FlightStep == TypeOK /\ FlightOK /\ [Next]_vars => FlightOK'
  <1> SUFFICES ASSUME TypeOK, FlightOK, [Next]_vars PROVE FlightOK'
    OBVIOUS
  <1> USE DEF TypeOK, FlightOK, InFlight
  <1>1. ASSUME NEW r \in Request, Arrive(r) PROVE FlightOK'
    BY <1>1 DEF Arrive, Goto
  <1>2. ASSUME NEW r \in Request, ResolveEnv(r) PROVE FlightOK'
    BY <1>2 DEF ResolveEnv, Return, Goto
  <1>3. ASSUME NEW r \in Request, ResolveHit(r) PROVE FlightOK'
    BY <1>3 DEF ResolveHit, Return, Goto
  <1>4. ASSUME NEW r \in Request, ResolveMiss(r) PROVE FlightOK'
    BY <1>4 DEF ResolveMiss, Goto
  <1>5. ASSUME NEW r \in Request, LeadFlight(r) PROVE FlightOK'
    BY <1>5 DEF LeadFlight, Goto
  <1>6. ASSUME NEW r \in Request, JoinFlight(r) PROVE FlightOK'
    BY <1>6 DEF JoinFlight, Goto
  <1>7. ASSUME NEW r \in Request, RecheckHit(r) PROVE FlightOK'
    BY <1>7 DEF RecheckHit, Goto
  <1>8. ASSUME NEW r \in Request, StartFetch(r) PROVE FlightOK'
    BY <1>8 DEF StartFetch, Goto
  <1>9. ASSUME NEW r \in Request, StoreAnswer(r) PROVE FlightOK'
    BY <1>9 DEF StoreAnswer
  <1>10. ASSUME NEW r \in Request, LoadOk(r) PROVE FlightOK'
    BY <1>10 DEF LoadOk, EndLoad, Goto
  <1>11. ASSUME NEW r \in Request, LoadMalformed(r) PROVE FlightOK'
    BY <1>11 DEF LoadMalformed, EndLoad, Goto
  <1>12. ASSUME NEW r \in Request, LoadError(r) PROVE FlightOK'
    BY <1>12 DEF LoadError, EndLoad, Goto
  <1>13. ASSUME NEW r \in Request, LoadCancelled(r) PROVE FlightOK'
    BY <1>13 DEF LoadCancelled, EndLoad, Goto
  <1>14. ASSUME NEW r \in Request, LandFlight(r) PROVE FlightOK'
    BY <1>14 DEF LandFlight
  <1>15. ASSUME NEW r \in Request, Wake(r) PROVE FlightOK'
    BY <1>15 DEF Wake, Return, Goto
  <1>16. ASSUME NEW r \in Request, Cancel(r) PROVE FlightOK'
    BY <1>16 DEF Cancel
  <1>17. ASSUME WriteParam \/ Tick \/ UNCHANGED vars PROVE FlightOK'
    BY <1>17 DEF WriteParam, Tick, vars
  <1> QED
    BY <1>1, <1>2, <1>3, <1>4, <1>5, <1>6, <1>7, <1>8, <1>9, <1>10, <1>11,
       <1>12, <1>13, <1>14, <1>15, <1>16, <1>17 DEF Next, Step

(* In a cold process there is no fetch. *)
LEMMA FetchInit == Init => FetchOK
  BY DEF Init, FetchOK

(* No step of anyone else undoes what a running fetch knows. *)
LEMMA FetchStep == TypeOK /\ FlightOK /\ FetchOK /\ cached <= param /\ [Next]_vars
                      => FetchOK'
  <1> SUFFICES ASSUME TypeOK, FlightOK, FetchOK, cached <= param, [Next]_vars
               PROVE FetchOK'
    OBVIOUS
  <1> DEFINE Quiet == /\ UNCHANGED <<now, param, writtenAt, cached, exp, answer,
                                     start>>
                      /\ \A q \in Request :
                            pc'[q] = "fetch" => pc[q] = "fetch"
  <1>1. ASSUME Quiet PROVE FetchOK'
    BY <1>1 DEF FetchOK, FetchSound
  <1>2. ASSUME NEW r \in Request,
               \/ Arrive(r) \/ ResolveEnv(r) \/ ResolveHit(r) \/ ResolveMiss(r)
               \/ LeadFlight(r) \/ JoinFlight(r) \/ RecheckHit(r)
               \/ LandFlight(r) \/ Wake(r) \/ Cancel(r)
        PROVE Quiet
    <2>1. CASE Arrive(r)
      BY <2>1 DEF Arrive, Goto, store, cache
    <2>2. CASE ResolveEnv(r)
      BY <2>2 DEF ResolveEnv, Return, Goto, store, cache
    <2>3. CASE ResolveHit(r)
      BY <2>3 DEF ResolveHit, Return, Goto, store, cache
    <2>4. CASE ResolveMiss(r)
      BY <2>4 DEF ResolveMiss, Goto, store, cache
    <2>5. CASE LeadFlight(r)
      BY <2>5 DEF LeadFlight, Goto, store, cache
    <2>6. CASE JoinFlight(r)
      BY <2>6 DEF JoinFlight, Goto, store, cache
    <2>7. CASE RecheckHit(r)
      BY <2>7 DEF RecheckHit, Goto, store, cache
    <2>8. CASE LandFlight(r)
      BY <2>8 DEF LandFlight, store, cache
    <2>9. CASE Wake(r)
      BY <2>9 DEF Wake, Return, Goto, store, cache
    <2>10. CASE Cancel(r)
      BY <2>10 DEF Cancel, store, cache
    <2> QED
      BY <1>2, <2>1, <2>2, <2>3, <2>4, <2>5, <2>6, <2>7, <2>8, <2>9, <2>10
  <1>3. ASSUME NEW r \in Request, StartFetch(r) PROVE FetchOK'
    <2>1. exp <= now
      BY <1>3 DEF StartFetch, Fresh, TypeOK
    <2>2. SUFFICES ASSUME NEW q \in Request, pc'[q] = "fetch"
                   PROVE FetchSound(q)'
      BY DEF FetchOK
    <2>3. CASE q = r
      BY <1>3, <2>1, <2>3 DEF StartFetch, Goto, store, cache, TypeOK, FetchSound
    <2>4. CASE q # r
      BY <1>3, <2>2, <2>4 DEF StartFetch, Goto, store, cache,
                                 TypeOK, FetchOK, FetchSound
    <2> QED
      BY <2>3, <2>4
  <1>4. ASSUME NEW r \in Request, StoreAnswer(r) PROVE FetchOK'
    <2> SUFFICES ASSUME NEW q \in Request, pc'[q] = "fetch"
                 PROVE FetchSound(q)'
      BY DEF FetchOK
    <2>1. UNCHANGED <<now, param, writtenAt, cached, exp, start, pc>>
      BY <1>4 DEF StoreAnswer, store, cache
    <2>2. answer'[q] = answer[q] \/ answer'[q] = NoLink \/ answer'[q] = param
      BY <1>4 DEF StoreAnswer, TypeOK
    <2>3. FetchSound(q)
      BY <2>1 DEF FetchOK
    <2>4. param \in Nat
      BY DEF TypeOK
    <2> QED
      BY <2>1, <2>2, <2>3, <2>4 DEF FetchSound
  <1>5. ASSUME NEW r \in Request,
               \/ LoadOk(r) \/ LoadMalformed(r)
               \/ LoadError(r) \/ LoadCancelled(r)
        PROVE FetchOK'
    <2>1. \A q \in Request : pc'[q] # "fetch"
      BY <1>5 DEF LoadOk, LoadMalformed, LoadError, LoadCancelled, EndLoad, Goto,
                  FlightOK, InFlight, TypeOK
    <2> QED
      BY <2>1 DEF FetchOK
  <1>6. ASSUME WriteParam PROVE FetchOK'
    <2> SUFFICES ASSUME NEW q \in Request, pc'[q] = "fetch"
                 PROVE FetchSound(q)'
      BY DEF FetchOK
    <2>1. /\ UNCHANGED <<now, cached, exp, answer, start, pc>>
          /\ param' = param + 1
          /\ param + 1 \in FirstVersion .. MaxVersion
          /\ writtenAt' = [writtenAt EXCEPT ![param + 1] = now]
      BY <1>6 DEF WriteParam, cache, TypeOK
    <2>2. FetchSound(q)
      BY <2>1 DEF FetchOK
    <2>3. /\ param \in FirstVersion .. MaxVersion
          /\ writtenAt \in [FirstVersion .. MaxVersion -> Nat]
          /\ answer[q] \in Int /\ answer[q] <= MaxVersion
      BY DEF TypeOK
    <2>4. CASE answer[q] < FirstVersion
      BY <2>1, <2>2, <2>3, <2>4 DEF FetchSound
    <2>5. CASE answer[q] >= FirstVersion /\ answer[q] < param
      <3>1. writtenAt'[answer[q] + 1] = writtenAt[answer[q] + 1]
        BY <2>1, <2>3, <2>5
      <3> QED
        BY <2>1, <2>2, <2>3, <2>5, <3>1 DEF FetchSound
    <2>6. CASE answer[q] = param
      <3>1. writtenAt'[answer[q] + 1] = now
        BY <2>1, <2>3, <2>6
      <3> QED
        BY <2>1, <2>2, <2>3, <2>6, <3>1 DEF FetchSound
    <2> QED
      BY <2>2, <2>3, <2>4, <2>5, <2>6 DEF FetchSound
  <1>7. ASSUME Tick PROVE FetchOK'
    BY <1>7 DEF Tick, store, cache, TypeOK, FetchOK, FetchSound
  <1>8. ASSUME UNCHANGED vars PROVE FetchOK'
    BY <1>8 DEF vars, store, cache, FetchOK, FetchSound
  <1> QED
    BY <1>1, <1>2, <1>3, <1>4, <1>5, <1>6, <1>7, <1>8 DEF Next, Step

(* Nothing is cached yet. *)
LEMMA StaleInit == Init => StaleOK
  BY DEF Init, StaleOK

(* A load sets an expiry that bounds how stale its blob gets. *)
LEMMA StaleStep == TypeOK /\ FetchOK /\ StaleOK /\ [Next]_vars => StaleOK'
  <1> SUFFICES ASSUME TypeOK, FetchOK, StaleOK, [Next]_vars PROVE StaleOK'
    OBVIOUS
  <1>1. /\ now \in Nat /\ exp \in Nat
        /\ param \in FirstVersion .. MaxVersion
        /\ cached = NoLink \/ cached \in FirstVersion .. MaxVersion
        /\ writtenAt \in [FirstVersion .. MaxVersion -> Nat]
    BY DEF TypeOK
  <1>2. ASSUME UNCHANGED <<now, param, writtenAt, cached, exp, degraded>>
        PROVE StaleOK'
    BY <1>2 DEF StaleOK
  <1>3. ASSUME NEW r \in Request,
               \/ Arrive(r) \/ ResolveEnv(r) \/ ResolveHit(r)
               \/ ResolveMiss(r) \/ LeadFlight(r) \/ JoinFlight(r)
               \/ RecheckHit(r) \/ StartFetch(r) \/ StoreAnswer(r)
               \/ LoadCancelled(r) \/ LandFlight(r) \/ Wake(r)
               \/ Cancel(r)
        PROVE UNCHANGED <<now, param, writtenAt, cached, exp, degraded>>
    BY <1>3 DEF Arrive, ResolveEnv, ResolveHit, ResolveMiss, LeadFlight,
       JoinFlight, RecheckHit, StartFetch, StoreAnswer, LoadCancelled,
       LandFlight, Wake, Cancel, EndLoad, Return, store, cache
  <1>4. ASSUME NEW r \in Request, LoadOk(r) PROVE StaleOK'
    <2>1. /\ cached' = answer[r] /\ exp' = now + TTL
          /\ UNCHANGED <<now, param, writtenAt>>
      BY <1>4 DEF LoadOk, EndLoad, store
    <2>2. /\ FetchSound(r)
          /\ start[r] \in Nat
          /\ answer[r] \in FirstVersion .. MaxVersion
      BY <1>4, AnswerRange DEF LoadOk, FetchOK, TypeOK
    <2>3. ASSUME answer[r] < param
          PROVE exp' <= writtenAt[answer[r] + 1] + TTL + FetchTimeout
      <3>1. writtenAt[answer[r] + 1] \in Nat
        BY <1>1, <2>2, <2>3
      <3>2. /\ now <= start[r] + FetchTimeout
            /\ writtenAt[answer[r] + 1] >= start[r]
        BY <2>2, <2>3 DEF FetchSound
      <3>3. now <= writtenAt[answer[r] + 1] + FetchTimeout
        BY <1>1, <2>2, <3>1, <3>2
      <3> QED
        BY <1>1, <2>1, <3>1, <3>3
    <2>4. answer[r] <= param
      BY <2>2 DEF FetchSound
    <2> QED
      BY <1>1, <2>1, <2>2, <2>3, <2>4 DEF StaleOK
  <1>5. ASSUME NEW r \in Request, LoadMalformed(r) \/ LoadError(r) PROVE StaleOK'
    BY <1>5 DEF LoadMalformed, LoadError, EndLoad, store, StaleOK
  <1>6. ASSUME WriteParam PROVE StaleOK'
    <2>1. /\ UNCHANGED <<now, cached, exp, degraded>>
          /\ param' = param + 1
          /\ param + 1 \in FirstVersion .. MaxVersion
          /\ writtenAt' = [writtenAt EXCEPT ![param + 1] = now]
      BY <1>1, <1>6 DEF WriteParam, cache
    <2>2. CASE cached = param
      <3>1. writtenAt'[cached + 1] = now
        BY <1>1, <2>1, <2>2
      <3> QED
        BY <1>1, <2>1, <2>2, <3>1 DEF StaleOK
    <2>3. CASE cached # param /\ cached # NoLink
      <3>1. writtenAt'[cached + 1] = writtenAt[cached + 1]
        BY <1>1, <2>1, <2>3 DEF StaleOK
      <3> QED
        BY <1>1, <2>1, <2>3, <3>1 DEF StaleOK
    <2>4. CASE cached = NoLink
      BY <1>1, <2>1, <2>4 DEF StaleOK
    <2> QED
      BY <2>2, <2>3, <2>4
  <1>7. ASSUME Tick PROVE StaleOK'
    BY <1>1, <1>7 DEF Tick, store, cache, StaleOK
  <1>8. ASSUME UNCHANGED vars PROVE StaleOK'
    BY <1>2, <1>8 DEF vars, store, cache
  <1> QED
    BY <1>2, <1>3, <1>4, <1>5, <1>6, <1>7, <1>8 DEF Next, Step

(* Without a store nothing is cached at the start. *)
LEMMA NoStoreInit == Init => NoStoreOK
  BY DEF Init, NoStoreOK

(* Nor is it ever. *)
LEMMA NoStoreStep == TypeOK /\ NoStoreOK /\ [Next]_vars => NoStoreOK'
  <1> SUFFICES ASSUME TypeOK, NoStoreOK, [Next]_vars PROVE NoStoreOK'
    OBVIOUS
  <1>1. CASE config.source
    <2>1. config' = config
      BY DEF Next, Step, Arrive, ResolveEnv, ResolveHit, ResolveMiss, LeadFlight,
             JoinFlight, RecheckHit, StartFetch, StoreAnswer, LoadOk,
             LoadMalformed, LoadError, LoadCancelled, EndLoad, LandFlight, Wake,
             Cancel, WriteParam, Tick, vars
    <2> QED
      BY <1>1, <2>1 DEF NoStoreOK
  <1>2. ASSUME ~config.source, NEW r \in Request, Arrive(r) \/ ResolveEnv(r)
        PROVE NoStoreOK'
    BY <1>2 DEF Arrive, ResolveEnv, Return, Goto, cache, NoStoreOK, TypeOK
  <1>3. ASSUME ~config.source, NEW r \in Request, Step(r) PROVE ResolveEnv(r)
    <2>1. pc[r] \in {"idle", "resolve"}
      BY <1>3 DEF NoStoreOK
    <2> QED
      BY <1>3, <2>1 DEF Step, ResolveHit, ResolveMiss, LeadFlight, JoinFlight,
                        RecheckHit, StartFetch, LoadOk, LoadMalformed,
                        LoadError, LoadCancelled, LandFlight, Wake
  <1>4. ASSUME ~config.source,
               \/ \E r \in Request : StoreAnswer(r) \/ Cancel(r)
               \/ WriteParam \/ Tick \/ UNCHANGED vars
        PROVE NoStoreOK'
    BY <1>4 DEF StoreAnswer, Cancel, WriteParam, Tick, vars, cache, NoStoreOK
  <1> QED
    BY <1>1, <1>2, <1>3, <1>4 DEF Next

(* No blob has been given out at the start. *)
LEMMA MonoInit == Init => MonoOK
  BY DEF Init, MonoOK, MonoSound, Fallback

(* No step gives a caller a blob older than one given before. *)
LEMMA MonoStep ==
    TypeOK /\ FlightOK /\ FetchOK /\ NoStoreOK /\ MonoOK /\ [Next]_vars => MonoOK'
  <1> SUFFICES ASSUME TypeOK, FlightOK, FetchOK, NoStoreOK, MonoOK, [Next]_vars
               PROVE MonoOK'
    OBVIOUS
  <1>1. /\ newest \in Int /\ cached \in Int /\ config.env \in {NoLink, EnvLink}
        /\ Fallback \in Int
        /\ \A q \in Request : val[q] \in Int /\ floor[q] \in Int
    BY DEF TypeOK, Fallback
  <1>2. newest <= Fallback /\ config.env <= Fallback
    BY DEF MonoOK
  <1>3. ASSUME NEW q \in Request PROVE MonoSound(q)
    BY DEF MonoOK
  <1>4. ASSUME NEW r \in Request, Arrive(r) PROVE MonoOK'
    <2>1. UNCHANGED <<config, cached, newest, Fallback>>
      BY <1>4 DEF Arrive, cache, Fallback
    <2>2. ASSUME NEW q \in Request PROVE MonoSound(q)'
      BY <1>1, <1>3, <1>4, <2>1 DEF Arrive, Goto, MonoSound, TypeOK
    <2> QED
      BY <1>2, <2>1, <2>2 DEF MonoOK
  <1>5. ASSUME NEW r \in Request,
               ResolveEnv(r) \/ ResolveHit(r) \/ Wake(r)
        PROVE MonoOK'
    <2>1. UNCHANGED <<config, cached, floor, Fallback>>
      BY <1>5 DEF ResolveEnv, ResolveHit, Wake, cache, Fallback
    <2>2. PICK link \in Int : /\ Return(r, link)
                              /\ floor[r] <= link /\ link <= Fallback
      <3>1. CASE ResolveEnv(r)
        <4>1. Fallback = config.env
          BY <3>1 DEF ResolveEnv, NoStoreOK, Fallback
        <4> QED
          BY <1>1, <1>2, <1>3, <3>1, <4>1 DEF ResolveEnv, MonoSound
      <3>2. CASE ResolveHit(r)
        BY <1>1, <1>2, <1>3, <3>2 DEF ResolveHit, MonoSound
      <3>3. CASE Wake(r)
        BY <1>1, <1>2, <1>3, <3>3 DEF Wake, MonoSound
      <3> QED
        BY <1>5, <3>1, <3>2, <3>3
    <2>3. newest' \in Int /\ newest <= newest' /\ newest' <= Fallback
      BY <1>1, <1>2, <2>2 DEF Return, Newer
    <2>4. ASSUME NEW q \in Request PROVE MonoSound(q)'
      <3>1. CASE q = r
        BY <1>1, <1>3, <2>1, <2>2, <2>3, <3>1 DEF Return, Goto, MonoSound, TypeOK
      <3>2. CASE q # r
        <4>1. pc'[q] = pc[q] /\ val'[q] = val[q]
          BY <2>2, <3>2 DEF Return, Goto, TypeOK
        <4> QED
          BY <1>1, <1>3, <2>1, <2>3, <4>1 DEF MonoSound
      <3> QED
        BY <3>1, <3>2
    <2> QED
      BY <1>2, <2>1, <2>3, <2>4 DEF MonoOK
  <1>6. ASSUME NEW r \in Request,
               \/ ResolveMiss(r) \/ LeadFlight(r) \/ JoinFlight(r)
               \/ StartFetch(r) \/ StoreAnswer(r) \/ Cancel(r)
               \/ RecheckHit(r)
        PROVE MonoOK'
    <2>1. UNCHANGED <<config, cached, floor, newest, Fallback>>
      BY <1>6 DEF ResolveMiss, LeadFlight, JoinFlight, StartFetch, StoreAnswer,
                  Cancel, RecheckHit, cache, Fallback
    <2>2. ASSUME NEW q \in Request PROVE MonoSound(q)'
      <3>1. \/ pc'[q] = pc[q] /\ val'[q] = val[q]
            \/ pc'[q] \in {"join", "recheck", "wait", "fetch"}
            \/ pc'[q] = "land" /\ val'[q] = Fallback
        BY <1>6 DEF ResolveMiss, LeadFlight, JoinFlight, StartFetch, StoreAnswer,
                    Cancel, RecheckHit, Goto, TypeOK
      <3> QED
        BY <1>3, <2>1, <3>1 DEF MonoSound
    <2> QED
      BY <1>2, <2>1, <2>2 DEF MonoOK
  <1>7. ASSUME NEW r \in Request, NEW link \in Int, EndLoad(r, link),
               link = Fallback', Fallback <= Fallback', pc[r] = "fetch"
        PROVE MonoOK'
    <2>1. UNCHANGED <<config, floor, newest>>
      BY <1>7 DEF EndLoad
    <2>2. ASSUME NEW q \in Request PROVE MonoSound(q)'
      <3>1. CASE q = r
        BY <1>3, <1>7, <2>1, <3>1 DEF EndLoad, Goto, MonoSound, TypeOK
      <3>2. CASE q # r
        <4>1. pc'[q] = pc[q] /\ val'[q] = val[q] /\ pc[q] # "land"
          BY <1>7, <3>2 DEF EndLoad, Goto, TypeOK, FlightOK, InFlight
        <4> QED
          BY <1>3, <2>1, <4>1 DEF MonoSound
      <3> QED
        BY <3>1, <3>2
    <2> QED
      BY <1>1, <1>2, <1>7, <2>1, <2>2 DEF MonoOK
  <1>8. ASSUME NEW r \in Request, LoadOk(r) PROVE MonoOK'
    <2>1. /\ answer[r] \in FirstVersion .. MaxVersion
          /\ cached <= answer[r]
      BY <1>8, AnswerRange DEF LoadOk, FetchOK, FetchSound
    <2>2. /\ Fallback' = answer[r] /\ Fallback <= answer[r]
      BY <1>1, <1>8, <2>1 DEF LoadOk, Fallback
    <2> QED
      BY <1>7, <1>8, <2>1, <2>2 DEF LoadOk
  <1>9. ASSUME NEW r \in Request,
               LoadMalformed(r) \/ LoadError(r) \/ LoadCancelled(r)
        PROVE MonoOK'
    <2>1. Fallback' = Fallback
      BY <1>9 DEF LoadMalformed, LoadError, LoadCancelled, EndLoad, cache, Fallback
    <2> QED
      BY <1>1, <1>7, <1>9, <2>1 DEF LoadMalformed, LoadError, LoadCancelled
  <1>10. ASSUME NEW r \in Request, LandFlight(r) PROVE MonoOK'
    <2>1. UNCHANGED <<config, cached, floor, Fallback>>
      BY <1>10 DEF LandFlight, cache, Fallback
    <2>2. val[r] = Fallback /\ newest' = Fallback
      BY <1>1, <1>2, <1>3, <1>10 DEF LandFlight, MonoSound, Newer
    <2>3. ASSUME NEW q \in Request PROVE MonoSound(q)'
      <3>1. \/ pc'[q] \in {"idle", "wake"} /\ val'[q] = Fallback
            \/ pc'[q] = pc[q] /\ val'[q] = val[q] /\ pc[q] # "land"
        BY <1>10, <2>2 DEF LandFlight, TypeOK, FlightOK, InFlight
      <3> QED
        BY <1>1, <1>2, <1>3, <2>1, <2>2, <3>1 DEF MonoSound
    <2> QED
      BY <1>1, <1>2, <2>1, <2>2, <2>3 DEF MonoOK
  <1>11. ASSUME WriteParam \/ Tick \/ UNCHANGED vars PROVE MonoOK'
    <2>1. UNCHANGED <<config, cached, floor, newest, pc, val, Fallback>>
      BY <1>11 DEF WriteParam, Tick, vars, cache, Fallback
    <2> QED
      BY <1>2, <1>3, <2>1 DEF MonoOK, MonoSound
  <1> QED
    BY <1>4, <1>5, <1>6, <1>8, <1>9, <1>10, <1>11 DEF Next, Step

-----------------------------------------------------------------------------

(* The conjunction of the parts is an invariant of the cache. *)
THEOREM Invariance == Spec => []IInv
  <1>1. Init => IInv
    BY TypeInit, FlightInit, FetchInit, StaleInit, NoStoreInit, MonoInit DEF IInv
  <1>2. IInv /\ [Next]_vars => IInv'
    <2> SUFFICES ASSUME IInv, [Next]_vars PROVE IInv'
      OBVIOUS
    <2>1. TypeOK' /\ FlightOK' /\ StaleOK' /\ NoStoreOK' /\ MonoOK'
      BY TypeStep, FlightStep, StaleStep, NoStoreStep, MonoStep DEF IInv
    <2>2. FetchOK'
      BY FetchStep DEF IInv, StaleOK
    <2> QED
      BY <2>1, <2>2 DEF IInv
  <1> QED
    BY <1>1, <1>2, PTL DEF Spec

(* Every variable of the cache and of its callers keeps its type. *)
THEOREM TypeCorrect == Spec => []TypeOK
  BY Invariance, PTL DEF IInv

(* Of any number of callers that miss, at most one is reading SSM. *)
THEOREM Coalescing == Spec => []OneFetch
  <1>1. IInv => OneFetch
    BY DEF IInv, FlightOK, InFlight, OneFetch
  <1> QED
    BY <1>1, Invariance, PTL

(* SSM is read only when the cache was stale as the read began. *)
THEOREM FetchOnlyWhenStale == Spec => []NoFetchWhileFresh
  <1>1. IInv => NoFetchWhileFresh
    BY DEF IInv, FetchOK, FetchSound, NoFetchWhileFresh
  <1> QED
    BY <1>1, Invariance, PTL

(* No caller is given a blob older than one given before it arrived. *)
THEOREM Monotonic == Spec => []MonotonicReads
  <1>1. IInv => MonotonicReads
    BY DEF IInv, MonoOK, MonoSound, MonotonicReads, TypeOK
  <1> QED
    BY <1>1, Invariance, PTL

(* While reads succeed, a replaced blob is served at most TTL and one      *)
(* fetch after its replacement was written.                                *)
THEOREM BoundedStaleness == Spec => []StaleServeBounded
  <1>1. IInv => StaleServeBounded
    <2> SUFFICES ASSUME IInv, Fresh, ~degraded, cached # NoLink, cached < param
                 PROVE now < writtenAt[cached + 1] + TTL + FetchTimeout
      BY DEF StaleServeBounded
    <2>1. exp <= writtenAt[cached + 1] + TTL + FetchTimeout /\ now < exp
      BY DEF IInv, StaleOK, Fresh
    <2>2. /\ cached \in Int /\ cached \in FirstVersion .. MaxVersion
          /\ param \in FirstVersion .. MaxVersion
          /\ now \in Nat /\ exp \in Nat
          /\ writtenAt \in [FirstVersion .. MaxVersion -> Nat]
      BY DEF IInv, TypeOK
    <2>3. writtenAt[cached + 1] \in Nat
      BY <2>2
    <2> QED
      BY <2>1, <2>2, <2>3
  <1> QED
    BY <1>1, Invariance, PTL

(* What a flight caches is never older than what was cached before it. *)
THEOREM NoRegress == Spec => CachedNeverRegresses
  <1>1. IInv /\ [Next]_vars => [cached' >= cached]_cached
    <2> SUFFICES ASSUME IInv, [Next]_vars, cached' # cached
                 PROVE cached' >= cached
      OBVIOUS
    <2>1. PICK r \in Request : LoadOk(r)
      BY DEF Next, Step, Arrive, ResolveEnv, ResolveHit, ResolveMiss, LeadFlight,
             JoinFlight, RecheckHit, StartFetch, StoreAnswer, LoadMalformed,
             LoadError, LoadCancelled, LandFlight, Wake, Cancel, WriteParam,
             Tick, vars, cache
    <2>2. cached' = answer[r] /\ answer[r] \in FirstVersion .. MaxVersion
      BY <2>1, AnswerRange DEF LoadOk, IInv
    <2>3. cached <= answer[r]
      BY <2>1 DEF LoadOk, IInv, FetchOK, FetchSound
    <2> QED
      BY <2>2, <2>3 DEF IInv, TypeOK
  <1> QED
    BY <1>1, Invariance, PTL DEF Spec, CachedNeverRegresses

(* Only a load that succeeded, or one that failed by itself, makes the     *)
(* cache fresh; the first leaves a blob of the store in it.                *)
KeptOK == exp # 0 /\ ~degraded => cached # NoLink

(* However many callers are cancelled, a fresh cache that no failed read   *)
(* has degraded holds a blob of the store.                                 *)
THEOREM NeverPoisoned == Spec => []CancelNeverPoisons
  <1>1. Init => KeptOK
    BY DEF Init, KeptOK
  <1>2. TypeOK /\ KeptOK /\ [Next]_vars => KeptOK'
    <2> SUFFICES ASSUME TypeOK, KeptOK, [Next]_vars PROVE KeptOK'
      OBVIOUS
    <2>1. CASE UNCHANGED cache
      BY <2>1 DEF cache, KeptOK
    <2>2. ASSUME NEW r \in Request, LoadOk(r) PROVE KeptOK'
      BY <2>2 DEF LoadOk, KeptOK
    <2>3. ASSUME NEW r \in Request, LoadMalformed(r) \/ LoadError(r)
          PROVE KeptOK'
      BY <2>3 DEF LoadMalformed, LoadError, KeptOK
    <2>4. CASE \E r \in Request : \/ LoadOk(r) \/ LoadMalformed(r)
                                  \/ LoadError(r)
      BY <2>2, <2>3, <2>4
    <2>5. \/ UNCHANGED cache
          \/ \E r \in Request : LoadOk(r) \/ LoadMalformed(r) \/ LoadError(r)
      BY DEF Next, Step, Arrive, ResolveEnv, ResolveHit, ResolveMiss, LeadFlight,
             JoinFlight, RecheckHit, StartFetch, StoreAnswer, LoadCancelled,
             LandFlight, Wake, Cancel, WriteParam, Tick, vars, cache
    <2> QED
      BY <2>1, <2>4, <2>5
  <1>3. KeptOK => CancelNeverPoisons
    BY DEF KeptOK, CancelNeverPoisons, Fresh
  <1> QED
    BY <1>1, <1>2, <1>3, TypeCorrect, PTL DEF Spec

-----------------------------------------------------------------------------
(* Nobody waits for a flight that is not in the air *)

(* While a request waits, some request leads a flight. *)
WaitOK == \A r \in Request : pc[r] = "wait" => leader # NoRequest

(* A landing wakes every waiter as it drops the key; nothing else drops it. *)
LEMMA WaitStep == TypeOK /\ WaitOK /\ [Next]_vars => WaitOK'
  <1> SUFFICES ASSUME TypeOK, WaitOK, [Next]_vars PROVE WaitOK'
    OBVIOUS
  <1>1. ASSUME UNCHANGED leader,
               \A q \in Request : pc'[q] = "wait" => pc[q] = "wait"
        PROVE WaitOK'
    BY <1>1 DEF WaitOK
  <1>2. ASSUME NEW r \in Request, NEW l \in Location \ {"wait"}, Goto(r, l)
        PROVE \A q \in Request : pc'[q] = "wait" => pc[q] = "wait"
    BY <1>2 DEF Goto, TypeOK
  <1>3. ASSUME NEW r \in Request,
               \/ Arrive(r) \/ ResolveEnv(r) \/ ResolveHit(r) \/ ResolveMiss(r)
               \/ RecheckHit(r) \/ StartFetch(r) \/ LoadOk(r)
               \/ LoadMalformed(r) \/ LoadError(r) \/ LoadCancelled(r) \/ Wake(r)
        PROVE WaitOK'
    <2>1. UNCHANGED leader /\ \E l \in Location \ {"wait"} : Goto(r, l)
      BY <1>3 DEF Arrive, ResolveEnv, ResolveHit, ResolveMiss, RecheckHit,
                  StartFetch, LoadOk, LoadMalformed, LoadError, LoadCancelled,
                  EndLoad, Wake, Return
    <2> QED
      BY <1>1, <1>2, <2>1
  <1>4. ASSUME NEW r \in Request, LeadFlight(r) PROVE WaitOK'
    BY <1>4 DEF LeadFlight, WaitOK
  <1>5. ASSUME NEW r \in Request, JoinFlight(r) PROVE WaitOK'
    BY <1>5 DEF JoinFlight, WaitOK
  <1>6. ASSUME NEW r \in Request, LandFlight(r) PROVE WaitOK'
    BY <1>6 DEF LandFlight, WaitOK
  <1>7. ASSUME \/ \E r \in Request : StoreAnswer(r) \/ Cancel(r)
               \/ WriteParam \/ Tick \/ UNCHANGED vars
        PROVE WaitOK'
    BY <1>1, <1>7 DEF StoreAnswer, Cancel, WriteParam, Tick, vars
  <1> QED
    BY <1>3, <1>4, <1>5, <1>6, <1>7 DEF Next, Step

(* Every waiter's flight is being flown by the request that leads it, so   *)
(* ResolveReturns needs nothing but that this request goes on.             *)
THEOREM WaitersHaveAFlight == Spec => []NobodyStranded
  <1>1. Init => WaitOK
    BY DEF Init, WaitOK
  <1>2. IInv /\ WaitOK => NobodyStranded
    BY DEF IInv, TypeOK, FlightOK, InFlight, WaitOK, NobodyStranded
  <1> QED
    BY <1>1, <1>2, WaitStep, TypeCorrect, Invariance, PTL DEF Spec

-----------------------------------------------------------------------------
(* The cache implements LinkFeed *)

(* A cold process has served nobody. *)
LEMMA FeedInit == Init => LF!Init
  BY DEF Init, LF!Init, LF!Nothing, Offered, Inside, Given

(* No caller can see a step at which no call begins or returns. *)
LEMMA Unseen ==
  ASSUME UNCHANGED <<Offered, newest, floor>>,
         \A q \in Request : /\ pc'[q] = "idle" <=> pc[q] = "idle"
                            /\ pc[q] = "idle" => val'[q] = val[q]
  PROVE  UNCHANGED LF!vars
  BY DEF LF!vars, Inside, Given

(* What a call may return: what the fallback is or was since it began.     *)
LEMMA Served ==
  ASSUME IInv, NEW r \in Request, NEW link \in Int, floor[r] <= link,
         link <= Fallback,
         pc[r] # "idle", pc'[r] = "idle", val'[r] = link,
         newest' = Newer(newest, link), UNCHANGED <<config, param, floor>>,
         \A q \in Request \ {r} : /\ pc'[q] = "idle" <=> pc[q] = "idle"
                                  /\ pc[q] = "idle" => val'[q] = val[q]
  PROVE  LF!Give(r)
  <1>1. link \in floor[r] .. Offered
    <2>1. Fallback <= Offered
      BY DEF IInv, TypeOK, StaleOK, NoStoreOK, Fallback, Offered
    <2>2. floor[r] \in Int /\ Offered \in Int /\ Fallback \in Int
      BY DEF IInv, TypeOK, Fallback, Offered
    <2> QED
      BY <2>1, <2>2
  <1>2. r \in Inside /\ Inside' = Inside \ {r}
    BY DEF Inside
  <1>3. Given' = [Given EXCEPT ![r] = link]
    BY DEF Given
  <1>4. newest' = IF link > newest THEN link ELSE newest
    BY DEF Newer, IInv, TypeOK
  <1>5. UNCHANGED <<Offered, floor>>
    BY DEF Offered
  <1> QED
    BY <1>1, <1>2, <1>3, <1>4, <1>5 DEF LF!Give

(* Every step is a step of LinkFeed or is not seen by any caller. *)
LEMMA FeedStep == IInv /\ [Next]_vars => [LF!Next]_(LF!vars)
  <1> SUFFICES ASSUME IInv, [Next]_vars PROVE [LF!Next]_(LF!vars)
    OBVIOUS
  <1>1. /\ newest \in Int /\ Fallback \in Int /\ config.env \in Int
        /\ \A q \in Request : val[q] \in Int /\ floor[q] \in Int
        /\ pc \in [Request -> Location]
        /\ val \in [Request -> {Unread} \cup Link]
    BY DEF IInv, TypeOK, Fallback
  <1>2. ASSUME NEW q \in Request PROVE MonoSound(q) /\ newest <= Fallback
    BY DEF IInv, MonoOK
  <1>3. ASSUME NEW r \in Request, Arrive(r) PROVE LF!Call(r)
    <2>1. UNCHANGED <<Offered, newest>>
      BY <1>3 DEF Arrive, Offered, store
    <2>2. r \notin Inside /\ Inside' = Inside \cup {r}
      BY <1>1, <1>3 DEF Arrive, Goto, Inside
    <2>3. Given' = [Given EXCEPT ![r] = Unread]
      BY <1>1, <1>3 DEF Arrive, Goto, Given
    <2> QED
      BY <1>3, <2>1, <2>2, <2>3 DEF Arrive, LF!Call, LF!Nothing
  <1>4. ASSUME NEW r \in Request, ResolveEnv(r) \/ ResolveHit(r) \/ Wake(r)
        PROVE LF!Give(r)
    <2>1. PICK link \in Int : /\ Return(r, link)
                              /\ floor[r] <= link /\ link <= Fallback
      <3>1. CASE ResolveEnv(r)
        <4>1. Fallback = config.env
          BY <3>1 DEF ResolveEnv, IInv, NoStoreOK, Fallback
        <4> QED
          BY <1>1, <1>2, <3>1, <4>1 DEF ResolveEnv, MonoSound
      <3>2. CASE ResolveHit(r)
        BY <1>1, <1>2, <3>2 DEF ResolveHit, MonoSound
      <3>3. CASE Wake(r)
        BY <1>1, <1>2, <3>3 DEF Wake, MonoSound
      <3> QED
        BY <1>4, <3>1, <3>2, <3>3
    <2>2. pc[r] # "idle" /\ UNCHANGED <<config, param, floor>>
      BY <1>4 DEF ResolveEnv, ResolveHit, Wake, store
    <2>3. /\ pc'[r] = "idle" /\ val'[r] = link
          /\ newest' = Newer(newest, link)
          /\ \A q \in Request \ {r} : pc'[q] = pc[q] /\ val'[q] = val[q]
      BY <1>1, <2>1 DEF Return, Goto
    <2> QED
      BY <2>1, <2>2, <2>3, Served
  <1>5. ASSUME NEW r \in Request, LandFlight(r) PROVE LF!Give(r)
    <2>1. val[r] = Fallback /\ floor[r] <= val[r]
      BY <1>1, <1>2, <1>5 DEF LandFlight, MonoSound
    <2>2. /\ pc[r] # "idle" /\ pc'[r] = "idle" /\ val'[r] = val[r]
          /\ newest' = Newer(newest, val[r])
          /\ UNCHANGED <<config, param, floor>>
      BY <1>1, <1>5 DEF LandFlight, store
    <2>3. \A q \in Request \ {r} : /\ pc'[q] = "idle" <=> pc[q] = "idle"
                                   /\ pc[q] = "idle" => val'[q] = val[q]
      BY <1>1, <1>5 DEF LandFlight
    <2> QED
      BY <1>1, <2>1, <2>2, <2>3, Served
  <1>6. ASSUME NEW r \in Request,
               \/ ResolveMiss(r) \/ LeadFlight(r) \/ JoinFlight(r)
               \/ RecheckHit(r) \/ StartFetch(r) \/ StoreAnswer(r)
               \/ LoadOk(r) \/ LoadMalformed(r) \/ LoadError(r)
               \/ LoadCancelled(r) \/ Cancel(r)
        PROVE UNCHANGED LF!vars
    <2>1. UNCHANGED <<Offered, newest, floor>> /\ pc[r] # "idle"
      BY <1>6 DEF ResolveMiss, LeadFlight, JoinFlight, RecheckHit, StartFetch,
                  StoreAnswer, LoadOk, LoadMalformed, LoadError, LoadCancelled,
                  EndLoad, Cancel, store, Offered
    <2>2. \/ UNCHANGED pc
          \/ \E l \in Location \ {"idle"} : Goto(r, l)
      BY <1>6 DEF ResolveMiss, LeadFlight, JoinFlight, RecheckHit, StartFetch,
                  StoreAnswer, LoadOk, LoadMalformed, LoadError, LoadCancelled,
                  EndLoad, Cancel
    <2>3. \A q \in Request \ {r} : val'[q] = val[q]
      BY <1>1, <1>6 DEF ResolveMiss, LeadFlight, JoinFlight, RecheckHit,
                        StartFetch, StoreAnswer, LoadOk, LoadMalformed,
                        LoadError, LoadCancelled, EndLoad, Cancel
    <2>4. \A q \in Request : pc'[q] = "idle" <=> pc[q] = "idle"
      BY <1>1, <2>1, <2>2 DEF Goto
    <2> QED
      BY <2>1, <2>3, <2>4, Unseen
  <1>7. ASSUME WriteParam PROVE LF!Offer \/ UNCHANGED LF!vars
    <2>1. UNCHANGED <<config, newest, floor, pc, val, Inside, Given>>
      BY <1>7 DEF WriteParam, Inside, Given
    <2>2. Offered' = Offered \/ Offered' > Offered
      BY <1>7, <2>1 DEF WriteParam, Offered, IInv, TypeOK
    <2> QED
      BY <2>1, <2>2 DEF LF!Offer, LF!vars
  <1>8. ASSUME Tick \/ UNCHANGED vars PROVE UNCHANGED LF!vars
    BY <1>8 DEF Tick, vars, store, Offered, Inside, Given, LF!vars
  <1> QED
    BY <1>3, <1>4, <1>5, <1>6, <1>7, <1>8 DEF Next, Step, LF!Next

(* For any number of callers, faults, writes and cancellations, what the   *)
(* callers of Resolve see is one blob that only moves forward.             *)
THEOREM FeedRefinement == Spec => ImplementsLinkFeed
  <1> QED
    BY FeedInit, FeedStep, Invariance, PTL DEF Spec, LF!Spec, ImplementsLinkFeed

=============================================================================
