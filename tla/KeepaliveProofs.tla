-------------------------- MODULE KeepaliveProofs ---------------------------
(***************************************************************************)
(* Proofs about Keepalive for every number of events, of deliveries and of *)
(* write attempts.  What holds only while events do not overlap is stated  *)
(* under ~Overlap.                                                         *)
(***************************************************************************)
EXTENDS KeepaliveHistory, TLAPS

USE DeliveryAssumption, PutAssumption, ReplyAssumption, SwitchAssumption,
    MintAssumption
    DEF NoToken, Location, CheckedIn, Running, Active, InFlight

-----------------------------------------------------------------------------
(* Types *)

(* An event that waits for a delivery has one left. *)
TriesOK == \A e \in Event :
              pc[e] \in {"unfired", "queued"} => tries[e] < MaxDeliveries

(* Before the first event, the types and the deliveries left. *)
LEMMA TypeInit == Init => TypeOK /\ TriesOK
  BY DEF Init, TypeOK, TriesOK

(* What the end of an invocation leaves behind. *)
LEMMA EndType ==
  ASSUME TypeOK, NEW e \in Event, NEW l \in Location, End(e, l)
  PROVE  /\ pc' \in [Event -> Location]
         /\ token' \in [Event -> 0 .. issued]
         /\ token' \in [Event -> 0 .. issued + 1]
         /\ puts' \in [Event -> 0 .. PutAttempts]
  <1>1. pc' \in [Event -> Location]
    BY DEF End, Goto, TypeOK
  <1>2. token' \in [Event -> 0 .. issued]
    BY DEF End, TypeOK
  <1>3. token' \in [Event -> 0 .. issued + 1]
    BY <1>2 DEF TypeOK
  <1>4. puts' \in [Event -> 0 .. PutAttempts]
    BY DEF End, TypeOK
  <1> QED
    BY <1>1, <1>2, <1>3, <1>4

(* An invocation that fails is queued again or settled. *)
LEMMA RedeliverEnds ==
  ASSUME NEW e \in Event, Redeliver(e)
  PROVE  \E l \in {"queued", "settled"} : End(e, l)
  BY DEF Redeliver

(* What a rotation at Twitch does to its tokens. *)
LEMMA RotateType ==
  ASSUME TypeOK, NEW e \in Event, Rotate(e)
  PROVE  /\ issued' \in Nat \ {0}
         /\ issued' = issued + 1
         /\ live' \in SUBSET (1 .. issued')
         /\ stored \in 0 .. issued'
         /\ token \in [Event -> 0 .. issued']
  <1>1. issued' = issued + 1 /\ issued \in Nat \ {0} /\ token[e] \in 0 .. issued
    BY DEF Rotate, TypeOK
  <1>2. live' \in SUBSET (1 .. issued')
    <2>1. \A t \in live' : t \in live \/ t = issued + 1
      BY DEF Rotate
    <2>2. \A t \in live : t \in 1 .. issued
      BY DEF TypeOK
    <2> QED
      BY <1>1, <2>1, <2>2
  <1>3. stored \in 0 .. issued'
    BY <1>1 DEF TypeOK
  <1>4. token \in [Event -> 0 .. issued']
    BY <1>1 DEF TypeOK
  <1> QED
    BY <1>1, <1>2, <1>3, <1>4

(* Every step of the keepalive and of Twitch keeps the types. *)
LEMMA TypeStep == TypeOK /\ TriesOK /\ [Next]_vars => TypeOK'
  <1> SUFFICES ASSUME TypeOK, TriesOK, [Next]_vars PROVE TypeOK'
    OBVIOUS
  <1> USE DEF TypeOK
  <1>1. ASSUME NEW e \in Event, Fire(e) PROVE TypeOK'
    BY <1>1 DEF Fire, Goto, twitch, local
  <1>2. ASSUME NEW e \in Event, Deliver(e) PROVE TypeOK'
    <2>1. tries' \in [Event -> 0 .. MaxDeliveries]
      <3>1. tries[e] + 1 \in 0 .. MaxDeliveries
        BY <1>2 DEF Deliver, TriesOK
      <3> QED
        BY <1>2, <3>1 DEF Deliver
    <2> QED
      BY <1>2, <2>1 DEF Deliver, Goto, twitch, local
  <1>3. ASSUME NEW e \in Event, DeliverDisabled(e) PROVE TypeOK'
    BY <1>3 DEF DeliverDisabled, Goto, twitch, local
  <1>4. ASSUME NEW e \in Event, Crash(e) PROVE TypeOK'
    BY <1>4 DEF Crash, Redeliver, End, Goto, twitch, local
  <1>5. ASSUME NEW e \in Event, GetBlob(e) PROVE TypeOK'
    BY <1>5 DEF GetBlob, Goto, twitch, local
  <1>6. ASSUME NEW e \in Event, GetBlobFails(e) PROVE TypeOK'
    BY <1>6 DEF GetBlobFails, Fail, Redeliver, End, Goto, twitch, local
  <1>7. ASSUME NEW e \in Event, RefreshOk(e) PROVE TypeOK'
    <2>1. /\ issued' = issued + 1 /\ issued' \in Nat \ {0}
          /\ live' \in SUBSET (1 .. issued') /\ stored \in 0 .. issued'
          /\ token \in [Event -> 0 .. issued']
      BY <1>7, RotateType DEF RefreshOk
    <2>2. token' \in [Event -> 0 .. issued']
      BY <1>7, <2>1 DEF RefreshOk
    <2>3. puts' \in [Event -> 0 .. PutAttempts] /\ pc' \in [Event -> Location]
      BY <1>7 DEF RefreshOk, Goto
    <2> QED
      BY <1>7, <2>1, <2>2, <2>3 DEF RefreshOk
  <1>8. ASSUME NEW e \in Event, RefreshUnusable(e) PROVE TypeOK'
    <2>1. /\ issued' = issued + 1 /\ issued' \in Nat \ {0}
          /\ live' \in SUBSET (1 .. issued') /\ stored \in 0 .. issued'
      BY <1>8, RotateType DEF RefreshUnusable
    <2>2. /\ pc' \in [Event -> Location]
          /\ token' \in [Event -> 0 .. issued']
          /\ puts' \in [Event -> 0 .. PutAttempts]
      BY <1>8, <2>1, RedeliverEnds, EndType DEF RefreshUnusable, Fail
    <2> QED
      BY <1>8, <2>1, <2>2 DEF RefreshUnusable, Fail
  <1>9. ASSUME NEW e \in Event, RefreshFails(e) PROVE TypeOK'
    BY <1>9 DEF RefreshFails, Fail, Redeliver, End, Goto, twitch, local
  <1>10. ASSUME NEW e \in Event, PutOk(e) PROVE TypeOK'
    BY <1>10 DEF PutOk, Write, End, Goto, twitch, local
  <1>11. ASSUME NEW e \in Event, PutRetry(e) PROVE TypeOK'
    <2>1. stored' \in 0 .. issued
      BY <1>11 DEF PutRetry, MaybeWrite, Write
    <2>2. puts' \in [Event -> 0 .. PutAttempts]
      BY <1>11 DEF PutRetry
    <2> QED
      BY <1>11, <2>1, <2>2 DEF PutRetry, twitch
  <1>12. ASSUME NEW e \in Event, PutGiveUp(e) PROVE TypeOK'
    <2>1. stored' \in 0 .. issued
      BY <1>12 DEF PutGiveUp, MaybeWrite, Write
    <2>2. /\ pc' \in [Event -> Location]
          /\ token' \in [Event -> 0 .. issued]
          /\ puts' \in [Event -> 0 .. PutAttempts]
      BY <1>12, EndType DEF PutGiveUp
    <2> QED
      BY <1>12, <2>1, <2>2 DEF PutGiveUp, twitch
  <1>13. ASSUME NEW e \in Event, Finish(e) \/ Return(e) PROVE TypeOK'
    BY <1>13 DEF Finish, Return, Goto, twitch, local
  <1>14. ASSUME Mint PROVE TypeOK'
    BY <1>14 DEF Mint, twitch, local
  <1>15. ASSUME Toggle \/ UNCHANGED vars PROVE TypeOK'
    BY <1>15 DEF Toggle, vars, twitch, local
  <1> QED
    BY <1>1, <1>2, <1>3, <1>4, <1>5, <1>6, <1>7, <1>8, <1>9, <1>10, <1>11,
       <1>12, <1>13, <1>14, <1>15 DEF Next, Step

(* No event is queued when its deliveries are used up. *)
LEMMA TriesStep == TypeOK /\ TriesOK /\ [Next]_vars => TriesOK'
  <1> SUFFICES ASSUME TypeOK, TriesOK, [Next]_vars PROVE TriesOK'
    OBVIOUS
  <1>1. ASSUME NEW e \in Event, Redeliver(e), UNCHANGED tries PROVE TriesOK'
    BY <1>1 DEF Redeliver, End, Goto, TypeOK, TriesOK
  <1>2. ASSUME NEW e \in Event,
               \/ Crash(e) \/ GetBlobFails(e) \/ RefreshUnusable(e) \/ RefreshFails(e)
        PROVE TriesOK'
    BY <1>1, <1>2 DEF Crash, GetBlobFails, RefreshUnusable, RefreshFails, Fail
  <1>3. ASSUME NEW e \in Event,
               \/ Fire(e) \/ Deliver(e) \/ DeliverDisabled(e) \/ GetBlob(e)
               \/ RefreshOk(e) \/ PutOk(e) \/ PutRetry(e) \/ PutGiveUp(e)
               \/ Finish(e) \/ Return(e)
        PROVE TriesOK'
    BY <1>3 DEF Fire, Deliver, DeliverDisabled, GetBlob, RefreshOk, PutOk, PutRetry,
                PutGiveUp, Finish, Return, End, Goto, TypeOK, TriesOK
  <1>4. ASSUME Mint \/ Toggle \/ UNCHANGED vars PROVE TriesOK'
    BY <1>4 DEF Mint, Toggle, vars, TriesOK
  <1> QED
    BY <1>2, <1>3, <1>4 DEF Next, Step

(* Every variable of the keepalive, of Twitch and of SSM keeps its type. *)
THEOREM TypeCorrect == Spec => []TypeOK
  BY TypeInit, TypeStep, TriesStep, PTL DEF Spec

-----------------------------------------------------------------------------
(* No event goes round for ever *)

(* An event keeps its place, its deliveries and its writes. *)
Stays(e) == UNCHANGED <<pc[e], tries[e], puts[e]>>

(* What moves one event on leaves the others where they are. *)
LEMMA OthersStay ==
  ASSUME TypeOK, NEW e \in Event, NEW l \in Location, Goto(e, l),
         tries' = tries \/ tries' = [tries EXCEPT ![e] = @ + 1],
         \A f \in Event \ {e} : puts'[f] = puts[f]
  PROVE  \A f \in Event \ {e} : Stays(f)
  BY DEF Goto, TypeOK, Stays

(* An invocation that ends has come further, queued again or not. *)
LEMMA EndAdvances ==
  ASSUME TypeOK, NEW e \in Event, NEW l \in {"saved", "closed", "queued", "settled"},
         Active(e), l \in {"saved", "closed"} => pc[e] = "put", End(e, l), UNCHANGED tries
  PROVE  \A f \in Event : Stays(f) \/ Further(f)
  <1>1. \A f \in Event \ {e} : Stays(f)
    BY OthersStay DEF End, TypeOK
  <1>2. pc'[e] = l /\ tries'[e] = tries[e]
    BY DEF End, Goto, TypeOK
  <1>3. pc[e] \in Running /\ Progress(l) > Progress(pc[e])
    BY DEF Progress
  <1>4. Further(e)
    BY <1>2, <1>3 DEF Further
  <1> QED
    BY <1>1, <1>4

(* A step to a place further on, within a delivery. *)
LEMMA MoveAdvances ==
  ASSUME TypeOK, NEW e \in Event, NEW l \in Location, Goto(e, l),
         Progress(l) > Progress(pc[e]), UNCHANGED tries,
         \A f \in Event \ {e} : puts'[f] = puts[f]
  PROVE  \A f \in Event : Stays(f) \/ Further(f)
  <1>1. \A f \in Event \ {e} : Stays(f)
    BY OthersStay
  <1>2. pc'[e] = l
    BY DEF Goto, TypeOK
  <1>3. Further(e)
    BY <1>2 DEF Further
  <1> QED
    BY <1>1, <1>3

(* Whatever happens, with or without overlap, kills included, an event     *)
(* stays where it is or gets further.                                      *)
LEMMA AdvanceStep ==
  TypeOK /\ [Next]_vars => \A f \in Event : Stays(f) \/ Further(f)
  <1> SUFFICES ASSUME TypeOK, [Next]_vars
               PROVE \A f \in Event : Stays(f) \/ Further(f)
    OBVIOUS
  <1>1. ASSUME NEW e \in Event, Deliver(e)
        PROVE \A f \in Event : Stays(f) \/ Further(f)
    <2>1. \A f \in Event \ {e} : Stays(f)
      BY <1>1, OthersStay DEF Deliver, local
    <2>2. tries[e] \in Int /\ tries'[e] = tries[e] + 1
      BY <1>1 DEF Deliver, TypeOK
    <2>3. Further(e)
      BY <2>2 DEF Further
    <2> QED
      BY <2>1, <2>3
  <1>2. ASSUME NEW e \in Event,
               \/ Fire(e) \/ DeliverDisabled(e) \/ GetBlob(e) \/ RefreshOk(e)
               \/ Finish(e) \/ Return(e)
        PROVE \A f \in Event : Stays(f) \/ Further(f)
    <2>1. PICK l \in Location :
             Goto(e, l) /\ Progress(l) > Progress(pc[e])
      BY <1>2 DEF Fire, DeliverDisabled, GetBlob, RefreshOk, Finish, Return,
                  Progress
    <2>2. UNCHANGED tries /\ \A f \in Event \ {e} : puts'[f] = puts[f]
      BY <1>2 DEF Fire, DeliverDisabled, GetBlob, RefreshOk, Finish, Return,
                  local, TypeOK
    <2> QED
      BY <2>1, <2>2, MoveAdvances
  <1>3. ASSUME NEW e \in Event,
               \/ Crash(e) \/ GetBlobFails(e) \/ RefreshUnusable(e)
               \/ RefreshFails(e) \/ PutOk(e) \/ PutGiveUp(e)
        PROVE \A f \in Event : Stays(f) \/ Further(f)
    <2>1. Active(e) /\ UNCHANGED tries
      BY <1>3 DEF Crash, GetBlobFails, RefreshUnusable, RefreshFails, PutOk,
                  PutGiveUp
    <2>2. \/ \E l \in {"queued", "settled"} : End(e, l)
          \/ pc[e] = "put" /\ \E l \in {"saved", "closed"} : End(e, l)
      BY <1>3, RedeliverEnds DEF Crash, GetBlobFails, RefreshUnusable,
                  RefreshFails, Fail, PutOk, PutGiveUp
    <2> QED
      BY <2>1, <2>2, EndAdvances
  <1>4. ASSUME NEW e \in Event, PutRetry(e)
        PROVE \A f \in Event : Stays(f) \/ Further(f)
    <2>1. /\ UNCHANGED <<pc, tries>>
          /\ puts'[e] = puts[e] + 1 /\ puts[e] \in Int
          /\ \A f \in Event \ {e} : puts'[f] = puts[f]
      BY <1>4 DEF PutRetry, TypeOK
    <2>2. Further(e)
      BY <2>1 DEF Further
    <2> QED
      BY <2>1, <2>2 DEF Stays
  <1>5. ASSUME Mint \/ Toggle \/ UNCHANGED vars
        PROVE \A f \in Event : Stays(f)
    BY <1>5 DEF Mint, Toggle, vars, local, Stays
  <1> QED
    BY <1>1, <1>2, <1>3, <1>4, <1>5 DEF Next, Step

(* With a bounded number of deliveries and of writes (TypeOK), this is why *)
(* an event that is delivered must settle.                                 *)
THEOREM NoEndlessEvent == Spec => EventAdvances
  <1>1. TypeOK /\ [Next]_vars
           => [\A e \in Event : \/ UNCHANGED <<pc[e], tries[e], puts[e]>>
                                \/ Further(e)]_vars
    BY AdvanceStep DEF Stays
  <1> QED
    BY <1>1, TypeCorrect, PTL DEF Spec, EventAdvances

-----------------------------------------------------------------------------
(* No login is rotated twice by one event *)

(* The history variables watch: every behaviour with them is one without.  *)
THEOREM HistoryAddsNothing == HistorySpec => Spec
  <1>1. HistoryInit => Init
    BY DEF HistoryInit
  <1>2. [HistoryNext]_allVars => [Next]_vars
    BY DEF HistoryNext, HistoryStep, Next, allVars
  <1> QED
    BY <1>1, <1>2, PTL DEF HistorySpec, Spec

(* The history variables have their types. *)
HistoryOK == /\ login \in [1 .. issued -> 1 .. issued]
             /\ spent \in [Event -> SUBSET (1 .. issued)]
             /\ killed \in [Event -> SUBSET (1 .. issued)]

(* Of each login Twitch accepts one token. *)
OneLive == \A t, u \in live : login[t] = login[u] => t = u

(* Where an event may still come to rotate a token. *)
MayRotate(e) == pc[e] \in {"unfired", "queued", "get", "twitch"}

(* Token t is where some invocation could find it. *)
InReach(t) == t = stored \/ \E f \in Event : t = token[f]

(* What an event has rotated and then answered for is out of reach: its    *)
(* living successor is nowhere the event, or another, could find it.       *)
SpentOK == \A e \in Event : MayRotate(e) =>
              \A t \in live : login[t] \in spent[e] \ killed[e] => ~InReach(t)

RInv == TypeOK /\ HistoryOK /\ OneLive /\ SpentOK

(* Twitch issues a token of login l. *)
LEMMA IssueType ==
  ASSUME TypeOK, HistoryOK, issued' = issued + 1, NEW l \in 1 .. issued',
         Issued(l)
  PROVE  /\ login' \in [1 .. issued' -> 1 .. issued']
         /\ login'[issued + 1] = l
         /\ \A t \in 1 .. issued : login'[t] = login[t]
  <1>1. issued \in Nat \ {0} /\ \A t \in 1 .. issued : login[t] \in 1 .. issued'
    BY DEF TypeOK, HistoryOK
  <1>2. \A t \in 1 .. issued' : t # issued' => t \in 1 .. issued
    BY <1>1
  <1> QED
    BY <1>1, <1>2 DEF Issued

(* A step in which Twitch issues nothing and the histories stay as they    *)
(* are, and which brings no token from elsewhere into reach.               *)
LEMMA NothingIssued ==
  ASSUME RInv, UNCHANGED <<twitch, history>>,
         \A t \in live : InReach(t)' => InReach(t),
         \A e \in Event : MayRotate(e)' => MayRotate(e)
  PROVE  HistoryOK' /\ OneLive' /\ SpentOK'
  BY DEF RInv, HistoryOK, OneLive, SpentOK, twitch, history

(* Rotating a token that could be found leaves no event with its login     *)
(* spent, unless it was the one that rotated it.                           *)
LEMMA RotationStep ==
  ASSUME RInv, NEW e \in Event, Rotate(e), Recorded(e),
         \A f \in Event : MayRotate(f)' => MayRotate(f),
         UNCHANGED stored,
         \/ ~MayRotate(e)' /\ token' = [token EXCEPT ![e] = issued + 1]
         \/ token' = [token EXCEPT ![e] = NoToken]
  PROVE  HistoryOK' /\ OneLive' /\ SpentOK'
  <1> DEFINE l == login[token[e]]
             n == issued + 1
  <1>1. /\ issued \in Nat \ {0} /\ issued' = n /\ n # issued
        /\ live \subseteq 1 .. issued /\ token[e] \in live /\ l \in 1 .. issued
        /\ live' = (live \ {token[e]}) \cup {n} /\ n \notin 1 .. issued
    BY DEF RInv, TypeOK, HistoryOK, Rotate
  <1>2. /\ Issued(l) /\ UNCHANGED killed
        /\ spent' = [spent EXCEPT ![e] = @ \cup {l}]
    BY <1>1 DEF Recorded
  <1>3. /\ login' \in [1 .. issued' -> 1 .. issued']
        /\ login'[n] = l
        /\ \A t \in 1 .. issued : login'[t] = login[t]
    BY <1>1, <1>2, IssueType DEF RInv
  <1>4. HistoryOK'
    <2>1. 1 .. issued \subseteq 1 .. issued'
      BY <1>1
    <2> QED
      BY <1>1, <1>2, <1>3, <2>1 DEF RInv, HistoryOK
  <1>5. OneLive'
    <2> SUFFICES ASSUME NEW t \in live', NEW u \in live', login'[t] = login'[u]
                 PROVE t = u
      BY DEF OneLive
    <2>1. CASE t = n \/ u = n
      BY <1>1, <1>3, <2>1 DEF RInv, OneLive
    <2>2. CASE t # n /\ u # n
      BY <1>1, <1>3, <2>2 DEF RInv, OneLive
    <2> QED
      BY <2>1, <2>2
  <1>6. SpentOK'
    <2> SUFFICES ASSUME NEW f \in Event, MayRotate(f)', NEW t \in live',
                        login'[t] \in spent'[f] \ killed'[f], InReach(t)'
                 PROVE FALSE
      BY DEF SpentOK
    <2>1. MayRotate(f)
      OBVIOUS
    <2>2. InReach(token[e])
      BY DEF InReach
    <2>3. CASE t = n
      <3>1. stored # n /\ \A g \in Event : token[g] # n
        BY <1>1 DEF RInv, TypeOK
      <3>2. PICK g \in Event : token'[g] = n
        BY <2>3, <3>1 DEF InReach
      <3>3. ~MayRotate(e)'
        <4>1. \A h \in Event : [token EXCEPT ![e] = NoToken][h] # n
          BY <1>1, <3>1 DEF RInv, TypeOK
        <4> QED
          BY <3>2, <4>1
      <3>4. f # e /\ spent'[f] = spent[f]
        BY <1>2, <3>3 DEF RInv, HistoryOK
      <3>5. l \in spent[f] \ killed[f]
        BY <1>2, <1>3, <2>3, <3>4
      <3> QED
        BY <1>1, <2>1, <2>2, <3>5 DEF RInv, SpentOK
    <2>4. CASE t # n
      <3>1. t \in live /\ t # token[e] /\ login'[t] = login[t]
        BY <1>1, <1>3, <2>4
      <3>2. InReach(t)
        BY <1>1, <2>4, <3>1 DEF InReach, RInv, TypeOK
      <3>3. login[t] # l
        BY <1>1, <3>1 DEF RInv, OneLive
      <3>4. login[t] \in spent[f] \ killed[f]
        BY <1>2, <3>1, <3>3 DEF RInv, HistoryOK
      <3> QED
        BY <2>1, <3>1, <3>2, <3>4 DEF RInv, SpentOK
    <2> QED
      BY <2>3, <2>4
  <1> QED
    BY <1>4, <1>5, <1>6

(* What an event's steps at Twitch's own rotation do. *)
LEMMA RefreshStep ==
  ASSUME RInv, NEW e \in Event, RefreshOk(e) \/ RefreshUnusable(e), Recorded(e)
  PROVE  HistoryOK' /\ OneLive' /\ SpentOK'
  <1>1. CASE RefreshOk(e)
    <2>1. /\ Rotate(e) /\ UNCHANGED stored
          /\ token' = [token EXCEPT ![e] = issued + 1]
          /\ pc' = [pc EXCEPT ![e] = "put"]
      BY <1>1 DEF RefreshOk, Goto
    <2>2. ~MayRotate(e)' /\ \A f \in Event : MayRotate(f)' => MayRotate(f)
      BY <2>1 DEF MayRotate, RInv, TypeOK
    <2> QED
      BY <2>1, <2>2, RotationStep
  <1>2. CASE RefreshUnusable(e)
    <2>1. /\ Rotate(e) /\ UNCHANGED stored /\ pc[e] = "twitch"
          /\ token' = [token EXCEPT ![e] = NoToken]
          /\ \E l \in {"queued", "settled"} : pc' = [pc EXCEPT ![e] = l]
      BY <1>2, RedeliverEnds DEF RefreshUnusable, Fail, End, Goto
    <2>2. \A f \in Event : MayRotate(f)' => MayRotate(f)
      BY <2>1 DEF MayRotate, RInv, TypeOK
    <2> QED
      BY <2>1, <2>2, RotationStep
  <1> QED
    BY <1>1, <1>2

(* The other steps of an event leave Twitch alone and record nothing. *)
LEMMA QuietStep ==
  ASSUME RInv, NEW e \in Event, Step(e), Recorded(e),
         ~RefreshOk(e), ~RefreshUnusable(e)
  PROVE  HistoryOK' /\ OneLive' /\ SpentOK'
  <1> USE DEF RInv, TypeOK
  <1>1. UNCHANGED <<twitch, history>>
    <2>1. UNCHANGED twitch
      BY DEF Step, Deliver, DeliverDisabled, GetBlob, GetBlobFails,
             RefreshFails, PutOk, PutRetry, PutGiveUp, Finish, Return
    <2> QED
      BY <2>1 DEF Recorded, twitch
  <1>2. \A f \in Event : MayRotate(f)' => MayRotate(f)
    BY RedeliverEnds
    DEF Step, Deliver, DeliverDisabled, GetBlob, GetBlobFails, RefreshFails,
        PutOk, PutRetry, PutGiveUp, Finish, Return, Fail, End, Goto, MayRotate
  <1>3. \A t \in live : InReach(t)' => InReach(t)
    <2>1. stored' = stored \/ stored' = token[e]
      BY DEF Step, Deliver, DeliverDisabled, GetBlob, GetBlobFails,
             RefreshFails, PutOk, PutRetry, PutGiveUp, Finish, Return,
             MaybeWrite, Write, twitch
    <2>2. \A f \in Event : token'[f] \in {token[f], stored, NoToken}
      BY RedeliverEnds
      DEF Step, Deliver, DeliverDisabled, GetBlob, GetBlobFails, RefreshFails,
          PutOk, PutRetry, PutGiveUp, Finish, Return, Fail, End, local
    <2>3. NoToken \notin live
      OBVIOUS
    <2> QED
      BY <2>1, <2>2, <2>3 DEF InReach
  <1> QED
    BY <1>1, <1>2, <1>3, NothingIssued

(* A kill takes the token from the invocation, and what the event had      *)
(* rotated is recorded as killed if it may now be rotated again.           *)
LEMMA KillStep ==
  ASSUME RInv, NEW e \in Event, Crash(e), KillRecorded(e)
  PROVE  HistoryOK' /\ OneLive' /\ SpentOK'
  <1> USE DEF RInv, TypeOK
  <1>1. /\ UNCHANGED <<live, issued, stored, login, spent>>
        /\ token' = [token EXCEPT ![e] = NoToken]
        /\ \E l \in {"queued", "settled"} : pc' = [pc EXCEPT ![e] = l]
    BY RedeliverEnds DEF Crash, KillRecorded, End, Goto, twitch
  <1>2. HistoryOK' /\ OneLive'
    BY <1>1 DEF KillRecorded, HistoryOK, OneLive
  <1>3. SpentOK'
    <2> SUFFICES ASSUME NEW f \in Event, MayRotate(f)', NEW t \in live',
                        login'[t] \in spent'[f] \ killed'[f], InReach(t)'
                 PROVE FALSE
      BY DEF SpentOK
    <2>1. InReach(t)
      BY <1>1 DEF InReach
    <2>2. f = e => ~HasRotated(e)
      BY <1>1 DEF KillRecorded, HistoryOK
    <2>3. MayRotate(f)
      BY <1>1, <2>2 DEF MayRotate, HasRotated, Crash
    <2>4. login[t] \in spent[f] \ killed[f]
      BY <1>1, <2>2 DEF KillRecorded, HistoryOK
    <2> QED
      BY <1>1, <2>1, <2>3, <2>4 DEF SpentOK
  <1> QED
    BY <1>2, <1>3

(* A new login is nobody's to have spent. *)
LEMMA MintStep ==
  ASSUME RInv, Mint, Issued(issued'), UNCHANGED <<spent, killed>>
  PROVE  HistoryOK' /\ OneLive' /\ SpentOK'
  <1> DEFINE n == issued + 1
  <1>1. /\ issued \in Nat \ {0} /\ issued' = n /\ n \notin 1 .. issued
        /\ live \subseteq 1 .. issued /\ live' = live \cup {n} /\ stored' = n
        /\ UNCHANGED <<pc, token>>
    BY DEF RInv, TypeOK, Mint, local
  <1>2. /\ login' \in [1 .. issued' -> 1 .. issued'] /\ login'[n] = n
        /\ \A t \in 1 .. issued : /\ login'[t] = login[t]
                                  /\ login[t] \in 1 .. issued
    <2>1. issued' \in 1 .. issued'
      BY <1>1
    <2> QED
      BY <1>1, <2>1, IssueType DEF RInv, HistoryOK
  <1>3. HistoryOK'
    <2>1. 1 .. issued \subseteq 1 .. issued'
      BY <1>1
    <2> QED
      BY <1>1, <1>2, <2>1 DEF RInv, HistoryOK
  <1>4. OneLive'
    BY <1>1, <1>2 DEF RInv, OneLive
  <1>5. SpentOK'
    <2> SUFFICES ASSUME NEW f \in Event, MayRotate(f)', NEW t \in live',
                        login'[t] \in spent'[f] \ killed'[f], InReach(t)'
                 PROVE FALSE
      BY DEF SpentOK
    <2>1. t # n
      BY <1>1, <1>2 DEF RInv, HistoryOK
    <2> QED
      BY <1>1, <1>2, <2>1 DEF RInv, SpentOK, InReach, MayRotate
  <1> QED
    BY <1>3, <1>4, <1>5

(* Every step keeps the histories' invariant, events overlapping or not. *)
LEMMA HistoryInvariant == RInv /\ [HistoryNext]_allVars
                             => HistoryOK' /\ OneLive' /\ SpentOK'
  <1> SUFFICES ASSUME RInv, [HistoryNext]_allVars
               PROVE HistoryOK' /\ OneLive' /\ SpentOK'
    OBVIOUS
  <1>1. ASSUME NEW e \in Event, Fire(e), UNCHANGED history
        PROVE HistoryOK' /\ OneLive' /\ SpentOK'
    <2>1. UNCHANGED <<twitch, stored, token>> /\ pc' = [pc EXCEPT ![e] = "queued"]
      BY <1>1 DEF Fire, Goto, local
    <2>2. \A f \in Event : MayRotate(f)' => MayRotate(f)
      BY <1>1, <2>1 DEF Fire, MayRotate, RInv, TypeOK
    <2> QED
      BY <1>1, <2>1, <2>2, NothingIssued DEF InReach
  <1>2. ASSUME NEW e \in Event, HistoryStep(e)
        PROVE HistoryOK' /\ OneLive' /\ SpentOK'
    BY <1>2, RefreshStep, QuietStep DEF HistoryStep
  <1>3. ASSUME (Toggle /\ UNCHANGED history) \/ UNCHANGED allVars
        PROVE HistoryOK' /\ OneLive' /\ SpentOK'
    <2>1. UNCHANGED <<twitch, history, stored, token, pc>>
      BY <1>3 DEF Toggle, allVars, vars, local
    <2> QED
      BY <2>1, NothingIssued DEF InReach, MayRotate
  <1> QED
    BY <1>1, <1>2, <1>3, KillStep, MintStep DEF HistoryNext

(* For any number of events, overlapping or not, of deliveries and of      *)
(* write attempts, an event rotates a login once, unless a kill took its   *)
(* invocation after the rotation and before its answer to Lambda.          *)
THEOREM LoginRotatedOnce == HistorySpec => RotatesOnce
  <1>1. HistoryInit => RInv
    <2> SUFFICES ASSUME HistoryInit PROVE RInv
      OBVIOUS
    <2>1. TypeOK
      BY TypeInit DEF HistoryInit
    <2>2. issued = 1 /\ live = {1} /\ login = [t \in 1 .. issued |-> t]
          /\ spent = [e \in Event |-> {}] /\ killed = [e \in Event |-> {}]
      BY DEF HistoryInit, Init
    <2> QED
      BY <2>1, <2>2 DEF RInv, HistoryOK, OneLive, SpentOK
  <1>2. RInv /\ TypeOK' /\ [HistoryNext]_allVars => RInv'
    BY HistoryInvariant DEF RInv
  <1>3. RInv /\ [HistoryNext]_allVars
           => [\A e \in Event : Rotates(e)
                  => login[token[e]] \notin spent[e] \ killed[e]]_allVars
    <2> SUFFICES ASSUME RInv, NEW e \in Event, Rotates(e)
                 PROVE login[token[e]] \notin spent[e] \ killed[e]
      OBVIOUS
    <2> QED
      BY DEF RInv, SpentOK, MayRotate, InReach, Rotates
  <1> QED
    BY <1>1, <1>2, <1>3, HistoryAddsNothing, TypeCorrect, PTL
    DEF HistorySpec, RotatesOnce

-----------------------------------------------------------------------------
(* Events that do not overlap *)

(* At most one event is in flight, and its check-in is open until closed.  *)
SerialOK == /\ \A e, f \in Event : InFlight(e) /\ InFlight(f) => e = f
            /\ \A e \in Event : pc[e] \in CheckedIn => monitor = "in_progress"

(* What a running invocation knows of the token in SSM.                    *)
CustodyOK == /\ monitor = "ok" => stored \in live
             /\ \A e \in Event :
                   /\ pc[e] = "twitch" /\ token[e] \in live => stored \in live
                   /\ pc[e] = "put" => token[e] \in live
                   /\ pc[e] = "saved" => stored \in live

IInv == TypeOK /\ TriesOK /\ SerialOK /\ CustodyOK

(* Without overlap, no step starts a second invocation. *)
LEMMA SerialStep ==
  ASSUME ~Overlap PROVE TypeOK /\ SerialOK /\ [Next]_vars => SerialOK'
  <1> SUFFICES ASSUME TypeOK, SerialOK, [Next]_vars PROVE SerialOK'
    OBVIOUS
  <1> USE DEF TypeOK, SerialOK
  <1>1. ASSUME NEW e \in Event, Fire(e) PROVE SerialOK'
    BY <1>1 DEF Fire, Goto
  <1>2. ASSUME NEW e \in Event, Deliver(e) PROVE SerialOK'
    BY <1>2 DEF Deliver, Goto
  <1>3. ASSUME NEW e \in Event, DeliverDisabled(e) PROVE SerialOK'
    BY <1>3 DEF DeliverDisabled, Goto
  <1>4. ASSUME NEW e \in Event, Crash(e) PROVE SerialOK'
    BY <1>4 DEF Crash, Redeliver, End, Goto
  <1>5. ASSUME NEW e \in Event, GetBlob(e) PROVE SerialOK'
    BY <1>5 DEF GetBlob, Goto
  <1>6. ASSUME NEW e \in Event, GetBlobFails(e) PROVE SerialOK'
    BY <1>6 DEF GetBlobFails, Fail, Redeliver, End, Goto
  <1>7. ASSUME NEW e \in Event, RefreshOk(e) PROVE SerialOK'
    BY <1>7 DEF RefreshOk, Rotate, Goto
  <1>8. ASSUME NEW e \in Event, RefreshUnusable(e) PROVE SerialOK'
    BY <1>8 DEF RefreshUnusable, Rotate, Fail, Redeliver, End, Goto
  <1>9. ASSUME NEW e \in Event, RefreshFails(e) PROVE SerialOK'
    BY <1>9 DEF RefreshFails, Fail, Redeliver, End, Goto
  <1>10. ASSUME NEW e \in Event, PutOk(e) PROVE SerialOK'
    BY <1>10 DEF PutOk, Write, End, Goto
  <1>11. ASSUME NEW e \in Event, PutRetry(e) PROVE SerialOK'
    BY <1>11 DEF PutRetry, MaybeWrite, Write
  <1>12. ASSUME NEW e \in Event, PutGiveUp(e) PROVE SerialOK'
    BY <1>12 DEF PutGiveUp, MaybeWrite, Write, End, Goto
  <1>13. ASSUME NEW e \in Event, Finish(e) \/ Return(e) PROVE SerialOK'
    BY <1>13 DEF Finish, Return, Goto
  <1>14. ASSUME Mint PROVE SerialOK'
    BY <1>14 DEF Mint
  <1>15. ASSUME Toggle \/ UNCHANGED vars PROVE SerialOK'
    BY <1>15 DEF Toggle, vars
  <1> QED
    BY <1>1, <1>2, <1>3, <1>4, <1>5, <1>6, <1>7, <1>8, <1>9, <1>10, <1>11,
       <1>12, <1>13, <1>14, <1>15 DEF Next, Step

(* Every step keeps the live token in SSM or in hand, or says so. *)
LEMMA CustodyStep ==
  TypeOK /\ SerialOK /\ CustodyOK /\ [Next]_vars => CustodyOK'
  <1> SUFFICES ASSUME TypeOK, SerialOK, CustodyOK, [Next]_vars PROVE CustodyOK'
    OBVIOUS
  <1> USE DEF TypeOK, SerialOK, CustodyOK
  <1>1. ASSUME NEW e \in Event, Fire(e) PROVE CustodyOK'
    BY <1>1 DEF Fire, Goto, twitch, local
  <1>2. ASSUME NEW e \in Event, Deliver(e) PROVE CustodyOK'
    BY <1>2 DEF Deliver, Goto, twitch, local
  <1>3. ASSUME NEW e \in Event, DeliverDisabled(e) PROVE CustodyOK'
    BY <1>3 DEF DeliverDisabled, Goto, twitch, local
  <1>4. ASSUME NEW e \in Event, Crash(e) PROVE CustodyOK'
    BY <1>4 DEF Crash, Redeliver, End, Goto, twitch, local
  <1>5. ASSUME NEW e \in Event, GetBlob(e) PROVE CustodyOK'
    BY <1>5 DEF GetBlob, Goto, twitch, local
  <1>6. ASSUME NEW e \in Event, GetBlobFails(e) PROVE CustodyOK'
    BY <1>6 DEF GetBlobFails, Fail, Redeliver, End, Goto, twitch, local
  <1>7. ASSUME NEW e \in Event, RefreshOk(e) PROVE CustodyOK'
    BY <1>7 DEF RefreshOk, Rotate, Goto, twitch, local
  <1>8. ASSUME NEW e \in Event, RefreshUnusable(e) PROVE CustodyOK'
    BY <1>8 DEF RefreshUnusable, Rotate, Fail, Redeliver, End, Goto, twitch, local
  <1>9. ASSUME NEW e \in Event, RefreshFails(e) PROVE CustodyOK'
    BY <1>9 DEF RefreshFails, Fail, Redeliver, End, Goto, twitch, local
  <1>10. ASSUME NEW e \in Event, PutOk(e) PROVE CustodyOK'
    BY <1>10 DEF PutOk, Write, End, Goto, twitch, local
  <1>11. ASSUME NEW e \in Event, PutRetry(e) PROVE CustodyOK'
    BY <1>11 DEF PutRetry, MaybeWrite, Write, twitch, local
  <1>12. ASSUME NEW e \in Event, PutGiveUp(e) PROVE CustodyOK'
    BY <1>12 DEF PutGiveUp, MaybeWrite, Write, End, Goto, twitch, local
  <1>13. ASSUME NEW e \in Event, Finish(e) \/ Return(e) PROVE CustodyOK'
    BY <1>13 DEF Finish, Return, Goto, twitch, local
  <1>14. ASSUME Mint PROVE CustodyOK'
    BY <1>14 DEF Mint, twitch, local
  <1>15. ASSUME Toggle \/ UNCHANGED vars PROVE CustodyOK'
    BY <1>15 DEF Toggle, vars, twitch, local
  <1> QED
    BY <1>1, <1>2, <1>3, <1>4, <1>5, <1>6, <1>7, <1>8, <1>9, <1>10, <1>11,
       <1>12, <1>13, <1>14, <1>15 DEF Next, Step

(* Without overlap, the inductive invariant always holds. *)
LEMMA SerialInvariance == ASSUME ~Overlap PROVE Spec => []IInv
  <1>1. Init => IInv
    BY TypeInit DEF Init, IInv, SerialOK, CustodyOK
  <1>2. IInv /\ [Next]_vars => IInv'
    BY TypeStep, TriesStep, SerialStep, CustodyStep DEF IInv
  <1> QED
    BY <1>1, <1>2, PTL DEF Spec

(* Between invocations, an "ok" monitor means a token Twitch accepts, for  *)
(* any number of events, deliveries, lost replies, kills and writes.       *)
THEOREM DeadTokenIsSurfaced ==
  ASSUME ~Overlap PROVE Spec => []DeadTokenSurfaced
  <1>1. IInv => DeadTokenSurfaced
    BY DEF IInv, CustodyOK, DeadTokenSurfaced
  <1> QED
    BY <1>1, SerialInvariance, PTL

(* The keepalive never overwrites a live token with a dead one.            *)
THEOREM LiveTokenIsKept ==
  ASSUME ~Overlap PROVE Spec => NeverClobbersLive
  <1>1. IInv /\ [Next]_vars
           => [stored' # stored /\ stored \in live => stored' \in live']_vars
    <2> SUFFICES ASSUME IInv, Next, stored' # stored, stored \in live
                 PROVE stored' \in live'
      OBVIOUS
    <2>1. ASSUME NEW e \in Event, PutOk(e) \/ PutRetry(e) \/ PutGiveUp(e)
          PROVE stored' \in live'
      BY <2>1 DEF PutOk, PutRetry, PutGiveUp, MaybeWrite, Write, twitch, IInv,
                  CustodyOK
    <2>2. ASSUME Mint PROVE stored' \in live'
      BY <2>2 DEF Mint
    <2> QED
      BY <2>1, <2>2 DEF Next, Step, Fire, Deliver, DeliverDisabled, Crash, GetBlob,
                        GetBlobFails, RefreshOk, RefreshUnusable, RefreshFails,
                        Finish, Return, Toggle
  <1> QED
    BY <1>1, SerialInvariance, PTL DEF Spec, NeverClobbersLive

-----------------------------------------------------------------------------
(* The keepalive implements the chain of custody *)

(* The initial states are initial states of TokenChain. *)
LEMMA ChainInit == Init => TC!Init
  BY DEF Init, TC!Init, Chain

(* A step that leaves SSM and the written tokens alone keeps the chain.    *)
LEMMA ChainKept ==
  ASSUME IInv, UNCHANGED <<live, stored>>,
         \A f \in Event : pc[f] = "put" \/ pc'[f] = "put"
                          => pc'[f] = pc[f] /\ token'[f] = token[f]
  PROVE  Chain' = Chain
  BY DEF Chain

(* Every step is a step of TokenChain or leaves the chain alone. *)
LEMMA ChainStep ==
  ASSUME ~Overlap PROVE IInv /\ IInv' /\ [Next]_vars => [TC!Next]_(TC!vars)
  <1> SUFFICES ASSUME IInv, IInv', [Next]_vars PROVE [TC!Next]_(TC!vars)
    OBVIOUS
  <1> USE DEF IInv, TypeOK
  <1>1. ASSUME NEW e \in Event,
               Fire(e) \/ DeliverDisabled(e) \/ GetBlob(e) \/ Return(e)
        PROVE UNCHANGED TC!vars
    <2>1. UNCHANGED <<live, stored, monitor>>
      BY <1>1 DEF Fire, DeliverDisabled, GetBlob, Return, twitch
    <2>2. \A f \in Event : pc[f] = "put" \/ pc'[f] = "put"
                          => pc'[f] = pc[f] /\ token'[f] = token[f]
      BY <1>1 DEF Fire, DeliverDisabled, GetBlob, Return, Goto, local
    <2> QED
      BY <2>1, <2>2, ChainKept DEF TC!vars
  <1>2. ASSUME NEW e \in Event, Deliver(e) PROVE TC!Begin
    <2>1. UNCHANGED <<live, stored>> /\ monitor' = "in_progress"
      BY <1>2 DEF Deliver, twitch
    <2>2. \A f \in Event : pc[f] = "put" \/ pc'[f] = "put"
                          => pc'[f] = pc[f] /\ token'[f] = token[f]
      BY <1>2 DEF Deliver, Goto, local
    <2> QED
      BY <2>1, <2>2, ChainKept DEF TC!Begin
  <1>3. ASSUME NEW e \in Event, GetBlobFails(e) \/ RefreshFails(e)
        PROVE TC!CloseError
    <2>1. UNCHANGED <<live, stored>> /\ monitor' = "error"
      BY <1>3 DEF GetBlobFails, RefreshFails, Fail, twitch
    <2>2. \A f \in Event : pc[f] = "put" \/ pc'[f] = "put"
                          => pc'[f] = pc[f] /\ token'[f] = token[f]
      BY <1>3 DEF GetBlobFails, RefreshFails, Fail, Redeliver, End, Goto
    <2>3. monitor = "in_progress"
      BY <1>3 DEF GetBlobFails, RefreshFails, SerialOK
    <2> QED
      BY <2>1, <2>2, <2>3, ChainKept DEF TC!CloseError
  <1>4. ASSUME NEW e \in Event, Finish(e) PROVE TC!CloseOk
    <2>1. UNCHANGED <<live, stored>> /\ monitor' = "ok"
      BY <1>4 DEF Finish, twitch
    <2>2. stored \in live /\ monitor = "in_progress"
      BY <1>4 DEF Finish, SerialOK, CustodyOK
    <2> QED
      BY <2>1, <2>2 DEF TC!CloseOk, Chain
  <1>5. ASSUME NEW e \in Event, RefreshOk(e)
        PROVE TC!Rotate \/ UNCHANGED TC!vars
    <2>1. /\ stored \in live /\ monitor = "in_progress"
          /\ UNCHANGED <<stored, monitor>>
      BY <1>5 DEF RefreshOk, Rotate, SerialOK, CustodyOK
    <2>2. pc'[e] = "put" /\ token'[e] \in live'
      BY <1>5 DEF RefreshOk, Rotate, Goto
    <2> QED
      BY <2>1, <2>2 DEF TC!Rotate, TC!vars, Chain
  <1>6. ASSUME NEW e \in Event, RefreshUnusable(e)
        PROVE TC!Lose \/ TC!CloseError
    <2>1. /\ stored \in live /\ monitor = "in_progress" /\ monitor' = "error"
          /\ UNCHANGED stored
      BY <1>6 DEF RefreshUnusable, Rotate, Fail, SerialOK, CustodyOK
    <2>2. \A f \in Event : pc'[f] # "put"
      BY <1>6 DEF RefreshUnusable, Fail, Redeliver, End, Goto, SerialOK
    <2> QED
      BY <2>1, <2>2 DEF TC!Lose, TC!CloseError, Chain
  <1>7. ASSUME NEW e \in Event, PutOk(e) \/ PutRetry(e)
        PROVE TC!Persist \/ UNCHANGED TC!vars
    <2>1. pc[e] = "put" /\ token[e] \in live /\ UNCHANGED <<live, monitor>>
      BY <1>7 DEF PutOk, PutRetry, CustodyOK, twitch
    <2>2. Chain \in {"kept", "moving"}
      BY <2>1 DEF Chain
    <2>3. CASE stored' = token[e]
      BY <2>1, <2>2, <2>3 DEF TC!Persist, TC!vars, Chain
    <2>4. CASE UNCHANGED stored /\ PutRetry(e)
      <3>1. UNCHANGED <<pc, token>>
        BY <2>4 DEF PutRetry
      <3> QED
        BY <2>1, <2>4, <3>1 DEF TC!vars, Chain
    <2> QED
      BY <1>7, <2>3, <2>4 DEF PutOk, PutRetry, MaybeWrite, Write
  <1>8. ASSUME NEW e \in Event, PutGiveUp(e)
        PROVE TC!Persist \/ TC!Lose \/ TC!CloseError
    <2>1. /\ pc[e] = "put" /\ token[e] \in live /\ UNCHANGED live
          /\ monitor = "in_progress" /\ monitor' = "error"
          /\ stored' = token[e] \/ UNCHANGED stored
      BY <1>8 DEF PutGiveUp, MaybeWrite, Write, CustodyOK, SerialOK, twitch
    <2>2. \A f \in Event : pc'[f] # "put"
      BY <1>8 DEF PutGiveUp, End, Goto, SerialOK
    <2>3. Chain = IF stored \in live THEN "kept" ELSE "moving"
      BY <2>1 DEF Chain
    <2>4. Chain' = IF stored' \in live THEN "kept" ELSE "lost"
      BY <2>1, <2>2 DEF Chain
    <2> QED
      BY <2>1, <2>3, <2>4 DEF TC!Persist, TC!Lose, TC!CloseError
  <1>9. ASSUME NEW e \in Event, Crash(e) PROVE TC!Lose \/ UNCHANGED TC!vars
    <2>1. UNCHANGED <<live, stored, monitor>>
      BY <1>9 DEF Crash, twitch
    <2>2. \A f \in Event : pc'[f] # "put"
      BY <1>9 DEF Crash, Redeliver, End, Goto, SerialOK
    <2>3. Chain' = IF stored \in live THEN "kept" ELSE "lost"
      BY <2>1, <2>2 DEF Chain
    <2>4. CASE pc[e] \in CheckedIn
      <3>1. monitor = "in_progress"
        BY <2>4 DEF SerialOK
      <3> QED
        BY <2>1, <2>3, <3>1 DEF TC!Lose, TC!vars, Chain
    <2>5. CASE pc[e] = "closed"
      <3>1. \A f \in Event : pc[f] # "put"
        BY <2>5 DEF SerialOK
      <3> QED
        BY <2>1, <2>3, <3>1 DEF TC!vars, Chain
    <2> QED
      BY <1>9, <2>4, <2>5 DEF Crash
  <1>10. ASSUME Mint PROVE TC!Mint
    BY <1>10 DEF Mint, TC!Mint, Chain
  <1>11. ASSUME Toggle \/ UNCHANGED vars PROVE UNCHANGED TC!vars
    BY <1>11 DEF Toggle, vars, twitch, local, TC!vars, Chain
  <1> QED
    BY <1>1, <1>2, <1>3, <1>4, <1>5, <1>6, <1>7, <1>8, <1>9, <1>10, <1>11
    DEF Next, Step, TC!Next

(* Run one event at a time, the keepalive implements TokenChain.           *)
THEOREM Refinement == ASSUME ~Overlap PROVE Spec => ImplementsTokenChain
  <1>1. Init => TC!Init
    BY ChainInit
  <1>2. IInv /\ IInv' /\ [Next]_vars => [TC!Next]_(TC!vars)
    BY ChainStep
  <1> QED
    BY <1>1, <1>2, SerialInvariance, PTL DEF Spec, TC!Spec, ImplementsTokenChain

=============================================================================
