---------------------------- MODULE StoreProofs -----------------------------
(***************************************************************************)
(* Theorems about Store: for any number of clients, any blobs and any      *)
(* number of attempts.                                                     *)
(***************************************************************************)
EXTENDS Store, TLAPS

(* The attempts a client has begun, and what is counted of them.           *)
CallOK(c) ==
    /\ pc[c] = "idle" => ~ctxDone[c] /\ writes[c] = 0 /\ late[c] = 0
    /\ pc[c] # "idle" => attempt[c] >= 1
    /\ pc[c] \in {"wait", "again"} => attempt[c] < MaxAttempts
    /\ writes[c] <= IF pc[c] = "sent" /\ answer[c] # "done"
                    THEN attempt[c] - 1 ELSE attempt[c]

(* An attempt begun after ctx was done is the call's last.                 *)
LateOK(c) ==
    /\ late[c] <= 1
    /\ late[c] = 1 => ctxDone[c] /\ pc[c] = "sent"

(* What SSM's answer to the attempt stands for. *)
AnswerOK(c) ==
    /\ pc[c] # "sent" => answer[c] = "none"
    /\ answer[c] = "done" => IF op[c] = "put" THEN writes[c] > 0
                             ELSE got[c] # Absent
    /\ op[c] = "put" => answer[c] # "absent" /\ got[c] = Absent
    /\ pc[c] = "idle" => op[c] = "get"

IInv == /\ TypeOK
        /\ \A c \in Client : CallOK(c) /\ LateOK(c) /\ AnswerOK(c)

-----------------------------------------------------------------------------

(* Nobody has called. *)
LEMMA InitInv == Init => IInv
  BY AttemptsAssumption, AbsentAssumption
     DEF Init, IInv, TypeOK, Location, CallOK, LateOK, AnswerOK

(* A step that is client c's own, and SSM's on its behalf, is about c. *)
Others(c) ==
    \A d \in Client \ {c} :
       /\ pc'[d] = pc[d] /\ op'[d] = op[d] /\ attempt'[d] = attempt[d]
       /\ ctxDone'[d] = ctxDone[d] /\ answer'[d] = answer[d] /\ got'[d] = got[d]
       /\ writes'[d] = writes[d] /\ late'[d] = late[d]

(* What holds of the others goes on holding. *)
LEMMA OneClient ==
  ASSUME IInv, TypeOK', NEW c \in Client, Others(c),
         CallOK(c)', LateOK(c)', AnswerOK(c)'
  PROVE  IInv'
<1>1. ASSUME NEW d \in Client \ {c} PROVE CallOK(d)' /\ LateOK(d)' /\ AnswerOK(d)'
  BY <1>1 DEF IInv, Others, CallOK, LateOK, AnswerOK
<1> QED
  BY <1>1 DEF IInv

(* A call that returns leaves nothing behind. *)
LEMMA ReturnInv ==
  ASSUME IInv, NEW c \in Client, NEW how \in {"ok", "error"}, Return(c, how),
         NEW g \in Blob \cup {Absent}, got' = [got EXCEPT ![c] = g]
  PROVE  IInv'
<1>1. TypeOK'
  BY AttemptsAssumption DEF Return, Goto, IInv, TypeOK, Location
<1>2. Others(c)
  BY DEF Return, Goto, Others, IInv, TypeOK
<1>3. CallOK(c)' /\ LateOK(c)' /\ AnswerOK(c)'
  BY DEF Return, Goto, IInv, TypeOK, CallOK, LateOK, AnswerOK
<1> QED
  BY <1>1, <1>2, <1>3, OneClient

(* Every step keeps the invariant. *)
LEMMA NextInv == IInv /\ [Next]_vars => IInv'
<1> SUFFICES ASSUME IInv, [Next]_vars PROVE IInv'
  OBVIOUS
<1> USE AttemptsAssumption, AbsentAssumption
<1>1. ASSUME NEW c \in Client, NEW what \in {"get", "put"},
             NEW b \in Blob \cup {Absent}, Begin(c, what, b)
      PROVE  IInv'
  <2>1. TypeOK'
    BY <1>1 DEF Begin, NoAnswer, Goto, history, IInv, TypeOK, Location
  <2>2. Others(c)
    BY <1>1 DEF Begin, NoAnswer, Goto, history, Others, IInv, TypeOK
  <2>3. CallOK(c)' /\ LateOK(c)' /\ AnswerOK(c)'
    BY <1>1 DEF Begin, NoAnswer, Goto, history, IInv, TypeOK, CallOK, LateOK,
                AnswerOK
  <2> QED
    BY <2>1, <2>2, <2>3, OneClient
<1>2. ASSUME NEW c \in Client, PutMalformed(c) PROVE IInv'
  BY <1>2 DEF PutMalformed, call, request, history, IInv, TypeOK, CallOK,
              LateOK, AnswerOK
<1>3. ASSUME NEW c \in Client, ServeGet(c) PROVE IInv'
  <2>1. TypeOK'
    BY <1>3 DEF ServeGet, Unanswered, call, history, IInv, TypeOK
  <2>2. Others(c)
    BY <1>3 DEF ServeGet, Unanswered, call, history, Others, IInv, TypeOK
  <2>3. CallOK(c)' /\ LateOK(c)' /\ AnswerOK(c)'
    BY <1>3 DEF ServeGet, Unanswered, call, history, IInv, TypeOK, CallOK,
                LateOK, AnswerOK
  <2> QED
    BY <2>1, <2>2, <2>3, OneClient
<1>4. ASSUME NEW c \in Client, ServePut(c) PROVE IInv'
  <2>1. writes[c] + 1 <= attempt[c]
    BY <1>4 DEF ServePut, Unanswered, IInv, CallOK, TypeOK
  <2>2. blob[c] \in Blob \cup {Absent}
    BY DEF IInv, TypeOK
  <2>3. TypeOK'
    BY <1>4, <2>1, <2>2 DEF ServePut, Unanswered, call, IInv, TypeOK
  <2>4. Others(c)
    BY <1>4 DEF ServePut, Unanswered, call, Others, IInv, TypeOK
  <2>5. CallOK(c)' /\ LateOK(c)' /\ AnswerOK(c)'
    BY <1>4, <2>1 DEF ServePut, Unanswered, call, IInv, TypeOK, CallOK, LateOK,
                      AnswerOK
  <2> QED
    BY <2>3, <2>4, <2>5, OneClient
<1>5. ASSUME NEW c \in Client, AttemptOk(c) PROVE IInv'
  <2>1. got' = [got EXCEPT ![c] = got[c]] /\ got[c] \in Blob \cup {Absent}
    BY <1>5 DEF AttemptOk, IInv, TypeOK
  <2> QED
    BY <1>5, <2>1, ReturnInv DEF AttemptOk
<1>6. ASSUME NEW c \in Client, ReturnError(c) PROVE IInv'
  BY <1>6, ReturnInv DEF ReturnError
<1>7. ASSUME NEW c \in Client, AttemptFails(c) PROVE IInv'
  <2>1. PICK retryable \in BOOLEAN :
            /\ CanFail(c, retryable)
            /\ IF GivesUp(c, retryable) THEN ReturnError(c)
               ELSE /\ \E l \in {"wait", "again"} : Goto(c, l)
                    /\ NoAnswer(c)
                    /\ UNCHANGED <<param, call, attempt, ctxDone, result, history>>
    BY <1>7 DEF AttemptFails
  <2>2. CASE ~GivesUp(c, retryable)
    <3>1. PICK l \in {"wait", "again"} : Goto(c, l)
      BY <2>1, <2>2
    <3>2. NoAnswer(c) /\ UNCHANGED <<param, call, attempt, ctxDone, result, history>>
      BY <2>1, <2>2
    <3>3. pc[c] = "sent" /\ attempt[c] # MaxAttempts /\ ~ctxDone[c]
      BY <2>1, <2>2 DEF CanFail, GivesUp
    <3>4. TypeOK'
      BY <3>1, <3>2 DEF NoAnswer, Goto, call, history, IInv, TypeOK, Location
    <3>5. Others(c)
      BY <3>1, <3>2 DEF NoAnswer, Goto, call, history, Others, IInv, TypeOK
    <3>6. CallOK(c)' /\ LateOK(c)' /\ AnswerOK(c)'
      BY <3>1, <3>2, <3>3 DEF NoAnswer, Goto, call, history, IInv, TypeOK,
                              CallOK, LateOK, AnswerOK
    <3> QED
      BY <3>4, <3>5, <3>6, OneClient
  <2> QED
    BY <2>1, <2>2, <1>6
<1>8. ASSUME NEW c \in Client, NextAttempt(c) PROVE IInv'
  <2>1. attempt[c] < MaxAttempts /\ late[c] = 0
    BY <1>8 DEF NextAttempt, IInv, TypeOK, CallOK, LateOK
  <2>2. TypeOK'
    BY <1>8, <2>1 DEF NextAttempt, Goto, call, request, IInv, TypeOK, Location
  <2>3. Others(c)
    BY <1>8 DEF NextAttempt, Goto, call, request, Others, IInv, TypeOK
  <2>4. CallOK(c)' /\ LateOK(c)' /\ AnswerOK(c)'
    BY <1>8, <2>1 DEF NextAttempt, Goto, call, request, IInv, TypeOK, CallOK,
                      LateOK, AnswerOK
  <2> QED
    BY <2>2, <2>3, <2>4, OneClient
<1>9. ASSUME NEW c \in Client, Cancel(c) PROVE IInv'
  <2>1. TypeOK'
    BY <1>9 DEF Cancel, call, request, history, IInv, TypeOK
  <2>2. Others(c)
    BY <1>9 DEF Cancel, call, request, history, Others, IInv, TypeOK
  <2>3. CallOK(c)' /\ LateOK(c)' /\ AnswerOK(c)'
    BY <1>9 DEF Cancel, call, request, history, IInv, TypeOK, CallOK, LateOK,
                AnswerOK
  <2> QED
    BY <2>1, <2>2, <2>3, OneClient
<1>10. CASE Delete
  BY <1>10 DEF Delete, call, request, history, IInv, TypeOK, CallOK, LateOK,
               AnswerOK
<1>11. CASE UNCHANGED vars
  BY <1>11 DEF vars, call, request, history, IInv, TypeOK, CallOK, LateOK,
               AnswerOK
<1> QED
  BY <1>1, <1>2, <1>3, <1>4, <1>5, <1>6, <1>7, <1>8, <1>9, <1>10, <1>11
     DEF Next, Get, Put, Serve, AttemptEnds, Retry, WaitCancelled

(* It holds in every state of every behaviour. *)
LEMMA Invariance == Spec => []IInv
  BY InitInv, NextInv, PTL DEF Spec

-----------------------------------------------------------------------------

(* No call begins a fourth attempt, and every variable keeps its type. *)
THEOREM TypeCorrect == Spec => []TypeOK
  BY Invariance, PTL DEF IInv

(* However its waits and its context race, a call begins at most one       *)
(* attempt after the context is done.                                      *)
THEOREM LateAttemptBounded == Spec => []OneLateAttempt
<1>1. IInv => OneLateAttempt
  BY DEF IInv, LateOK, OneLateAttempt
<1> QED
  BY <1>1, Invariance, PTL

-----------------------------------------------------------------------------
(* The refinement of Register. *)

RCall == [c \in Client |-> IF pc[c] = "idle" THEN "idle" ELSE op[c]]

(* A call that returns ends in the register's terms. *)
LEMMA EndRefines ==
  ASSUME IInv, NEW c \in Client, NEW how, pc[c] # "idle", Return(c, how)
  PROVE  R!End(c, how)
<1>1. RCall' = [RCall EXCEPT ![c] = "idle"]
  BY DEF Return, Goto, IInv, TypeOK, RCall
<1>2. RCall[c] # "idle"
  BY DEF IInv, TypeOK, RCall
<1> QED
  BY <1>1, <1>2 DEF R!End, RCall, Return

(* Every step is a step of the register, or nothing to it. *)
LEMMA StepRefines == IInv /\ [Next]_vars => [R!Next]_(R!vars)
<1> SUFFICES ASSUME IInv, [Next]_vars PROVE [R!Next]_(R!vars)
  OBVIOUS
<1>1. ASSUME NEW c \in Client, NEW what \in {"get", "put"},
             NEW b \in Blob \cup {Absent}, Begin(c, what, b)
      PROVE  R!Begin(c, what, b)
  <2>1. RCall' = [RCall EXCEPT ![c] = what] /\ RCall[c] = "idle"
    BY <1>1 DEF Begin, Goto, IInv, TypeOK, RCall
  <2> QED
    BY <1>1, <2>1 DEF Begin, NoAnswer, history, R!Begin, RCall
<1>2. ASSUME NEW c \in Client, PutMalformed(c) PROVE R!Refuse(c)
  BY <1>2 DEF PutMalformed, call, request, history, R!Refuse
<1>3. ASSUME NEW c \in Client, ServeGet(c) PROVE R!Read(c)
  BY <1>3 DEF ServeGet, Unanswered, call, history, R!Read
<1>4. ASSUME NEW c \in Client, ServePut(c) PROVE R!TakeEffect(c)
  <2>1. writes[c] < MaxAttempts
    BY <1>4, AttemptsAssumption DEF ServePut, Unanswered, IInv, CallOK, TypeOK
  <2> QED
    BY <1>4, <2>1 DEF ServePut, Unanswered, call, R!TakeEffect
<1>5. ASSUME NEW c \in Client, AttemptOk(c) PROVE R!Succeed(c)
  <2>1. R!End(c, "ok")
    BY <1>5, EndRefines DEF AttemptOk
  <2>2. IF op[c] = "put" THEN writes[c] > 0 ELSE got[c] # Absent
    BY <1>5 DEF AttemptOk, IInv, AnswerOK
  <2> QED
    BY <1>5, <2>1, <2>2 DEF AttemptOk, R!Succeed
<1>6. ASSUME NEW c \in Client, pc[c] # "idle", ReturnError(c) PROVE R!Fail(c)
  BY <1>6, EndRefines DEF ReturnError, R!Fail
<1>7. ASSUME NEW c \in Client, AttemptFails(c) PROVE R!Fail(c) \/ R!Forget(c) \/ UNCHANGED R!vars
  <2>1. PICK retryable \in BOOLEAN :
            /\ CanFail(c, retryable)
            /\ IF GivesUp(c, retryable) THEN ReturnError(c)
               ELSE /\ \E l \in {"wait", "again"} : Goto(c, l)
                    /\ NoAnswer(c)
                    /\ UNCHANGED <<param, call, attempt, ctxDone, result, history>>
    BY <1>7 DEF AttemptFails
  <2>2. pc[c] = "sent"
    BY <2>1 DEF CanFail
  <2>3. CASE ~GivesUp(c, retryable)
    <3>1. PICK l \in {"wait", "again"} : Goto(c, l)
      BY <2>1, <2>3
    <3>2. NoAnswer(c) /\ UNCHANGED <<param, call, attempt, ctxDone, result, history>>
      BY <2>1, <2>3
    <3>3. RCall' = RCall
      BY <2>2, <3>1, <3>2 DEF Goto, call, RCall, IInv, TypeOK
    <3>4. CASE op[c] = "get"
      BY <2>2, <3>2, <3>3, <3>4 DEF NoAnswer, call, history, R!Forget, RCall
    <3>5. CASE op[c] = "put"
      <4>1. got[c] = Absent
        BY <3>5 DEF IInv, AnswerOK
      <4> QED
        BY <3>2, <3>3, <4>1 DEF NoAnswer, call, history, R!vars, RCall, IInv, TypeOK
    <3> QED
      BY <3>4, <3>5 DEF IInv, TypeOK
  <2> QED
    BY <2>1, <2>2, <2>3, <1>6
<1>8. ASSUME NEW c \in Client, NextAttempt(c) PROVE UNCHANGED R!vars
  <2>1. RCall' = RCall
    BY <1>8 DEF NextAttempt, Goto, call, RCall, IInv, TypeOK
  <2> QED
    BY <1>8, <2>1 DEF NextAttempt, call, request, R!vars, RCall
<1>9. ASSUME NEW c \in Client, Cancel(c) PROVE UNCHANGED R!vars
  BY <1>9 DEF Cancel, call, request, history, R!vars
<1>10. CASE Delete
  BY <1>10 DEF Delete, call, request, history, R!Next, R!Delete
<1>11. CASE UNCHANGED vars
  BY <1>11 DEF vars, call, request, history, R!vars
<1> QED
  BY <1>1, <1>2, <1>3, <1>4, <1>5, <1>6, <1>7, <1>8, <1>9, <1>10, <1>11
     DEF Next, Get, Put, Serve, AttemptEnds, Retry, WaitCancelled, R!Next

(* A register that is Absent or holds a blob, and nobody has called. *)
LEMMA InitRefines == Init => R!Init
  BY DEF Init, R!Init

(* Get and Put behave like a register whose writes may take effect more    *)
(* than once, whatever fails, is lost, cancelled or tried again.           *)
THEOREM Refinement == Spec => ImplementsRegister
  BY InitRefines, StepRefines, Invariance, PTL
     DEF Spec, ImplementsRegister, R!Spec

=============================================================================
