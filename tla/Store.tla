------------------------------- MODULE Store --------------------------------
(***************************************************************************)
(* The blob store, internal/magiclink/store.go: Get and Put, each one call *)
(* of withRetry around one SSM request, by clients whose contexts may be   *)
(* done at any time.  SSM deals with a request at one instant while the    *)
(* attempt lasts, and its answer may be lost on the way.                   *)
(***************************************************************************)
EXTENDS Integers

CONSTANTS Client,      \* goroutines and Lambdas that call the store
          Blob,        \* well-formed blobs
          Absent,      \* there is no parameter
          MaxAttempts  \* retryAttempts

ASSUME AttemptsAssumption == MaxAttempts \in Nat \ {0}
ASSUME AbsentAssumption == Absent \notin Blob

VARIABLES
    param,    \* the value of the SSM parameter
    pc,       \* where each client is in withRetry
    op,       \* "get" or "put"
    blob,     \* Put's value
    attempt,  \* withRetry's attempt
    ctxDone,  \* the client's ctx is done
    answer,   \* what SSM did with the attempt: "none" yet, "done" or "absent"
    got,      \* the value in SSM's answer
    result,   \* how the client's last call ended
    writes,   \* history: how often SSM has applied this Put
    late      \* history: attempts begun after ctx was done

call == <<op, blob>>
request == <<answer, got>>
history == <<writes, late>>
vars == <<param, pc, call, attempt, ctxDone, request, result, history>>

Location == {"idle", "sent", "wait", "again"}

Init == /\ param \in Blob \cup {Absent}
        /\ pc = [c \in Client |-> "idle"]
        /\ op = [c \in Client |-> "get"]
        /\ blob = [c \in Client |-> Absent]
        /\ attempt = [c \in Client |-> 0]
        /\ ctxDone = [c \in Client |-> FALSE]
        /\ answer = [c \in Client |-> "none"]
        /\ got = [c \in Client |-> Absent]
        /\ result = [c \in Client |-> "ok"]
        /\ writes = [c \in Client |-> 0]
        /\ late = [c \in Client |-> 0]

Goto(c, l) == pc' = [pc EXCEPT ![c] = l]

(* Nothing has come back for the attempt that begins. *)
NoAnswer(c) == /\ answer' = [answer EXCEPT ![c] = "none"]
               /\ got' = [got EXCEPT ![c] = Absent]

-----------------------------------------------------------------------------
(* Get and Put *)

(* Get or Put calls withRetry, which sends the first request. *)
Begin(c, what, b) == /\ pc[c] = "idle"
                     /\ op' = [op EXCEPT ![c] = what]
                     /\ blob' = [blob EXCEPT ![c] = b]
                     /\ \E done \in BOOLEAN :
                           ctxDone' = [ctxDone EXCEPT ![c] = done]
                     /\ attempt' = [attempt EXCEPT ![c] = 1]
                     /\ NoAnswer(c)
                     /\ Goto(c, "sent")
                     /\ UNCHANGED <<param, result, history>>

Get(c) == Begin(c, "get", Absent)

Put(c) == \E b \in Blob : Begin(c, "put", b)

(* Put refuses a blob that does not parse. *)
PutMalformed(c) == /\ pc[c] = "idle"
                   /\ result' = [result EXCEPT ![c] = "error"]
                   /\ UNCHANGED <<param, pc, call, attempt, ctxDone, request,
                                  history>>

(* Get or Put returns, and its stack frame is gone but for what it got.    *)
Return(c, how) == /\ Goto(c, "idle")
                  /\ result' = [result EXCEPT ![c] = how]
                  /\ op' = [op EXCEPT ![c] = "get"]
                  /\ blob' = [blob EXCEPT ![c] = Absent]
                  /\ attempt' = [attempt EXCEPT ![c] = 0]
                  /\ ctxDone' = [ctxDone EXCEPT ![c] = FALSE]
                  /\ answer' = [answer EXCEPT ![c] = "none"]
                  /\ writes' = [writes EXCEPT ![c] = 0]
                  /\ late' = [late EXCEPT ![c] = 0]
                  /\ UNCHANGED param

-----------------------------------------------------------------------------
(* One attempt *)

Unanswered(c) == pc[c] = "sent" /\ answer[c] = "none"

(* SSM reads the parameter; ParameterNotFound is an answer too. *)
ServeGet(c) == /\ Unanswered(c) /\ op[c] = "get"
               /\ answer' = [answer EXCEPT ![c] =
                                IF param = Absent THEN "absent" ELSE "done"]
               /\ got' = [got EXCEPT ![c] = param]
               /\ UNCHANGED <<param, pc, call, attempt, ctxDone, result,
                              history>>

(* SSM overwrites the parameter, or creates it. *)
ServePut(c) == /\ Unanswered(c) /\ op[c] = "put"
               /\ param' = blob[c]
               /\ answer' = [answer EXCEPT ![c] = "done"]
               /\ writes' = [writes EXCEPT ![c] = @ + 1]
               /\ UNCHANGED <<pc, call, attempt, ctxDone, got, result, late>>

AttemptOk(c) == /\ pc[c] = "sent" /\ answer[c] = "done"
                /\ Return(c, "ok")
                /\ UNCHANGED got

(* isRetryable: SSM's five refusals are final; anything else may pass, as  *)
(* throttling, an answer that was lost, or a ctx that is done.             *)
CanFail(c, retryable) == pc[c] = "sent" /\ (retryable \/ answer[c] # "done")

(* Mutant of GivesUp: the loop does not look at the context. *)
GivesUpUnheeding(c, retryable) == ~retryable \/ attempt[c] = MaxAttempts

(* Mutant of GivesUp: one attempt more. *)
GivesUpLate(c, retryable) == ~retryable \/ attempt[c] > MaxAttempts \/ ctxDone[c]

(* What ends the loop after an error. *)
GivesUp(c, retryable) == ~retryable \/ attempt[c] = MaxAttempts \/ ctxDone[c]

(* Mutant of ReturnError: the loop's err shadows the one returned. *)
ReturnErrorShadowed(c) == Return(c, "ok") /\ UNCHANGED got

ReturnError(c) == Return(c, "error") /\ got' = [got EXCEPT ![c] = Absent]

(* The attempt failed; backoffDelay may draw zero, and waitBackoff then    *)
(* returns without a look at the context ("again").                        *)
AttemptFails(c) ==
    \E retryable \in BOOLEAN :
       /\ CanFail(c, retryable)
       /\ IF GivesUp(c, retryable)
          THEN ReturnError(c)
          ELSE /\ \E l \in {"wait", "again"} : Goto(c, l)
               /\ NoAnswer(c)
               /\ UNCHANGED <<param, call, attempt, ctxDone, result, history>>

-----------------------------------------------------------------------------
(* waitBackoff *)

(* Mutant of NextAttempt: while ctx is done the loop goes round without    *)
(* counting an attempt.                                                    *)
NextAttemptIfLive(c) == /\ pc[c] \in {"wait", "again"} /\ ~ctxDone[c]
                        /\ attempt' = [attempt EXCEPT ![c] = @ + 1]
                        /\ Goto(c, "sent")
                        /\ UNCHANGED <<param, call, ctxDone, request, result,
                                       history>>

(* The timer has fired, even if ctx is done too, or there was no delay.    *)
NextAttempt(c) == /\ pc[c] \in {"wait", "again"}
                  /\ attempt' = [attempt EXCEPT ![c] = @ + 1]
                  /\ late' = [late EXCEPT ![c] = IF ctxDone[c] THEN @ + 1 ELSE @]
                  /\ Goto(c, "sent")
                  /\ UNCHANGED <<param, call, ctxDone, request, result, writes>>

WaitCancelled(c) == /\ pc[c] = "wait" /\ ctxDone[c]
                    /\ ReturnError(c)

-----------------------------------------------------------------------------
(* The environment *)

Cancel(c) == /\ pc[c] # "idle" /\ ~ctxDone[c]
             /\ ctxDone' = [ctxDone EXCEPT ![c] = TRUE]
             /\ UNCHANGED <<param, pc, call, attempt, request, result, history>>

(* Terraform destroys the parameter. *)
Delete == /\ param' = Absent
          /\ UNCHANGED <<pc, call, attempt, ctxDone, request, result, history>>

Serve(c) == ServeGet(c) \/ ServePut(c)

AttemptEnds(c) == AttemptOk(c) \/ AttemptFails(c)

Retry(c) == NextAttempt(c) \/ WaitCancelled(c)

Next == \/ \E c \in Client : \/ Get(c) \/ Put(c) \/ PutMalformed(c)
                             \/ Serve(c) \/ AttemptEnds(c) \/ Retry(c)
                             \/ Cancel(c)
        \/ Delete

Spec == Init /\ [][Next]_vars

(* Timers fire, and a request whose ctx is done is abandoned; nothing      *)
(* makes SSM answer.                                                       *)
Fairness == \A c \in Client : /\ WF_vars(Retry(c))
                              /\ WF_vars(ctxDone[c] /\ AttemptEnds(c))

FairSpec == Spec /\ Fairness

-----------------------------------------------------------------------------
(* Properties *)

(* Every variable stays in its range; no call makes a fourth attempt.      *)
TypeOK == /\ param \in Blob \cup {Absent}
          /\ pc \in [Client -> Location]
          /\ op \in [Client -> {"get", "put"}]
          /\ blob \in [Client -> Blob \cup {Absent}]
          /\ attempt \in [Client -> 0 .. MaxAttempts]
          /\ ctxDone \in [Client -> BOOLEAN]
          /\ answer \in [Client -> {"none", "done", "absent"}]
          /\ got \in [Client -> Blob \cup {Absent}]
          /\ result \in [Client -> {"ok", "error"}]
          /\ writes \in [Client -> 0 .. MaxAttempts]
          /\ late \in [Client -> 0 .. MaxAttempts]

(* After its context is done a call begins at most one more attempt: the   *)
(* one a zero delay, or a timer that fired at the same time, lets through. *)
OneLateAttempt == \A c \in Client : late[c] <= 1

(* A call whose context is done returns, even if SSM never answers.        *)
CancelledReturns == \A c \in Client :
                       pc[c] # "idle" /\ ctxDone[c] ~> pc[c] = "idle"

-----------------------------------------------------------------------------
(* The store implements Register. *)

R == INSTANCE Register WITH
        value <- param,
        call <- [c \in Client |-> IF pc[c] = "idle" THEN "idle" ELSE op[c]],
        arg <- blob,
        read <- got

(* Whatever fails, is lost, cancelled or tried again, a Get returns what   *)
(* the parameter held during the call, and a Put that returns nil has      *)
(* written its blob during the call, and none has after it.                *)
ImplementsRegister == R!Spec

=============================================================================
