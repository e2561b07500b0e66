-------------------------- MODULE KeepaliveHistory --------------------------
(***************************************************************************)
(* Keepalive with a memory: which login a token descends from, which       *)
(* logins each event has rotated, and which of them a kill has left        *)
(* without the invocation's answer to Lambda.  The history variables are   *)
(* recorded beside Keepalive's steps and guard none of them.               *)
(***************************************************************************)
EXTENDS Keepalive

VARIABLES
    login,  \* history: the login each token descends from, by its first token
    spent,  \* history: the logins each event has rotated at Twitch
    killed  \* history: the logins each event had rotated when an invocation
            \* of it was killed after its rotation and before its return

history == <<login, spent, killed>>
allVars == <<vars, history>>

HistoryInit == /\ Init
               /\ login = [t \in 1 .. issued |-> t]
               /\ spent = [e \in Event |-> {}]
               /\ killed = [e \in Event |-> {}]

(* Twitch has issued a token of login l. *)
Issued(l) == login' = [t \in 1 .. issued' |->
                          IF t = issued' THEN l ELSE login[t]]

(* An event's step issues a token only by rotating the one it holds. *)
Recorded(e) ==
    IF issued' = issued THEN UNCHANGED history
    ELSE /\ Issued(login[token[e]])
         /\ spent' = [spent EXCEPT ![e] = @ \cup {login[token[e]]}]
         /\ UNCHANGED killed

(* The rotation is done and handle has not returned. *)
HasRotated(e) == pc[e] \in {"put", "saved", "closed"}

KillRecorded(e) == /\ killed' = IF HasRotated(e)
                                THEN [killed EXCEPT ![e] = @ \cup spent[e]]
                                ELSE killed
                   /\ UNCHANGED <<login, spent>>

HistoryStep(e) == Step(e) /\ Recorded(e)

HistoryNext ==
    \/ \E e \in Event : \/ Fire(e) /\ UNCHANGED history
                        \/ HistoryStep(e)
                        \/ Crash(e) /\ KillRecorded(e)
    \/ Mint /\ Issued(issued') /\ UNCHANGED <<spent, killed>>
    \/ Toggle /\ UNCHANGED history

HistorySpec == HistoryInit /\ [][HistoryNext]_allVars

HistoryFairSpec == HistorySpec /\ \A e \in Event : WF_allVars(HistoryStep(e))

-----------------------------------------------------------------------------
(* Properties *)

(* In this step Twitch rotates the token that e holds. *)
Rotates(e) == /\ pc[e] = "twitch"
              /\ token[e] \in live /\ token[e] \notin live'

(* An event never rotates the same login twice, through up to three        *)
(* deliveries, lost answers and writes that failed but had landed: once    *)
(* rotated, either handle returns nil (main.go:67-72) or nothing that a    *)
(* retry could read is still good.  The exception is a login rotated by an *)
(* invocation that was then killed before its return: Lambda delivers the  *)
(* event again, and a token that was stored is rotated again.              *)
RotatesOnce ==
    [][\A e \in Event :
          Rotates(e) => login[token[e]] \notin spent[e] \ killed[e]]_allVars

(* What the comment at main.go:64-66 says of every rotated token: "return  *)
(* nil so EventBridge doesn't re-invoke".                                  *)
NoReinvokeAfterRotation ==
    \A e \in Event : pc[e] = "queued" => spent[e] = {}

=============================================================================
