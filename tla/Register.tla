------------------------------ MODULE Register ------------------------------
(***************************************************************************)
(* What callers of internal/magiclink/store.go may rely on, whatever SSM   *)
(* answers and however often the store tries: a register.  A Get returns a *)
(* blob the register held during the call.  A Put may take effect several  *)
(* times during the call, at least once when it succeeds, and possibly     *)
(* when it fails.                                                          *)
(***************************************************************************)
EXTENDS Integers

CONSTANTS Client,      \* concurrent callers
          Blob,        \* well-formed blobs
          Absent,      \* there is no parameter
          MaxAttempts  \* how often one Put may take effect

VARIABLES value,   \* what the register holds
          call,    \* what each client is doing: "idle", "get" or "put"
          arg,     \* the blob of its Put
          writes,  \* how often its Put has taken effect
          read,    \* what its Get has read last
          result   \* "ok" or "error": how its last call ended

vars == <<value, call, arg, writes, read, result>>

Init == /\ value \in Blob \cup {Absent}
        /\ call = [c \in Client |-> "idle"]
        /\ arg = [c \in Client |-> Absent]
        /\ writes = [c \in Client |-> 0]
        /\ read = [c \in Client |-> Absent]
        /\ result = [c \in Client |-> "ok"]

Begin(c, op, b) == /\ call[c] = "idle"
                   /\ call' = [call EXCEPT ![c] = op]
                   /\ arg' = [arg EXCEPT ![c] = b]
                   /\ read' = [read EXCEPT ![c] = Absent]
                   /\ UNCHANGED <<value, writes, result>>

TakeEffect(c) == /\ call[c] = "put" /\ writes[c] < MaxAttempts
                 /\ value' = arg[c]
                 /\ writes' = [writes EXCEPT ![c] = @ + 1]
                 /\ UNCHANGED <<call, arg, read, result>>

Read(c) == /\ call[c] = "get"
           /\ read' = [read EXCEPT ![c] = value]
           /\ UNCHANGED <<value, call, arg, writes, result>>

(* What an attempt has read counts for nothing once the attempt failed. *)
Forget(c) == /\ call[c] = "get"
             /\ read' = [read EXCEPT ![c] = Absent]
             /\ UNCHANGED <<value, call, arg, writes, result>>

End(c, how) == /\ call[c] # "idle"
               /\ call' = [call EXCEPT ![c] = "idle"]
               /\ arg' = [arg EXCEPT ![c] = Absent]
               /\ writes' = [writes EXCEPT ![c] = 0]
               /\ result' = [result EXCEPT ![c] = how]
               /\ UNCHANGED value

(* A Get returns what is in read. *)
Succeed(c) == /\ IF call[c] = "put" THEN writes[c] > 0 ELSE read[c] # Absent
              /\ End(c, "ok")
              /\ UNCHANGED read

Fail(c) == /\ End(c, "error")
           /\ read' = [read EXCEPT ![c] = Absent]

(* A blob that does not parse is refused before anything is sent. *)
Refuse(c) == /\ call[c] = "idle"
             /\ result' = [result EXCEPT ![c] = "error"]
             /\ UNCHANGED <<value, call, arg, writes, read>>

(* Terraform destroys the parameter. *)
Delete == /\ value' = Absent
          /\ UNCHANGED <<call, arg, writes, read, result>>

Next == \/ \E c \in Client : \/ Begin(c, "get", Absent)
                             \/ \E b \in Blob : Begin(c, "put", b)
                             \/ TakeEffect(c) \/ Read(c) \/ Forget(c)
                             \/ Succeed(c) \/ Fail(c) \/ Refuse(c)
        \/ Delete

Spec == Init /\ [][Next]_vars

=============================================================================
