------------------------------ MODULE LinkFeed ------------------------------
(***************************************************************************)
(* What the proxy promises the callers of Resolve, whatever it caches,     *)
(* coalesces, or falls back to: a call returns some blob that was there to *)
(* be served when it returned and that is no older than any blob a call    *)
(* had returned when it began.  Blobs are numbered by age; no caller can   *)
(* tell such a feed from a single value that only moves forward.           *)
(***************************************************************************)
EXTENDS Integers

CONSTANT Caller

VARIABLES
    offered, \* the newest blob there is to serve
    served,  \* the newest blob any call has returned
    inside,  \* the callers that wait for their call to return
    least,   \* what served was when the caller's last call began
    given    \* the blob the caller's last call returned, Nothing before that

vars == <<offered, served, inside, least, given>>

Nothing == -1

Init == /\ offered \in Nat
        /\ served = 0
        /\ inside = {}
        /\ least = [c \in Caller |-> 0]
        /\ given = [c \in Caller |-> Nothing]

Offer == /\ offered' > offered
         /\ UNCHANGED <<served, inside, least, given>>

Call(c) == /\ c \notin inside
           /\ inside' = inside \cup {c}
           /\ least' = [least EXCEPT ![c] = served]
           /\ given' = [given EXCEPT ![c] = Nothing]
           /\ UNCHANGED <<offered, served>>

Give(c) == /\ c \in inside
           /\ inside' = inside \ {c}
           /\ \E link \in least[c] .. offered :
                 /\ given' = [given EXCEPT ![c] = link]
                 /\ served' = IF link > served THEN link ELSE served
           /\ UNCHANGED <<offered, least>>

Next == Offer \/ \E c \in Caller : Call(c) \/ Give(c)

Spec == Init /\ [][Next]_vars

=============================================================================
