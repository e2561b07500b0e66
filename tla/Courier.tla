------------------------------ MODULE Courier -------------------------------
(***************************************************************************)
(* What the alarm notifier, with Lambda's retries, promises about the      *)
(* alarms of one event: they are taken round in at most MaxRounds rounds.  *)
(* No address ever has more copies of an alarm than there were rounds, and *)
(* the verdict on a round that is not cut short is exact: the event is     *)
(* handled when each of its alarms was heard in that very round, and goes  *)
(* round again, or is given up, only when one was not, or when the event   *)
(* itself is unsound.                                                      *)
(***************************************************************************)
EXTENDS Integers

CONSTANTS Letter,    \* positions an alarm may have in an event
          Address,   \* where an alarm may be delivered
          MaxRounds,
          Breakable  \* may a round be cut short?

VARIABLES
    alarms,  \* the letters of this event that have to be delivered
    sound,   \* the event has records, and all of them can be read
    outcome, \* "waiting", "out", "handled" or "dead"
    round,   \* rounds begun
    copies,  \* how often each alarm has arrived at each address
    heard,   \* alarms that an address has acknowledged in this round
    cuts     \* rounds that were cut short

vars == <<alarms, sound, outcome, round, copies, heard, cuts>>

Init == /\ alarms \subseteq Letter
        /\ sound \in BOOLEAN
        /\ outcome = "waiting"
        /\ round = 0
        /\ copies = [r \in Letter |-> [a \in Address |-> 0]]
        /\ heard = {}
        /\ cuts = 0

SetOut == /\ outcome = "waiting"
          /\ outcome' = "out"
          /\ round' = round + 1
          /\ heard' = {}
          /\ UNCHANGED <<alarms, sound, copies, cuts>>

(* A copy arrives, and the sender may learn that it has. *)
Deliver(r, a) == /\ outcome = "out"
                 /\ r \in alarms /\ copies[r][a] < round
                 /\ copies' = [copies EXCEPT ![r][a] = @ + 1]
                 /\ heard' \in {heard, heard \cup {r}}
                 /\ UNCHANGED <<alarms, sound, outcome, round, cuts>>

AllIsWell == sound /\ heard = alarms

Handle == /\ outcome = "out" /\ AllIsWell
          /\ outcome' = "handled"
          /\ UNCHANGED <<alarms, sound, round, copies, heard, cuts>>

Reschedule == outcome' = IF round < MaxRounds THEN "waiting" ELSE "dead"

ComeBack == /\ outcome = "out" /\ ~AllIsWell
            /\ Reschedule
            /\ UNCHANGED <<alarms, sound, round, copies, heard, cuts>>

CutShort == /\ outcome = "out" /\ Breakable
            /\ Reschedule
            /\ cuts' = cuts + 1
            /\ UNCHANGED <<alarms, sound, round, copies, heard>>

Next == \/ SetOut \/ Handle \/ ComeBack \/ CutShort
        \/ \E r \in Letter, a \in Address : Deliver(r, a)

Spec == Init /\ [][Next]_vars

=============================================================================
