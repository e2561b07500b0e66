---------------------------- MODULE AlarmNotifier ---------------------------
(***************************************************************************)
(* The alarm-notifier Lambda, internal/alarmnotifier: HandleSNS goes       *)
(* through the records of one SNS event, Notify posts an alarm to every    *)
(* configured channel from a goroutine each, and Lambda retries an         *)
(* invocation that fails before it dead-letters the event.                 *)
(*                                                                         *)
(* Events share nothing but the channels' URLs, so one event is modelled.  *)
(* A record is one of three kinds: "alarm" goes to the channels, "other"   *)
(* is a recovery or INSUFFICIENT_DATA, and "bad" does not parse.           *)
(***************************************************************************)
EXTENDS Integers, Sequences

CONSTANTS Channel,      \* "discord" and "telegram"
          MaxAttempts,  \* Lambda's attempts: 1 and maximum_retry_attempts
          MaxRecords,   \* bound: records of the event
          Outcomes,     \* of a POST: "ack", "lost" (it arrived), "fail"
          Crashes       \* may Lambda kill an invocation at its timeout?

Kind == {"alarm", "other", "bad"}

ASSUME AttemptAssumption == MaxAttempts \in Nat \ {0}
ASSUME RecordAssumption == MaxRecords \in Nat
ASSUME OutcomeAssumption == Outcomes \subseteq {"ack", "lost", "fail"}
ASSUME CrashAssumption == Crashes \in BOOLEAN

VARIABLES
    records,     \* the kinds of event.Records
    configured,  \* channels the Config has
    phase,       \* "queued", "record", "notify", "done" or "dead"
    attempt,     \* invocations of the event so far
    idx,         \* the record HandleSNS is at
    send,        \* the goroutine of each channel
    failed,      \* errs of HandleSNS is not empty
    posted,      \* how often each record arrived at each channel
    acked,       \* history: channels that acknowledged each record
    tried,       \* history: channels each record was sent to, or tried
    heard,       \* history: records acknowledged in this invocation
    kills        \* history: invocations of the event that Lambda killed

cfg == <<records, configured>>
history == <<acked, tried, heard, kills>>
vars == <<cfg, phase, attempt, idx, send, failed, posted, history>>

Invoked == {"record", "notify"}
Settled == phase \in {"done", "dead"}

(* LoadConfig refuses a configuration without a channel. *)
Init == /\ records \in UNION {[1 .. n -> Kind] : n \in 0 .. MaxRecords}
        /\ configured \in (SUBSET Channel) \ {{}}
        /\ phase = "queued" /\ attempt = 0 /\ idx = 0
        /\ send = [c \in Channel |-> "idle"]
        /\ failed = FALSE
        /\ posted = [r \in 1 .. MaxRecords |-> [c \in Channel |-> 0]]
        /\ acked = [r \in 1 .. MaxRecords |-> {}]
        /\ tried = [r \in 1 .. MaxRecords |-> {}]
        /\ heard = {}
        /\ kills = 0

-----------------------------------------------------------------------------
(* Lambda's asynchronous invocation *)

(* Mutant of Settle: one retry too many. *)
SettleOffByOne(error) ==
    /\ phase' = IF ~error THEN "done"
                ELSE IF attempt <= MaxAttempts THEN "queued" ELSE "dead"
    /\ idx' = 0 /\ failed' = FALSE
    /\ send' = [c \in Channel |-> "idle"]

(* The invocation is over; what the next one starts from. *)
Settle(error) ==
    /\ phase' = IF ~error THEN "done"
                ELSE IF attempt < MaxAttempts THEN "queued" ELSE "dead"
    /\ idx' = 0 /\ failed' = FALSE
    /\ send' = [c \in Channel |-> "idle"]

Invoke == /\ phase = "queued"
          /\ attempt' = attempt + 1
          /\ idx' = 1
          /\ phase' = "record"
          /\ heard' = {}
          /\ UNCHANGED <<cfg, send, failed, posted, acked, tried, kills>>

(* The 30 seconds are over, whatever the goroutines were at. *)
Kill == /\ Crashes /\ phase \in Invoked
        /\ Settle(TRUE)
        /\ kills' = kills + 1
        /\ UNCHANGED <<cfg, attempt, posted, acked, tried, heard>>

-----------------------------------------------------------------------------
(* HandleSNS *)

AtRecord(k) == /\ phase = "record"
               /\ idx \in DOMAIN records /\ records[idx] = k

(* Mutant of ParseFails: the first bad record ends the invocation. *)
ParseFailsReturns == /\ AtRecord("bad")
                     /\ Settle(TRUE)
                     /\ UNCHANGED <<cfg, attempt, posted, history>>

ParseFails == /\ AtRecord("bad")
              /\ failed' = TRUE
              /\ idx' = idx + 1
              /\ UNCHANGED <<cfg, phase, attempt, send, posted, history>>

SkipNonAlarm == /\ AtRecord("other")
                /\ idx' = idx + 1
                /\ UNCHANGED <<cfg, phase, attempt, send, failed, posted,
                                history>>

(* Return: the joined errors, or the error of an event without records. *)
Return == /\ phase = "record" /\ idx > Len(records)
          /\ Settle(failed \/ records = << >>)
          /\ UNCHANGED <<cfg, attempt, posted, history>>

-----------------------------------------------------------------------------
(* Notify *)

StartNotify == /\ AtRecord("alarm")
               /\ phase' = "notify"
               /\ send' = [c \in Channel |-> IF c \in configured
                                             THEN "sending" ELSE "idle"]
               /\ tried' = [tried EXCEPT ![idx] = configured]
               /\ UNCHANGED <<cfg, attempt, idx, failed, posted, acked, heard,
                              kills>>

Sending(c) == phase = "notify" /\ send[c] = "sending"

Post(c) == posted' = [posted EXCEPT ![idx][c] = @ + 1]

SendAcked(c) == /\ Sending(c) /\ "ack" \in Outcomes
                /\ Post(c)
                /\ acked' = [acked EXCEPT ![idx] = @ \cup {c}]
                /\ heard' = heard \cup {idx}
                /\ send' = [send EXCEPT ![c] = "acked"]
                /\ UNCHANGED <<cfg, phase, attempt, idx, failed, tried, kills>>

(* The message arrived, the answer did not, or was not a 2xx. *)
SendLost(c) == /\ Sending(c) /\ "lost" \in Outcomes
               /\ Post(c)
               /\ send' = [send EXCEPT ![c] = "failed"]
               /\ UNCHANGED <<cfg, phase, attempt, idx, failed, history>>

SendFails(c) == /\ Sending(c) /\ "fail" \in Outcomes
                /\ send' = [send EXCEPT ![c] = "failed"]
                /\ UNCHANGED <<cfg, phase, attempt, idx, failed, posted, history>>

(* Mutant of Joined: any channel's error fails the invocation. *)
JoinedStrict ==
    /\ phase = "notify" /\ \A c \in Channel : send[c] # "sending"
    /\ failed' = (failed \/ \E c \in configured : send[c] # "acked")
    /\ phase' = "record"
    /\ idx' = idx + 1
    /\ send' = [c \in Channel |-> "idle"]
    /\ UNCHANGED <<cfg, attempt, posted, history>>

(* Mutant of Joined: a channel that failed is waited for. *)
JoinedWhenAllAcked ==
    /\ phase = "notify" /\ \A c \in configured : send[c] = "acked"
    /\ phase' = "record"
    /\ idx' = idx + 1
    /\ send' = [c \in Channel |-> "idle"]
    /\ UNCHANGED <<cfg, attempt, failed, posted, history>>

(* Mutant of Joined: errs keeps the last record's error only. *)
JoinedForgets ==
    /\ phase = "notify" /\ \A c \in Channel : send[c] # "sending"
    /\ failed' = \A c \in configured : send[c] # "acked"
    /\ phase' = "record"
    /\ idx' = idx + 1
    /\ send' = [c \in Channel |-> "idle"]
    /\ UNCHANGED <<cfg, attempt, posted, history>>

(* wg.Wait returned: one acknowledged channel is enough. *)
Joined ==
    /\ phase = "notify" /\ \A c \in Channel : send[c] # "sending"
    /\ failed' = (failed \/ \A c \in configured : send[c] # "acked")
    /\ phase' = "record"
    /\ idx' = idx + 1
    /\ send' = [c \in Channel |-> "idle"]
    /\ UNCHANGED <<cfg, attempt, posted, history>>

Step == \/ Invoke \/ ParseFails \/ SkipNonAlarm \/ Return \/ StartNotify
        \/ \E c \in Channel : SendAcked(c) \/ SendLost(c) \/ SendFails(c)
        \/ Joined

Next == Step \/ Kill

Spec == Init /\ [][Next]_vars

(* Lambda invokes what is queued; a POST ends, at the latest at the 5      *)
(* seconds of httpTimeout.                                                 *)
FairSpec == Spec /\ WF_vars(Step)

-----------------------------------------------------------------------------
(* Properties *)

(* Every variable stays in its range. *)
TypeOK == /\ records \in UNION {[1 .. n -> Kind] : n \in 0 .. MaxRecords}
          /\ configured \in (SUBSET Channel) \ {{}}
          /\ phase \in {"queued", "done", "dead"} \cup Invoked
          /\ attempt \in 0 .. MaxAttempts
          /\ idx \in 0 .. MaxRecords + 1
          /\ send \in [Channel -> {"idle", "sending", "acked", "failed"}]
          /\ failed \in BOOLEAN
          /\ posted \in [1 .. MaxRecords -> [Channel -> 0 .. MaxAttempts]]
          /\ acked \in [1 .. MaxRecords -> SUBSET Channel]
          /\ tried \in [1 .. MaxRecords -> SUBSET Channel]
          /\ heard \in SUBSET (1 .. MaxRecords)
          /\ kills \in 0 .. attempt

(* An event Lambda counts as a success had no bad record, and each of its  *)
(* alarms was acknowledged by a channel: no alarm is dropped in silence,   *)
(* whatever failed or was killed in the attempts before.                   *)
SuccessMeansDelivered ==
    phase = "done" => \A r \in DOMAIN records :
                         /\ records[r] # "bad"
                         /\ records[r] = "alarm" => acked[r] # {}

(* A bad record, a failed one or a channel that is down costs the others   *)
(* nothing: unless Lambda kills it, an event is done with only after every *)
(* alarm was tried on every configured channel.                            *)
RecordsIsolated ==
    Settled /\ kills = 0 => \A r \in DOMAIN records :
                             records[r] = "alarm" => tried[r] = configured

Resent(r) == \E c \in acked[r] : posted'[r][c] # posted[r][c]

(* With one record per event, as SNS delivers them, a partial failure is   *)
(* not retried: a channel that acknowledged an alarm is not sent it again. *)
PartialNotResent ==
    [][Len(records) = 1 /\ kills = 0 => ~Resent(1)]_vars

(* The same of any event, the reason the comment at notify.go:89-90 gives  *)
(* for swallowing a partial failure.                                       *)
NoResendAfterAck == [][\A r \in 1 .. MaxRecords : ~Resent(r)]_vars

(* Every event is handled or dead-lettered. *)
EventSettles == <>[]Settled

(* What the event looks like from outside. *)
Alarms == {r \in DOMAIN records : records[r] = "alarm"}
Sound == /\ records # << >>
         /\ \A r \in DOMAIN records : records[r] # "bad"
Outcome == CASE phase = "queued" -> "waiting"
             [] phase \in Invoked -> "out"
             [] phase = "done"    -> "handled"
             [] phase = "dead"    -> "dead"

Rounds == INSTANCE Courier
              WITH Letter <- 1 .. MaxRecords, Address <- Channel,
                   MaxRounds <- MaxAttempts, Breakable <- Crashes,
                   alarms <- Alarms, sound <- Sound, outcome <- Outcome,
                   round <- attempt, copies <- posted, heard <- heard,
                   cuts <- kills

(* The verdict of an invocation is exact: an event is a success only if    *)
(* each of its alarms was acknowledged in that invocation, and runs again  *)
(* or is dead-lettered only if one was not, if a record is bad or missing, *)
(* or if Lambda killed that one.  And no channel ever gets an alarm more   *)
(* often than the event was invoked.                                       *)
ImplementsCourier == Rounds!Spec

=============================================================================
