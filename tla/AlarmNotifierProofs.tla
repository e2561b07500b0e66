------------------------ MODULE AlarmNotifierProofs -------------------------
(***************************************************************************)
(* Proofs about AlarmNotifier for every set of channels, every number of   *)
(* records and attempts, every outcome of a POST and every kill.           *)
(***************************************************************************)
EXTENDS AlarmNotifier, TLAPS

USE AttemptAssumption, RecordAssumption DEF Kind, Invoked

Delivered(r) == /\ records[r] # "bad"
                /\ records[r] = "alarm" => acked[r] # {}

(* The parts of the type invariant the argument needs. *)
ShapeOK == /\ \E n \in 0 .. MaxRecords : records \in [1 .. n -> Kind]
           /\ configured \subseteq Channel
           /\ failed \in BOOLEAN
           /\ send \in [Channel -> {"idle", "sending", "acked", "failed"}]
           /\ idx \in Nat
           /\ acked \in [1 .. MaxRecords -> SUBSET Channel]

(* An invocation without an error so far has delivered the records behind  *)
(* it, and a goroutine that reports success was acknowledged.              *)
ProgressOK ==
    /\ phase \in Invoked /\ ~failed
          => \A r \in DOMAIN records : r < idx => Delivered(r)
    /\ phase = "notify"
          => /\ idx \in DOMAIN records
             /\ records[idx] = "alarm"
             /\ \A c \in Channel : send[c] = "acked" => c \in acked[idx]
    /\ phase = "done" => \A r \in DOMAIN records : Delivered(r)

IInv == ShapeOK /\ ProgressOK

(* An event of any length starts with every variable in shape. *)
LEMMA ShapeInit == Init => ShapeOK
  <1> SUFFICES ASSUME Init PROVE ShapeOK
    OBVIOUS
  <1>1. \E n \in 0 .. MaxRecords : records \in [1 .. n -> Kind]
    BY DEF Init
  <1>2. acked \in [1 .. MaxRecords -> SUBSET Channel]
    BY DEF Init
  <1> QED
    BY <1>1, <1>2 DEF Init, ShapeOK

(* Every step of Lambda, the handler and its goroutines keeps it. *)
LEMMA ShapeStep == ShapeOK /\ [Next]_vars => ShapeOK'
  <1> SUFFICES ASSUME ShapeOK, [Next]_vars PROVE ShapeOK'
    OBVIOUS
  <1> USE DEF ShapeOK, cfg, history
  <1>1. CASE Invoke
    BY <1>1 DEF Invoke
  <1>2. CASE Kill
    BY <1>2 DEF Kill, Settle
  <1>3. CASE ParseFails
    BY <1>3 DEF ParseFails
  <1>4. CASE SkipNonAlarm
    <2>1. idx' \in Nat /\ UNCHANGED <<cfg, send, failed, history>>
      BY <1>4 DEF SkipNonAlarm
    <2> QED
      BY <2>1
  <1>5. CASE Return
    BY <1>5 DEF Return, Settle
  <1>6. CASE StartNotify
    BY <1>6 DEF StartNotify
  <1>7. ASSUME NEW c \in Channel, SendAcked(c) PROVE ShapeOK'
    BY <1>7 DEF SendAcked, Post
  <1>8. ASSUME NEW c \in Channel, SendLost(c) \/ SendFails(c) PROVE ShapeOK'
    BY <1>8 DEF SendLost, SendFails, Post
  <1>9. CASE Joined
    <2>1. failed' \in BOOLEAN
      BY <1>9 DEF Joined
    <2>2. /\ idx' \in Nat /\ UNCHANGED <<records, configured, acked>>
          /\ send' \in [Channel -> {"idle", "sending", "acked", "failed"}]
      BY <1>9 DEF Joined
    <2> QED
      BY <2>1, <2>2
  <1>10. CASE UNCHANGED vars
    BY <1>10 DEF vars
  <1> QED
    BY <1>1, <1>2, <1>3, <1>4, <1>5, <1>6, <1>7, <1>8, <1>9, <1>10 DEF Next, Step

(* No step moves past a record that has not been delivered. *)
LEMMA ProgressStep == ShapeOK /\ ProgressOK /\ [Next]_vars => ProgressOK'
  <1> SUFFICES ASSUME ShapeOK, ProgressOK, [Next]_vars PROVE ProgressOK'
    OBVIOUS
  <1>1. PICK n \in 0 .. MaxRecords : records \in [1 .. n -> Kind]
    BY DEF ShapeOK
  <1>2. DOMAIN records = 1 .. n /\ Len(records) = n
    BY <1>1
  <1> USE DEF ShapeOK, ProgressOK, Delivered, cfg, history
  <1>3. CASE Invoke
    BY <1>2, <1>3 DEF Invoke
  <1>4. CASE Kill
    BY <1>4 DEF Kill, Settle
  <1>5. CASE ParseFails
    BY <1>5 DEF ParseFails, AtRecord
  <1>6. CASE SkipNonAlarm
    BY <1>2, <1>6 DEF SkipNonAlarm, AtRecord
  <1>7. CASE Return
    BY <1>2, <1>7 DEF Return, Settle
  <1>8. CASE StartNotify
    BY <1>8 DEF StartNotify, AtRecord
  <1>9. ASSUME NEW c \in Channel, SendAcked(c) PROVE ProgressOK'
    BY <1>1, <1>2, <1>9 DEF SendAcked, Sending
  <1>10. ASSUME NEW c \in Channel, SendLost(c) \/ SendFails(c) PROVE ProgressOK'
    <2>1. /\ UNCHANGED <<records, phase, idx, failed, acked>>
          /\ phase = "notify"
          /\ \A d \in Channel : send'[d] = "acked" => send[d] = "acked"
      BY <1>10 DEF SendLost, SendFails, Sending
    <2> QED
      BY <2>1
  <1>11. CASE Joined
    <2>1. ASSUME ~failed', NEW r \in DOMAIN records, r < idx + 1
          PROVE  Delivered(r)
      <3>1. ~failed /\ \E c \in configured : send[c] = "acked"
        BY <1>11, <2>1 DEF Joined
      <3>2. CASE r = idx
        BY <1>11, <3>1, <3>2 DEF Joined
      <3>3. CASE r < idx
        BY <1>11, <3>1, <3>3 DEF Joined
      <3> QED
        BY <1>2, <2>1, <3>2, <3>3
    <2> QED
      BY <1>11, <2>1 DEF Joined
  <1>12. CASE UNCHANGED vars
    BY <1>12 DEF vars
  <1> QED
    BY <1>3, <1>4, <1>5, <1>6, <1>7, <1>8, <1>9, <1>10, <1>11, <1>12
    DEF Next, Step

(* An event counted as a success had every alarm acknowledged by a channel *)
(* and no record that does not parse.                                      *)
THEOREM NoSilentDrop == Spec => []SuccessMeansDelivered
  <1>1. Init => IInv
    BY ShapeInit DEF Init, IInv, ProgressOK
  <1>2. IInv /\ [Next]_vars => IInv'
    BY ShapeStep, ProgressStep DEF IInv
  <1>3. IInv => SuccessMeansDelivered
    BY DEF IInv, ProgressOK, Delivered, SuccessMeansDelivered
  <1> QED
    BY <1>1, <1>2, <1>3, PTL DEF Spec

-----------------------------------------------------------------------------
(* How far an event can get *)

(* No invocation starts or goes on beyond its bounds. *)
BoundsOK == /\ phase \in {"queued", "done", "dead"} \cup Invoked
            /\ attempt \in 0 .. MaxAttempts
            /\ phase = "queued" => attempt < MaxAttempts
            /\ idx <= Len(records) + 1
            /\ configured # {}
            /\ tried \in [1 .. MaxRecords -> SUBSET Channel]

(* An invocation is killed at most once, and hears of records it has.      *)
TallyOK == /\ kills \in 0 .. attempt
           /\ phase \in Invoked => kills < attempt
           /\ heard \subseteq 1 .. MaxRecords

(* Whether this invocation may still post record r to channel c. *)
Ahead(r, c) == /\ phase \in Invoked
               /\ \/ r > idx
                  \/ r = idx /\ (phase = "record" \/ send[c] = "sending")

(* An invocation posts a record to a channel once. *)
PostedOK == /\ posted \in [1 .. MaxRecords -> [Channel -> Nat]]
            /\ \A r \in 1 .. MaxRecords, c \in Channel :
                  /\ posted[r][c] <= attempt
                  /\ Ahead(r, c) => posted[r][c] < attempt

(* An event is a sequence of at most MaxRecords records. *)
LEMMA Length ==
  ASSUME ShapeOK
  PROVE  Len(records) \in 0 .. MaxRecords /\ DOMAIN records = 1 .. Len(records)
  BY DEF ShapeOK

(* The length of an event does not change. *)
LEMMA EventLength ==
  ASSUME ShapeOK, UNCHANGED records
  PROVE  /\ Len(records) \in 0 .. MaxRecords /\ DOMAIN records = 1 .. Len(records)
         /\ Len(records)' = Len(records)
  BY DEF ShapeOK

(* Lambda's retries and the loop over the records stay in bounds. *)
LEMMA BoundsStep == ShapeOK /\ BoundsOK /\ ProgressOK /\ [Next]_vars => BoundsOK'
  <1> SUFFICES ASSUME ShapeOK, BoundsOK, ProgressOK, [Next]_vars PROVE BoundsOK'
    OBVIOUS
  <1>1. UNCHANGED cfg
    BY DEF Next, Step, Invoke, ParseFails, SkipNonAlarm, Return, StartNotify,
           SendAcked, SendLost, SendFails, Joined, Kill, vars
  <1>2. /\ Len(records) \in 0 .. MaxRecords /\ DOMAIN records = 1 .. Len(records)
        /\ Len(records)' = Len(records) /\ idx \in Nat
    BY <1>1, EventLength DEF cfg, ShapeOK
  <1> USE DEF BoundsOK, history
  <1>3. CASE Invoke
    BY <1>1, <1>2, <1>3 DEF Invoke, cfg
  <1>4. ASSUME NEW error, Settle(error), UNCHANGED <<attempt, tried>>
        PROVE BoundsOK'
    BY <1>1, <1>2, <1>4 DEF Settle, cfg
  <1>5. CASE Kill \/ Return
    BY <1>4, <1>5 DEF Kill, Return
  <1>6. CASE ParseFails \/ SkipNonAlarm
    BY <1>1, <1>2, <1>6 DEF ParseFails, SkipNonAlarm, AtRecord, cfg
  <1>7. CASE StartNotify
    <2>1. tried' \in [1 .. MaxRecords -> SUBSET Channel]
      BY <1>7 DEF StartNotify, ShapeOK
    <2> QED
      BY <1>1, <1>2, <1>7, <2>1 DEF StartNotify, cfg
  <1>8. ASSUME NEW c \in Channel, SendAcked(c) \/ SendLost(c) \/ SendFails(c)
        PROVE BoundsOK'
    BY <1>1, <1>2, <1>8 DEF SendAcked, SendLost, SendFails, cfg
  <1>9. CASE Joined
    <2>1. idx \in DOMAIN records
      BY <1>9 DEF Joined, ProgressOK
    <2> QED
      BY <1>1, <1>2, <1>9, <2>1 DEF Joined, cfg
  <1>10. CASE UNCHANGED vars
    BY <1>1, <1>2, <1>10 DEF vars, cfg
  <1> QED
    BY <1>3, <1>5, <1>6, <1>7, <1>8, <1>9, <1>10 DEF Next, Step

(* Kill ends the invocation it counts, and SendAcked is at a record.       *)
LEMMA TallyStep ==
  ShapeOK /\ BoundsOK /\ ProgressOK /\ TallyOK /\ [Next]_vars => TallyOK'
  <1> SUFFICES ASSUME ShapeOK, BoundsOK, ProgressOK, TallyOK, [Next]_vars
               PROVE  TallyOK'
    OBVIOUS
  <1>1. attempt \in Nat
    BY DEF BoundsOK
  <1> USE DEF TallyOK, history
  <1>2. CASE Invoke
    BY <1>1, <1>2 DEF Invoke
  <1>3. CASE Kill
    BY <1>1, <1>3 DEF Kill, Settle
  <1>4. CASE Return
    BY <1>4 DEF Return, Settle
  <1>5. CASE ParseFails \/ SkipNonAlarm \/ StartNotify \/ Joined
    BY <1>5 DEF ParseFails, SkipNonAlarm, StartNotify, Joined, AtRecord
  <1>6. ASSUME NEW c \in Channel, SendAcked(c) PROVE TallyOK'
    <2>1. idx \in 1 .. MaxRecords
      BY <1>6, Length DEF SendAcked, Sending, ProgressOK
    <2> QED
      BY <1>6, <2>1 DEF SendAcked, Sending
  <1>7. ASSUME NEW c \in Channel, SendLost(c) \/ SendFails(c) PROVE TallyOK'
    BY <1>7 DEF SendLost, SendFails
  <1>8. CASE UNCHANGED vars
    BY <1>8 DEF vars
  <1> QED
    BY <1>2, <1>3, <1>4, <1>5, <1>6, <1>7, <1>8 DEF Next, Step

(* A goroutine posts and ends; the next record is not posted yet. *)
LEMMA PostedStep ==
  ShapeOK /\ BoundsOK /\ ProgressOK /\ PostedOK /\ [Next]_vars => PostedOK'
  <1> SUFFICES ASSUME ShapeOK, BoundsOK, ProgressOK, PostedOK, [Next]_vars
               PROVE  PostedOK'
    OBVIOUS
  <1>1. attempt \in Nat /\ idx \in Nat
    BY DEF BoundsOK, ShapeOK
  <1>2. ASSUME UNCHANGED <<posted, attempt>>,
               \A r \in 1 .. MaxRecords, c \in Channel :
                  Ahead(r, c)' => Ahead(r, c)
        PROVE PostedOK'
    BY <1>2 DEF PostedOK
  <1>3. CASE Invoke
    BY <1>1, <1>3 DEF Invoke, PostedOK
  <1>4. CASE Kill \/ Return
    BY <1>2, <1>4 DEF Kill, Return, Settle, Ahead
  <1>5. CASE ParseFails \/ SkipNonAlarm \/ StartNotify
    BY <1>1, <1>2, <1>5 DEF ParseFails, SkipNonAlarm, StartNotify, AtRecord, Ahead
  <1>6. ASSUME NEW c \in Channel, SendFails(c) PROVE PostedOK'
    BY <1>2, <1>6 DEF SendFails, Ahead, ShapeOK
  <1>7. ASSUME NEW c \in Channel, SendAcked(c) \/ SendLost(c) PROVE PostedOK'
    <2>1. /\ phase = "notify" /\ send[c] = "sending" /\ Post(c)
          /\ send'[c] # "sending"
          /\ \A d \in Channel : send'[d] = "sending" => send[d] = "sending"
          /\ UNCHANGED <<phase, attempt, idx>>
      BY <1>7 DEF SendAcked, SendLost, Sending, ShapeOK
    <2>2. idx \in 1 .. MaxRecords
      BY <2>1 DEF ProgressOK, ShapeOK
    <2>3. posted' \in [1 .. MaxRecords -> [Channel -> Nat]]
      BY <2>1, <2>2 DEF Post, PostedOK
    <2>4. posted'[idx][c] = posted[idx][c] + 1 /\ posted[idx][c] < attempt
      BY <2>1, <2>2 DEF Post, PostedOK, Ahead
    <2>5. \A r \in 1 .. MaxRecords, d \in Channel :
             r # idx \/ d # c => posted'[r][d] = posted[r][d]
      BY <2>1, <2>2 DEF Post, PostedOK
    <2>6. ASSUME NEW r \in 1 .. MaxRecords, NEW d \in Channel
          PROVE  /\ posted'[r][d] <= attempt'
                 /\ Ahead(r, d)' => posted'[r][d] < attempt'
      <3>1. CASE r = idx /\ d = c
        <4>1. ~Ahead(r, d)'
          BY <1>1, <2>1, <3>1 DEF Ahead
        <4> QED
          BY <1>1, <2>1, <2>2, <2>4, <3>1, <4>1 DEF PostedOK
      <3>2. CASE r # idx \/ d # c
        <4>1. Ahead(r, d)' => Ahead(r, d)
          BY <2>1 DEF Ahead
        <4> QED
          BY <2>1, <2>5, <3>2, <4>1 DEF PostedOK
      <3> QED
        BY <3>1, <3>2
    <2> QED
      BY <2>3, <2>6 DEF PostedOK
  <1>8. CASE Joined
    BY <1>1, <1>2, <1>8 DEF Joined, Ahead
  <1>9. CASE UNCHANGED vars
    BY <1>2, <1>9 DEF vars, Ahead
  <1> QED
    BY <1>3, <1>4, <1>5, <1>6, <1>7, <1>8, <1>9 DEF Next, Step

(* The parts of the type invariant hold from the first delivery on.        *)
LEMMA Bounded == Spec => [](IInv /\ BoundsOK /\ TallyOK /\ PostedOK)
  <1>1. Init => IInv /\ BoundsOK /\ TallyOK /\ PostedOK
    <2> SUFFICES ASSUME Init PROVE IInv /\ BoundsOK /\ TallyOK /\ PostedOK
      OBVIOUS
    <2>1. IInv
      BY ShapeInit DEF Init, IInv, ProgressOK
    <2>2. Len(records) \in Nat
      BY <2>1 DEF IInv, ShapeOK
    <2>3. BoundsOK
      <3>1. phase = "queued" /\ attempt = 0 /\ idx = 0
        BY DEF Init
      <3>4. configured # {}
        <4>1. configured \in (SUBSET Channel) \ {{}}
          BY DEF Init
        <4> QED
          BY <4>1
      <3>2. tried \in [1 .. MaxRecords -> SUBSET Channel]
        BY DEF Init
      <3>3. idx <= Len(records) + 1
        BY <2>2, <3>1
      <3>5. attempt \in 0 .. MaxAttempts /\ attempt < MaxAttempts
        BY <3>1
      <3> QED
        BY <3>1, <3>2, <3>3, <3>4, <3>5 DEF BoundsOK
    <2>4. PostedOK
      BY DEF Init, PostedOK, Ahead
    <2>5. TallyOK
      BY DEF Init, TallyOK
    <2> QED
      BY <2>1, <2>3, <2>4, <2>5
  <1>2. IInv /\ BoundsOK /\ TallyOK /\ PostedOK /\ [Next]_vars
           => (IInv /\ BoundsOK /\ TallyOK /\ PostedOK)'
    BY ShapeStep, ProgressStep, BoundsStep, TallyStep, PostedStep DEF IInv
  <1> QED
    BY <1>1, <1>2, PTL DEF Spec

(* Every variable of the event and of its invocations keeps its type, so   *)
(* no record is ever posted to a channel more than MaxAttempts times.      *)
THEOREM TypeCorrect == Spec => []TypeOK
  <1>1. IInv /\ BoundsOK /\ TallyOK /\ PostedOK => TypeOK
    <2> SUFFICES ASSUME IInv, BoundsOK, TallyOK, PostedOK PROVE TypeOK
      OBVIOUS
    <2>1. records \in UNION {[1 .. n -> Kind] : n \in 0 .. MaxRecords}
      BY DEF IInv, ShapeOK
    <2>2. idx \in 0 .. MaxRecords + 1
      <3>1. Len(records) \in 0 .. MaxRecords /\ idx \in Nat
        BY DEF IInv, ShapeOK
      <3> QED
        BY <3>1 DEF BoundsOK
    <2>3. posted \in [1 .. MaxRecords -> [Channel -> 0 .. MaxAttempts]]
      <3>1. \A r \in 1 .. MaxRecords, c \in Channel :
               posted[r][c] \in 0 .. MaxAttempts
        BY DEF BoundsOK, PostedOK
      <3>2. \A r \in 1 .. MaxRecords : posted[r] \in [Channel -> 0 .. MaxAttempts]
        BY <3>1 DEF PostedOK
      <3> QED
        BY <3>2 DEF PostedOK
    <2>4. /\ failed \in BOOLEAN
          /\ send \in [Channel -> {"idle", "sending", "acked", "failed"}]
          /\ acked \in [1 .. MaxRecords -> SUBSET Channel]
      BY DEF IInv, ShapeOK
    <2>6. configured \in (SUBSET Channel) \ {{}}
      <3>1. configured \subseteq Channel /\ configured # {}
        BY DEF IInv, ShapeOK, BoundsOK
      <3> QED
        BY <3>1
    <2>5. /\ phase \in {"queued", "done", "dead"} \cup Invoked
          /\ attempt \in 0 .. MaxAttempts /\ kills \in 0 .. attempt
          /\ tried \in [1 .. MaxRecords -> SUBSET Channel]
          /\ heard \in SUBSET (1 .. MaxRecords)
      BY DEF BoundsOK, TallyOK
    <2> QED
      BY <2>1, <2>2, <2>3, <2>4, <2>5, <2>6 DEF TypeOK
  <1> QED
    BY <1>1, Bounded, PTL

-----------------------------------------------------------------------------
(* Records and channels do not affect each other *)

(* Whatever came of it, an alarm that lies behind was tried everywhere.    *)
TriedOK ==
    /\ phase \in Invoked => \A r \in DOMAIN records :
          r < idx /\ records[r] = "alarm" => tried[r] = configured
    /\ phase = "notify" => tried[idx] = configured
    /\ RecordsIsolated

(* No step moves past an alarm that was not tried.                         *)
LEMMA TriedStep ==
  ShapeOK /\ BoundsOK /\ TallyOK /\ ProgressOK /\ TriedOK /\ [Next]_vars
     => TriedOK'
  <1> SUFFICES ASSUME ShapeOK, BoundsOK, TallyOK, ProgressOK, TriedOK,
                      [Next]_vars
               PROVE  TriedOK'
    OBVIOUS
  <1>1. /\ idx \in Nat /\ Len(records) \in 0 .. MaxRecords
        /\ DOMAIN records = 1 .. Len(records)
        /\ tried \in [1 .. MaxRecords -> SUBSET Channel]
    BY DEF ShapeOK, BoundsOK
  <1> USE DEF TriedOK, RecordsIsolated, Settled, cfg, history
  <1>2. CASE Invoke
    BY <1>1, <1>2 DEF Invoke
  <1>3. CASE Kill
    <2>1. kills' # 0
      BY <1>3 DEF Kill, TallyOK, BoundsOK
    <2> QED
      BY <1>3, <2>1 DEF Kill, Settle
  <1>4. CASE Return
    <2>1. \A r \in DOMAIN records : r < idx
      BY <1>1, <1>4 DEF Return
    <2>2. \A r \in DOMAIN records : records[r] = "alarm" => tried[r] = configured
      BY <1>4, <2>1 DEF Return
    <2>3. /\ UNCHANGED <<records, configured, tried>> /\ phase' \notin Invoked
      BY <1>4 DEF Return, Settle
    <2> QED
      BY <2>2, <2>3
  <1>5. CASE ParseFails \/ SkipNonAlarm
    BY <1>1, <1>5 DEF ParseFails, SkipNonAlarm, AtRecord
  <1>6. CASE StartNotify
    BY <1>1, <1>6 DEF StartNotify, AtRecord
  <1>7. ASSUME NEW c \in Channel, SendAcked(c) \/ SendLost(c) \/ SendFails(c)
        PROVE TriedOK'
    BY <1>7 DEF SendAcked, SendLost, SendFails, Sending
  <1>8. CASE Joined
    BY <1>1, <1>8 DEF Joined
  <1>9. CASE UNCHANGED vars
    BY <1>9 DEF vars
  <1> QED
    BY <1>2, <1>3, <1>4, <1>5, <1>6, <1>7, <1>8, <1>9 DEF Next, Step

(* Unless Lambda kills it, an event is done with only after every alarm in *)
(* it was tried on every configured channel.                               *)
THEOREM NoRecordCostsAnother == Spec => []RecordsIsolated
  <1>1. Init => TriedOK
    BY DEF Init, TriedOK, RecordsIsolated, Settled
  <1>2. TriedOK => RecordsIsolated
    BY DEF TriedOK
  <1> QED
    BY <1>1, <1>2, TriedStep, Bounded, PTL DEF Spec, IInv

(* In an event with one record, the channels that acknowledged it are the  *)
(* goroutines of this invocation that report success; once there is one,   *)
(* no invocation follows.                                                  *)
OneRecordOK ==
    Len(records) = 1 /\ kills = 0 =>
       /\ phase = "queued" => ~failed /\ acked[1] = {}
       /\ phase = "record" /\ idx = 1 => ~failed /\ acked[1] = {}
       /\ phase = "record" /\ failed => acked[1] = {}
       /\ phase = "notify" => /\ ~failed
                              /\ \A c \in acked[1] : c \in configured
                                                     /\ send[c] = "acked"

(* Only configured channels have a goroutine that posts.                   *)
SendingOK == \A c \in Channel :
                phase = "notify" /\ send[c] = "sending" => c \in configured

(* StartNotify starts one for each of them, and no other step does.        *)
LEMMA SendingStep == ShapeOK /\ SendingOK /\ [Next]_vars => SendingOK'
  <1> SUFFICES ASSUME ShapeOK, SendingOK, [Next]_vars PROVE SendingOK'
    OBVIOUS
  <1> USE DEF SendingOK, cfg
  <1>1. CASE Invoke \/ ParseFails \/ SkipNonAlarm \/ Joined
    BY <1>1 DEF Invoke, ParseFails, SkipNonAlarm, Joined, AtRecord
  <1>2. CASE Kill \/ Return
    BY <1>2 DEF Kill, Return, Settle
  <1>3. CASE StartNotify
    BY <1>3 DEF StartNotify
  <1>4. ASSUME NEW c \in Channel, SendAcked(c) \/ SendLost(c) \/ SendFails(c)
        PROVE SendingOK'
    BY <1>4 DEF SendAcked, SendLost, SendFails, Sending, ShapeOK
  <1>5. CASE UNCHANGED vars
    BY <1>5 DEF vars
  <1> QED
    BY <1>1, <1>2, <1>3, <1>4, <1>5 DEF Next, Step

(* A failed notification is one that no channel acknowledged.              *)
LEMMA OneRecordStep ==
  ShapeOK /\ BoundsOK /\ TallyOK /\ ProgressOK /\ SendingOK /\ OneRecordOK
     /\ [Next]_vars => OneRecordOK'
  <1> SUFFICES ASSUME ShapeOK, BoundsOK, TallyOK, ProgressOK, SendingOK,
                      OneRecordOK, [Next]_vars, Len(records)' = 1, kills' = 0
               PROVE  OneRecordOK'
    BY DEF OneRecordOK
  <1>1. UNCHANGED cfg
    BY DEF Next, Step, Invoke, ParseFails, SkipNonAlarm, Return, StartNotify,
           SendAcked, SendLost, SendFails, Joined, Kill, vars
  <1>2. /\ Len(records) = 1 /\ idx \in Nat /\ DOMAIN records = {1}
        /\ 1 \in 1 .. MaxRecords /\ records # << >> /\ idx <= 2
    <2>1. /\ Len(records)' = Len(records) /\ DOMAIN records = 1 .. Len(records)
          /\ Len(records) \in 0 .. MaxRecords
      BY <1>1, EventLength DEF cfg
    <2>2. Len(records) = 1 /\ DOMAIN records = {1} /\ 1 \in 1 .. MaxRecords
      <3>1. Len(records) = 1
        BY <2>1, Zenon
      <3> QED
        BY <2>1, <3>1
    <2>3. idx \in Nat /\ idx <= 2
      BY <2>2 DEF ShapeOK, BoundsOK
    <2>4. records # << >>
      BY <2>2
    <2> QED
      BY <2>2, <2>3, <2>4
  <1>3. kills = 0 /\ ~Kill
    <2>1. ~Kill
      <3>1. kills \in 0 .. attempt /\ attempt \in Nat
        BY DEF TallyOK, BoundsOK
      <3>2. kills + 1 # 0
        BY <3>1
      <3> QED
        BY <3>2 DEF Kill
    <2> QED
      BY <2>1 DEF Next, Step, Invoke, ParseFails, SkipNonAlarm, Return,
                  StartNotify, SendAcked, SendLost, SendFails, Joined, vars,
                  history
  <1> USE DEF OneRecordOK, history
  <1>4. CASE Invoke
    BY <1>2, <1>3, <1>4 DEF Invoke
  <1>5. CASE ParseFails \/ SkipNonAlarm
    BY <1>2, <1>3, <1>5 DEF ParseFails, SkipNonAlarm, AtRecord
  <1>6. CASE Return
    BY <1>2, <1>3, <1>6 DEF Return, Settle
  <1>7. CASE StartNotify
    BY <1>2, <1>3, <1>7 DEF StartNotify, AtRecord
  <1>8. ASSUME NEW c \in Channel, SendAcked(c) \/ SendLost(c) \/ SendFails(c)
        PROVE OneRecordOK'
    <2>1. /\ phase = "notify" /\ phase' = "notify" /\ idx = 1 /\ ~failed
          /\ UNCHANGED <<records, configured, failed>>
      BY <1>2, <1>3, <1>8 DEF SendAcked, SendLost, SendFails, Sending,
                              ProgressOK, cfg
    <2>2. send[c] = "sending" /\ send'[c] \in {"acked", "failed"}
      BY <1>8 DEF SendAcked, SendLost, SendFails, Sending, ShapeOK
    <2>3. \A d \in Channel \ {c} : send'[d] = send[d]
      BY <1>8 DEF SendAcked, SendLost, SendFails, ShapeOK
    <2>4. c \in configured
      BY <2>1, <2>2 DEF SendingOK
    <2>5. \/ acked' = acked
          \/ acked'[1] = acked[1] \cup {c} /\ send'[c] = "acked"
      BY <1>2, <1>8, <2>1 DEF SendAcked, SendLost, SendFails, ShapeOK
    <2>6. \A d \in acked[1] : d \in configured /\ d # c /\ send[d] = "acked"
      BY <1>2, <1>3, <2>1, <2>2
    <2>7. \A d \in acked'[1] : d \in configured /\ send'[d] = "acked"
      BY <2>3, <2>4, <2>5, <2>6 DEF ShapeOK
    <2> QED
      BY <2>1, <2>7
  <1>9. CASE Joined
    <2>1. /\ phase' = "record" /\ idx = 1 /\ idx' = 2 /\ acked' = acked
          /\ failed' = (failed \/ \A c \in configured : send[c] # "acked")
          /\ phase = "notify"
      BY <1>2, <1>9 DEF Joined, ProgressOK
    <2>2. /\ ~failed
          /\ \A c \in acked[1] : c \in configured /\ send[c] = "acked"
      BY <1>2, <1>3, <2>1
    <2>3. failed' => acked[1] = {}
      BY <2>1, <2>2
    <2> QED
      BY <2>1, <2>3
  <1>10. CASE UNCHANGED vars
    BY <1>3, <1>10 DEF vars, cfg
  <1> QED
    BY <1>3, <1>4, <1>5, <1>6, <1>7, <1>8, <1>9, <1>10 DEF Next, Step

(* In an event with one record that Lambda does not kill, a channel that   *)
(* acknowledged the alarm is not sent it again, whatever the others did.   *)
THEOREM PartialIsNotResent == Spec => PartialNotResent
  <1> DEFINE Inv == ShapeOK /\ SendingOK /\ OneRecordOK /\ PostedOK /\ ProgressOK
  <1>1. Init => SendingOK /\ OneRecordOK
    <2> SUFFICES ASSUME Init PROVE SendingOK /\ OneRecordOK
      OBVIOUS
    <2>1. phase = "queued" /\ failed = FALSE
      BY DEF Init
    <2>2. Len(records) = 1 => acked[1] = {}
      <3>1. ShapeOK
        BY ShapeInit
      <3>2. Len(records) = 1 => 1 \in 1 .. MaxRecords
        BY <3>1 DEF ShapeOK
      <3> QED
        BY <3>2 DEF Init
    <2> QED
      BY <2>1, <2>2 DEF SendingOK, OneRecordOK
  <1>2. Spec => []Inv
    BY <1>1, Bounded, SendingStep, OneRecordStep, PTL DEF Spec, IInv, Inv
  <1>3. Inv /\ [Next]_vars => (Len(records) = 1 /\ kills = 0 => ~Resent(1))
    <2> SUFFICES ASSUME Inv, [Next]_vars, Len(records) = 1, kills = 0,
                        NEW c \in acked[1]
                 PROVE  posted'[1][c] = posted[1][c]
      BY DEF Resent
    <2>1. CASE UNCHANGED posted
      BY <2>1
    <2>2. ASSUME NEW d \in Channel, SendAcked(d) \/ SendLost(d)
          PROVE posted'[1][c] = posted[1][c]
      <3>1. phase = "notify" /\ send[d] = "sending" /\ Post(d)
        BY <2>2 DEF SendAcked, SendLost, Sending
      <3>2. send[c] = "acked" /\ c # d
        BY <3>1 DEF OneRecordOK
      <3>3. 1 \in 1 .. MaxRecords /\ idx = 1
        <4>1. idx \in DOMAIN records
          BY <3>1 DEF ProgressOK
        <4>2. DOMAIN records = 1 .. Len(records) /\ Len(records) \in 0 .. MaxRecords
          <5>1. ShapeOK
            OBVIOUS
          <5> QED
            BY <5>1, Length
        <4>3. Len(records) = 1
          OBVIOUS
        <4> QED
          BY <4>1, <4>2, <4>3
      <3> QED
        BY <3>1, <3>2, <3>3 DEF Post, PostedOK
    <2>3. UNCHANGED posted \/ \E d \in Channel : SendAcked(d) \/ SendLost(d)
      BY DEF Next, Step, Invoke, ParseFails, SkipNonAlarm, Return, StartNotify,
             SendFails, Joined, Kill, vars
    <2> QED
      BY <2>1, <2>2, <2>3
  <1>4. Inv /\ [Next]_vars
           => [Len(records) = 1 /\ kills = 0 => ~Resent(1)]_vars
    BY <1>3
  <1> QED
    BY <1>2, <1>4, PTL DEF Spec, PartialNotResent

-----------------------------------------------------------------------------
(* The event, seen from outside, goes round as Courier says *)

Behind == {r \in DOMAIN records : r < idx}
Amiss(r) == records[r] = "bad" \/ (records[r] = "alarm" /\ r \notin heard)

(* errs holds exactly what went amiss with the records behind; an alarm    *)
(* is heard when a goroutine of it has reported success.                   *)
HeardOK ==
    /\ heard \subseteq Alarms
    /\ phase = "queued" => ~failed
    /\ phase \in Invoked =>
          /\ failed <=> \E r \in Behind : Amiss(r)
          /\ \A r \in heard : r < idx \/ (phase = "notify" /\ r = idx)
    /\ phase = "notify" =>
          (idx \in heard <=> \E c \in configured : send[c] = "acked")

(* An event does not change, so neither do its alarms.                     *)
LEMMA SameEvent ==
  ASSUME UNCHANGED records
  PROVE  UNCHANGED <<Alarms, Sound>>
  BY DEF Alarms, Sound

(* What the loop knows of the records behind outlasts every step.          *)
LEMMA HeardStep ==
  ShapeOK /\ BoundsOK /\ ProgressOK /\ SendingOK /\ HeardOK /\ [Next]_vars
     => HeardOK'
  <1> SUFFICES ASSUME ShapeOK, BoundsOK, ProgressOK, SendingOK, HeardOK,
                      [Next]_vars
               PROVE  HeardOK'
    OBVIOUS
  <1>1. UNCHANGED cfg
    BY DEF Next, Step, Invoke, ParseFails, SkipNonAlarm, Return, StartNotify,
           SendAcked, SendLost, SendFails, Joined, Kill, vars
  <1>2. /\ UNCHANGED <<records, configured, Alarms>>
        /\ idx \in Nat /\ failed \in BOOLEAN /\ configured \subseteq Channel
        /\ DOMAIN records = 1 .. Len(records) /\ Len(records) \in Nat
    BY <1>1, SameEvent, Length DEF cfg, ShapeOK
  <1>12. \A r \in Alarms : r \in Nat
    BY <1>2 DEF Alarms
  <1>13. ASSUME idx \in DOMAIN records, idx' = idx + 1, heard' = heard
         PROVE  /\ Behind' = Behind \cup {idx}
                /\ \A r \in DOMAIN records : Amiss(r)' <=> Amiss(r)
    BY <1>2, <1>13 DEF Behind, Amiss
  <1> USE DEF HeardOK, history
  <1>3. CASE Invoke
    BY <1>2, <1>3 DEF Invoke, Behind
  <1>4. CASE Kill \/ Return
    BY <1>2, <1>4 DEF Kill, Return, Settle
  <1>5. CASE ParseFails
    <2>1. /\ phase = "record" /\ phase' = "record" /\ idx' = idx + 1
          /\ idx \in DOMAIN records /\ heard' = heard /\ failed' = TRUE
          /\ records[idx] = "bad"
      BY <1>5 DEF ParseFails, AtRecord
    <2>2. \E r \in Behind' : Amiss(r)'
      BY <1>2, <1>13, <2>1 DEF Amiss
    <2>3. \A r \in heard : r < idx + 1
      BY <1>2, <1>12, <2>1
    <2> QED
      BY <1>2, <2>1, <2>2, <2>3
  <1>6. CASE SkipNonAlarm
    <2>1. /\ phase = "record" /\ phase' = "record" /\ idx' = idx + 1
          /\ idx \in DOMAIN records /\ heard' = heard /\ failed' = failed
          /\ ~Amiss(idx)
      BY <1>6 DEF SkipNonAlarm, AtRecord, Amiss
    <2>2. (\E r \in Behind : Amiss(r)) <=> \E r \in Behind' : Amiss(r)'
      BY <1>2, <1>13, <2>1 DEF Behind
    <2>3. \A r \in heard : r < idx + 1
      BY <1>2, <1>12, <2>1
    <2> QED
      BY <1>2, <2>1, <2>2, <2>3
  <1>7. CASE StartNotify
    <2>1. /\ phase = "record" /\ phase' = "notify"
          /\ UNCHANGED <<idx, failed, heard>>
          /\ \A c \in configured : send'[c] # "acked"
      BY <1>2, <1>7 DEF StartNotify, AtRecord
    <2>2. (\E r \in Behind : Amiss(r)) <=> \E r \in Behind' : Amiss(r)'
      BY <1>2, <2>1 DEF Behind, Amiss
    <2>3. idx \notin heard
      BY <1>2, <2>1
    <2> QED
      BY <1>2, <2>1, <2>2, <2>3
  <1>8. ASSUME NEW c \in Channel, SendAcked(c) PROVE HeardOK'
    <2>1. /\ phase = "notify" /\ idx \in Alarms /\ c \in configured
          /\ heard' = heard \cup {idx} /\ send'[c] = "acked"
          /\ UNCHANGED <<phase, idx, failed>>
      BY <1>2, <1>8 DEF SendAcked, Sending, SendingOK, ProgressOK, Alarms,
                        ShapeOK
    <2>2. (\E r \in Behind : Amiss(r)) <=> \E r \in Behind' : Amiss(r)'
      BY <1>2, <2>1 DEF Behind, Amiss
    <2>3. \E d \in configured : send'[d] = "acked"
      BY <2>1
    <2> QED
      BY <1>2, <2>1, <2>2, <2>3
  <1>9. ASSUME NEW c \in Channel, SendLost(c) \/ SendFails(c) PROVE HeardOK'
    <2>1. /\ UNCHANGED <<phase, idx, failed, heard>>
          /\ \A d \in Channel : send'[d] = "acked" <=> send[d] = "acked"
      BY <1>9 DEF SendLost, SendFails, Sending, ShapeOK
    <2> QED
      BY <1>2, <2>1 DEF Behind, Amiss
  <1>10. CASE Joined
    <2>1. /\ phase = "notify" /\ phase' = "record" /\ idx' = idx + 1
          /\ failed' = (failed \/ \A c \in configured : send[c] # "acked")
          /\ heard' = heard
      BY <1>10 DEF Joined
    <2>2. idx \in DOMAIN records /\ records[idx] = "alarm"
      BY <2>1 DEF ProgressOK
    <2>3. Amiss(idx) <=> \A c \in configured : send[c] # "acked"
      BY <2>1, <2>2 DEF Amiss
    <2>4. failed' <=> \E r \in Behind' : Amiss(r)'
      <3>1. (\E r \in Behind' : Amiss(r)') <=> Amiss(idx) \/ \E r \in Behind : Amiss(r)
        BY <1>13, <2>1, <2>2 DEF Behind
      <3>2. failed <=> \E r \in Behind : Amiss(r)
        BY <2>1
      <3> QED
        BY <2>1, <2>3, <3>1, <3>2
    <2>5. \A r \in heard : r < idx + 1
      BY <1>2, <1>12, <2>1
    <2> QED
      BY <1>2, <2>1, <2>4, <2>5
  <1>11. CASE UNCHANGED vars
    BY <1>2, <1>11 DEF vars, Behind, Amiss
  <1> QED
    BY <1>3, <1>4, <1>5, <1>6, <1>7, <1>8, <1>9, <1>10, <1>11 DEF Next, Step

(* All the facts about a reachable state that the refinement rests on.     *)
CourierInv == IInv /\ BoundsOK /\ TallyOK /\ PostedOK /\ SendingOK /\ HeardOK

(* What an event's invocations have done so far is always on record.       *)
LEMMA CourierInvariance == Spec => []CourierInv
  <1>1. Init => SendingOK /\ HeardOK
    BY DEF Init, SendingOK, HeardOK
  <1> QED
    BY <1>1, Bounded, SendingStep, HeardStep, PTL DEF Spec, IInv, CourierInv

(* The verdict of an invocation that has passed all its records.           *)
LEMMA ExactVerdict ==
  ASSUME CourierInv, phase = "record", idx > Len(records)
  PROVE  failed \/ records = << >> <=> ~Rounds!AllIsWell
  <1>1. DOMAIN records = 1 .. Len(records) /\ Len(records) \in Nat /\ idx \in Nat
    BY Length DEF CourierInv, IInv, ShapeOK
  <1>2. Behind = DOMAIN records
    BY <1>1 DEF Behind
  <1>3. failed <=> \E r \in DOMAIN records : Amiss(r)
    BY <1>2 DEF CourierInv, HeardOK
  <1>4. heard = Alarms <=> \A r \in DOMAIN records : records[r] = "alarm" => r \in heard
    BY DEF CourierInv, HeardOK, Alarms
  <1> QED
    BY <1>3, <1>4 DEF Rounds!AllIsWell, Sound, Amiss

(* Every step of an event is a step of Courier or leaves it unchanged.     *)
LEMMA CourierStep ==
  CourierInv /\ CourierInv' /\ [Next]_vars => [Rounds!Next]_(Rounds!vars)
  <1> SUFFICES ASSUME CourierInv, CourierInv', [Next]_vars
               PROVE  [Rounds!Next]_(Rounds!vars)
    OBVIOUS
  <1>1. UNCHANGED cfg
    BY DEF Next, Step, Invoke, ParseFails, SkipNonAlarm, Return, StartNotify,
           SendAcked, SendLost, SendFails, Joined, Kill, vars
  <1>2. UNCHANGED <<Alarms, Sound>>
    BY <1>1, SameEvent DEF cfg
  <1> USE DEF history, Outcome, Rounds!Next, Rounds!vars
  <1>3. ASSUME UNCHANGED <<Outcome, attempt, posted, heard, kills>>
        PROVE  UNCHANGED Rounds!vars
    BY <1>2, <1>3
  <1>4. CASE Invoke
    BY <1>2, <1>4 DEF Invoke, Rounds!SetOut
  <1>5. CASE Kill
    BY <1>2, <1>5 DEF Kill, Settle, Rounds!CutShort, Rounds!Reschedule
  <1>6. CASE Return
    <2>1. failed \/ records = << >> <=> ~Rounds!AllIsWell
      BY <1>6, ExactVerdict DEF Return
    <2>2. CASE Rounds!AllIsWell
      BY <1>2, <1>6, <2>1, <2>2 DEF Return, Settle, Rounds!Handle
    <2>3. CASE ~Rounds!AllIsWell
      BY <1>2, <1>6, <2>1, <2>3 DEF Return, Settle, Rounds!ComeBack,
                                    Rounds!Reschedule
    <2> QED
      BY <2>2, <2>3
  <1>7. CASE ParseFails \/ SkipNonAlarm \/ StartNotify \/ Joined
    BY <1>3, <1>7 DEF ParseFails, SkipNonAlarm, StartNotify, Joined, AtRecord
  <1>8. ASSUME NEW c \in Channel, SendFails(c) PROVE UNCHANGED Rounds!vars
    BY <1>3, <1>8 DEF SendFails
  <1>9. ASSUME NEW c \in Channel, SendAcked(c) \/ SendLost(c)
        PROVE  Rounds!Deliver(idx, c)
    <2>1. /\ phase = "notify" /\ send[c] = "sending" /\ Post(c)
          /\ heard' \in {heard, heard \cup {idx}}
          /\ UNCHANGED <<phase, attempt, kills>>
      BY <1>9 DEF SendAcked, SendLost, Sending
    <2>2. idx \in Alarms /\ idx \in 1 .. MaxRecords
      BY <2>1, Length DEF CourierInv, IInv, ProgressOK, Alarms
    <2>3. posted[idx][c] < attempt
      <3>1. idx \in Nat
        BY <2>2
      <3> QED
        BY <2>1, <2>2, <3>1 DEF CourierInv, PostedOK, Ahead
    <2> QED
      BY <1>2, <2>1, <2>2, <2>3 DEF Rounds!Deliver, Post
  <1>10. ASSUME NEW c \in Channel, SendAcked(c) \/ SendLost(c)
         PROVE  Rounds!Next
    <2>1. idx \in 1 .. MaxRecords
      BY <1>10, Length DEF SendAcked, SendLost, Sending, CourierInv, IInv,
                           ProgressOK
    <2> QED
      BY <1>9, <1>10, <2>1
  <1>11. CASE UNCHANGED vars
    BY <1>3, <1>11 DEF vars
  <1> QED
    BY <1>4, <1>5, <1>6, <1>7, <1>8, <1>10, <1>11 DEF Next, Step

(* An event starts as Courier's does.                                      *)
LEMMA CourierInit == Init => Rounds!Init
  <1> SUFFICES ASSUME Init PROVE Rounds!Init
    OBVIOUS
  <1>1. Alarms \subseteq 1 .. MaxRecords
    <2>1. ShapeOK
      BY ShapeInit
    <2> QED
      BY <2>1, Length DEF Alarms
  <1>2. Sound \in BOOLEAN
    BY DEF Sound
  <1> QED
    BY <1>1, <1>2 DEF Init, Rounds!Init, Outcome

(* For any number of records, channels and attempts the verdict of an      *)
(* invocation that Lambda lets finish is exact: success if and only if     *)
(* each alarm was acknowledged in that invocation and every record could   *)
(* be read; and no channel gets an alarm more often than it was invoked.   *)
THEOREM CourierRefinement == Spec => ImplementsCourier
  <1> QED
    BY CourierInit, CourierStep, CourierInvariance, PTL
    DEF Spec, Rounds!Spec, ImplementsCourier

=============================================================================
