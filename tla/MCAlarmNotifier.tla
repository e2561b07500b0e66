-------------------------- MODULE MCAlarmNotifier --------------------------
(* AlarmNotifier on small instances for TLC. *)
EXTENDS AlarmNotifier

MCChannels == {"discord", "telegram"}
MCAllOutcomes == {"ack", "lost", "fail"}
MCAcksOnly == {"ack"}

=============================================================================
