--------------------------- MODULE MCAlarmManager ---------------------------
(* Two tasks share the sender.  Both call about one alarm of                 *)
(* ALARM_DEFINITIONS, as the event loop and a connecting worker do about     *)
(* 1003; one registers an alarm of its own at run time, as the fault bridge  *)
(* does.                                                                     *)
EXTENDS AlarmManager, TLC

CONSTANTS t1, t2, a1, a2

MCTask == {t1, t2}
MCAlarm == {a1, a2}
MCStatic == {a1}
MCCallers == a1 :> {t1, t2} @@ a2 :> {t2}
MCSeverity == {"CRITICAL"}
=============================================================================
